---------------------------- MODULE Precompiles ----------------------------
(***************************************************************************)
(* The precompiled contracts of crates/nexus-evm/src/precompiles.rs: what  *)
(* each call costs, when it is refused, and what MODEXP computes.  An input *)
(* is its length and the few values the price depends on; points are       *)
(* classified, hashes and curve arithmetic are left out.                   *)
(***************************************************************************)
EXTENDS Integers, Sequences, FiniteSetsExt, Functions

CONSTANTS
    InputLen,      \* lengths of inputs, in bytes
    Count,         \* rounds of BLAKE2F, number of proofs of a batch
    GasLimit,
    OperandLen,    \* <<base_len, exp_len, mod_len>> of MODEXP
    Operands       \* what follows the header of MODEXP

VARIABLES pcCall, pcResult

precompileVars == <<pcCall, pcResult>>

Named == {"ecrecover", "sha256", "ripemd160", "identity", "bn_add", "bn_mul", "bn_pairing",
          "blake2f", "zkp_verify", "zkp_batch_verify", "iso20022_parse", "iso20022_validate",
          "dag_get_vertex", "poseidon_hash"}
Call ==
    [at : Named, len : InputLen, count : Count, flag : BOOLEAN,
     points : SUBSET {"on", "off"}, limit : GasLimit]
ModexpCall == [at : {"modexp"}, lens : OperandLen, data : Operands, limit : GasLimit]
        \cup  [at : {"modexp"}, short : {TRUE}, limit : GasLimit]

Schedule == [ecrecover |-> 3000, sha256_base |-> 60, sha256_word |-> 12,
    ripemd160_base |-> 600, ripemd160_word |-> 120, identity_base |-> 15, identity_word |-> 3,
    bn_add |-> 150, bn_mul |-> 6000, bn_pairing_base |-> 45000, bn_pairing_point |-> 34000,
    blake2f_round |-> 1, zkp_verify_base |-> 100000, zkp_verify_per_input |-> 5000,
    iso20022_parse_base |-> 5000, iso20022_parse_per_byte |-> 10]

Words(len) == (len + 31) \div 32
Answer(gas, value) == [kind |-> "ok", gas |-> gas, value |-> value]
Failure(kind) == [kind |-> kind]

PrecompileInit == pcCall = [at |-> "none"] /\ pcResult = Failure("error")

-----------------------------------------------------------------------------
(* Prices *)

HashGas(at, len) ==
    CASE at = "sha256" -> Schedule.sha256_base + Words(len) * Schedule.sha256_word
      [] at = "ripemd160" -> Schedule.ripemd160_base + Words(len) * Schedule.ripemd160_word
      [] at = "identity" -> Schedule.identity_base + Words(len) * Schedule.identity_word
CurveGas(at, len) ==
    CASE at = "ecrecover" -> Schedule.ecrecover
      [] at = "bn_add" -> Schedule.bn_add
      [] at = "bn_mul" -> Schedule.bn_mul
      [] at = "bn_pairing" -> Schedule.bn_pairing_base + (len \div 192) * Schedule.bn_pairing_point
Blake2fGas(rounds) == Max({rounds * Schedule.blake2f_round, 1})
ZkpGas(at, len, n) ==
    CASE at = "zkp_verify" ->
            Schedule.zkp_verify_base + ((len - 224) \div 32) * Schedule.zkp_verify_per_input
      [] at = "zkp_batch_verify" -> (Schedule.zkp_verify_base * n * 60) \div 100
IsoGas(at, len) ==
    Schedule.iso20022_parse_base
        + (IF at = "iso20022_validate" THEN len \div 2 ELSE len) * Schedule.iso20022_parse_per_byte
NexusGas(at, len) == IF at = "dag_get_vertex" THEN 1000 ELSE 500 + Words(len) * 100

PriceOf(at, len, n) ==
    CASE at \in {"sha256", "ripemd160", "identity"} -> HashGas(at, len)
      [] at \in {"ecrecover", "bn_add", "bn_mul", "bn_pairing"} -> CurveGas(at, len)
      [] at = "blake2f" -> Blake2fGas(n)
      [] at \in {"zkp_verify", "zkp_batch_verify"} -> ZkpGas(at, len, n)
      [] at \in {"iso20022_parse", "iso20022_validate"} -> IsoGas(at, len)
      [] at \in {"dag_get_vertex", "poseidon_hash"} -> NexusGas(at, len)

\* Inputs that are refused before the gas is looked at
Malformed(c) ==
    \/ c.at = "bn_pairing" /\ c.len % 192 # 0
    \/ c.at = "blake2f" /\ (c.len # 213 \/ ~c.flag)
    \/ c.at = "zkp_verify" /\ c.len < 224
    \/ c.at = "zkp_batch_verify" /\ c.len < 4
    \/ c.at = "dag_get_vertex" /\ c.len < 32

\* parse_g1, parse_g2: all-zero coordinates are the identity, others must be on
\* the curve.  Padding makes identities of points that are missing.
Parses(points) == "off" \notin points

Run(c) ==
    IF Malformed(c) THEN Failure("error")
    ELSE IF c.limit < PriceOf(c.at, c.len, c.count) THEN Failure("out_of_gas")
    ELSE IF c.at \in {"bn_add", "bn_mul", "bn_pairing"} /\ ~Parses(c.points) THEN Failure("error")
    ELSE Answer(PriceOf(c.at, c.len, c.count), << >>)

-----------------------------------------------------------------------------
(* MODEXP *)

\* The three regimes of the EIP-198 formula, by the longer of base and modulus
MultComplexity(n) ==
    IF n <= 64 THEN n * n
    ELSE IF n <= 1024 THEN Max({(n * n) \div 4 + 96 * n - 3072, 0})
    ELSE Max({(n * n) \div 16 + 480 * n - 199680, 0})

Pow(b, e) == LET f[i \in 0..e] == IF i = 0 THEN 1 ELSE b * f[i - 1] IN f[e]

BitIndex(byte) == Max({i \in 0..7 : Pow(2, i) <= byte})
HighestBitIndex(bytes) ==
    LET set == {i \in DOMAIN bytes : bytes[i] # 0}
    IN IF set = {} THEN 0 ELSE (Len(bytes) - Min(set)) * 8 + BitIndex(bytes[Min(set)])

\* The head of the exponent as far as the input has it
ExpView(baseLen, expLen, data) ==
    SubSeq(data, baseLen + 1, Min({baseLen + Min({expLen, 32}), Len(data)}))

ModexpGas(l, data) ==
    LET head == HighestBitIndex(ExpView(l[1], l[2], data))
        adjusted == IF l[2] <= 32 THEN head ELSE 8 * (l[2] - 32) + head
    IN Max({(MultComplexity(Max({l[1], l[3]})) * Max({adjusted, 1})) \div 3, 200})

\* Mutant: short data is aligned to the right.
ReadSliceRight(data, offset, len) ==
    LET copy == Min({Max({Len(data) - offset, 0}), len})
    IN [i \in 1..len |-> IF i > len - copy THEN data[offset + i - (len - copy)] ELSE 0]

\* read_slice: what is missing at the end reads as zero.
ReadSlice(data, offset, len) ==
    LET copy == Min({Max({Len(data) - offset, 0}), len})
    IN [i \in 1..len |-> IF i <= copy THEN data[offset + i] ELSE 0]

\* The slice of read_slice starts behind the data: the call panics.
OutOfData(l, data) == l[1] > Len(data) \/ l[1] + l[2] > Len(data)

BigUint(bytes) ==
    LET f[i \in 0..Len(bytes)] == IF i = 0 THEN 0 ELSE 256 * f[i - 1] + bytes[i] IN f[Len(bytes)]
ModPow(b, e, m) ==
    LET f[i \in 0..e] == IF i = 0 THEN 1 % m ELSE (f[i - 1] * (b % m)) % m IN f[e]
\* to_bytes_be, padded to the length of the modulus on the left
BytesBe(n, len) == [i \in 1..len |-> (n \div Pow(256, len - i)) % 256]

Modexp(c) ==
    IF "short" \in DOMAIN c THEN Answer(200, << >>)
    ELSE LET l == c.lens
             gas == ModexpGas(l, c.data)
             base == BigUint(ReadSlice(c.data, 0, l[1]))
             exp == BigUint(ReadSlice(c.data, l[1], l[2]))
             mod == BigUint(ReadSlice(c.data, l[1] + l[2], l[3]))
         IN IF c.limit < gas THEN Failure("out_of_gas")
            ELSE IF l[3] = 0 THEN Answer(gas, << >>)
            ELSE IF OutOfData(l, c.data) THEN Failure("panic")
            ELSE Answer(gas, BytesBe(IF mod = 0 THEN 0 ELSE ModPow(base, exp, mod), l[3]))

-----------------------------------------------------------------------------
CallPrecompile == \E c \in Call : pcCall' = c /\ pcResult' = Run(c)
CallModexp == \E c \in ModexpCall : pcCall' = c /\ pcResult' = Modexp(c)
PrecompileNext == pcCall.at = "none" /\ (CallPrecompile \/ CallModexp)

PrecompileSpec == PrecompileInit /\ [][PrecompileNext]_precompileVars

-----------------------------------------------------------------------------
(* Properties *)

\* No precompile answers for more gas than it was given, whatever the order of
\* its tests; the one exception is a MODEXP whose header is cut off.
PaidInFull ==
    pcResult.kind = "ok" /\ "short" \notin DOMAIN pcCall => pcResult.gas <= pcCall.limit

\* A longer operand is never cheaper, across the boundaries of the price
\* formula of MODEXP (modexp_gas).
PriceGrows ==
    "lens" \in DOMAIN pcCall =>
        LET l == pcCall.lens
        IN \A longer \in {<<l[1] + 1, l[2], l[3]>>, <<l[1], l[2], l[3] + 1>>} :
               ModexpGas(l, << >>) <= ModexpGas(longer, << >>)

\* An answered MODEXP is the power of the operands as they lie in the input,
\* continued with zeros, in as many bytes as the modulus has (modexp,
\* read_slice).
ModexpIsExact ==
    "lens" \in DOMAIN pcCall /\ pcResult.kind = "ok" =>
        LET l == pcCall.lens
            Byte(k) == IF k \in DOMAIN pcCall.data THEN pcCall.data[k] ELSE 0
            Operand(from, len) == SumFunction([i \in 1..len |-> Byte(from + i) * Pow(256, len - i)])
            exp == Operand(l[1], l[2])
            mod == Operand(l[1] + l[2], l[3])
        IN /\ Len(pcResult.value) = l[3]
           /\ BigUint(pcResult.value) = IF mod = 0 THEN 0 ELSE Pow(Operand(0, l[1]), exp) % mod

\* A precompile is paid for, priced by its size, and computes what it should.
PrecompilesAreExact == PaidInFull /\ PriceGrows /\ ModexpIsExact
=============================================================================
