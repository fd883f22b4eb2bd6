---------------------------- MODULE ProofOfWork ----------------------------
(***************************************************************************)
(* The searches for a proof of work and the checks of one: FindNonce,      *)
(* CheckPoW and ValidateNodeID of src/p2p/pow.go with the node identifier  *)
(* of src/p2p/kademlia.go, VerifyPoW of src/p2p/gas.go, and SolvePuzzle    *)
(* and VerifyNonce of src/crypto/puzzle.go.                                *)
(*                                                                         *)
(* SHA-256 is external: a function nobody knows before it is computed.  A  *)
(* hash is its bytes, whose number and width are parameters, as are the    *)
(* sizes of the words that nonces and difficulties are kept in.            *)
(*                                                                         *)
(* An action named A_Something is A with a plausible bug in it, for the    *)
(* mutation runs; no specification uses it.                                *)
(***************************************************************************)
EXTENDS Integers

CONSTANTS
  ByteBits, HashBytes,   \* 8 and 32
  IDBytes,               \* bytes of a NodeID: 20
  MaxBits,               \* the most CheckPoW looks at: 32
  DefaultPoWDifficulty, MaxAttempts,   \* of GenerateNodeIDFromPubKey
  Margin,                \* bits that SolvePuzzle adds to the difficulty: 8
  NonceWords,            \* values of a uint64
  DifficultyWords,       \* values of a uint32
  NoNonce                \* the hash of the public key alone

ASSUME WidthAssumption ==
  /\ ByteBits \in Nat \ {0} /\ HashBytes \in Nat
  /\ IDBytes \in 0..HashBytes
  /\ MaxBits \in 0..(HashBytes * ByteBits)

ASSUME WordAssumption ==
  /\ NonceWords \in Nat \ {0} /\ DifficultyWords \in Nat \ {0}
  /\ MaxAttempts \in 0..(NonceWords - 1)
  /\ DefaultPoWDifficulty \in 0..(DifficultyWords - 1)
  /\ Margin \in Nat
  /\ NoNonce \notin Nat

VARIABLES
  kind,    \* what this process mines: "nodeid" (of a key), "puzzle" (of a DID)
  digest,  \* SHA-256 of the key or the DID followed by a nonce, as far as it
           \* was computed
  status,  \* "idle", "searching", "found", "failed" (no nonce), and for a
           \* puzzle that was solved "verified" or "refused"
  bits,    \* the difficulty
  limit,   \* the search stops before this nonce
  nonce,   \* the next nonce to try, or the one found
  stored,  \* PoWPuzzle.Nonce
  localID  \* the NodeID of the key

vars == <<kind, digest, status, bits, limit, nonce, stored, localID>>

\* 1 << n, before it is cut to a word.
PowerOf2[n \in Nat] == IF n = 0 THEN 1 ELSE 2 * PowerOf2[n - 1]

Nonce == 0..(NonceWords - 1)
Difficulty == 0..(DifficultyWords - 1)
Byte == 0..(PowerOf2[ByteBits] - 1)
Hash == [1..HashBytes -> Byte]
NodeID == [1..IDBytes -> Byte]

\* A NodeID before anything is copied into it.
ZeroID == [i \in 1..IDBytes |-> 0]

-----------------------------------------------------------------------------
(* The checks of a hash. *)

ZeroBytes(hash, n) == \A i \in 1..n : hash[i] = 0

\* hash[bytes] >> (8 - remaining)
HighBits(b, n) == b \div PowerOf2[ByteBits - n]

CheckPoW(hash, d) ==
  LET capped == IF d > MaxBits THEN MaxBits ELSE d
      bytes == capped \div ByteBits
      remaining == capped % ByteBits
  IN  \/ d <= 0
      \/ /\ ZeroBytes(hash, bytes)
         /\ remaining > 0 => HighBits(hash[bytes + 1], remaining) = 0

\* hash[bytes] & (0xFF << (8 - remaining))
Masked(b, n) == HighBits(b, n) * PowerOf2[ByteBits - n]

VerifyPoW_WholeBytes(hash, d) ==
  d <= 0 \/ ZeroBytes(hash, d \div ByteBits)

VerifyPoW(hash, d) ==
  \/ d <= 0
  \/ /\ ZeroBytes(hash, d \div ByteBits)
     /\ d % ByteBits > 0 =>
          Masked(hash[(d \div ByteBits) + 1], d % ByteBits) = 0

\* bits.LeadingZeros8
LeadingZeros(b) ==
  CHOOSE n \in 0..ByteBits :
    b < PowerOf2[ByteBits - n] /\ (n < ByteBits => b >= PowerOf2[ByteBits - n - 1])

countLeadingZeroBits(hash) ==
  IF ZeroBytes(hash, HashBytes)
  THEN HashBytes * ByteBits
  ELSE LET first == CHOOSE i \in 1..HashBytes :
                      hash[i] # 0 /\ ZeroBytes(hash, i - 1)
       IN  (first - 1) * ByteBits + LeadingZeros(hash[first])

verifyNonce(hash, d) == countLeadingZeroBits(hash) >= d

\* The check that the search uses.
Solves(hash) ==
  IF kind = "puzzle" THEN verifyNonce(hash, bits) ELSE CheckPoW(hash, bits)

FirstBytes(hash) == [i \in 1..IDBytes |-> hash[i]]

\* hash is the one of the nonce to validate.
ValidateNodeID(id, hash, d) == FirstBytes(hash) = id /\ CheckPoW(hash, d)

Limit_Unbounded(d) == PowerOf2[d + Margin]

\* uint64(1 << (p.Difficulty + 8)): the sum wraps, and so does the shift, to
\* zero.
Limit(d) == PowerOf2[(d + Margin) % DifficultyWords] % NonceWords

-----------------------------------------------------------------------------
Init ==
  /\ kind \in {"nodeid", "puzzle"}
  /\ digest = <<>>
  /\ status = "idle"
  /\ bits = 0
  /\ limit = 0
  /\ nonce = 0
  /\ stored = 0
  /\ localID = ZeroID

(* SHA-256 of x gives h, the same at each computation.                     *)
Hashes(x, h) ==
  /\ h \in Hash
  /\ x \in DOMAIN digest => h = digest[x]
  /\ digest' = [n \in DOMAIN digest \cup {x} |->
                 IF n = x THEN h ELSE digest[n]]

(* NewKademlia has the NodeID of its public key computed: the search.      *)
GenerateNodeIDFromPubKey ==
  /\ kind = "nodeid"
  /\ status = "idle"
  /\ status' = "searching"
  /\ bits' = DefaultPoWDifficulty
  /\ limit' = MaxAttempts
  /\ nonce' = 0
  /\ UNCHANGED <<kind, digest, stored, localID>>

(* CreateIdentityWithPoW and ValidateIdentityWithPoW: a new puzzle, which  *)
(* they solve.  The DID is the same as that of the puzzle before.          *)
SolvePuzzle(d) ==
  /\ kind = "puzzle"
  /\ status # "searching"
  /\ status' = "searching"
  /\ bits' = d
  /\ limit' = Limit(d)
  /\ nonce' = 0
  /\ stored' = 0
  /\ UNCHANGED <<kind, digest, localID>>

FindNonce_Skips ==
  /\ status = "searching"
  /\ nonce < limit
  /\ \E h \in Hash : Hashes(nonce, h) /\ ~Solves(h)
  /\ nonce' \in {nonce + 1, nonce + 2} \cap Nonce
  /\ UNCHANGED <<kind, status, bits, limit, stored, localID>>

FindNonce_Repeats ==
  /\ status = "searching"
  /\ nonce < limit
  /\ \E h \in Hash : Hashes(nonce, h) /\ ~Solves(h)
  /\ UNCHANGED <<kind, status, bits, limit, nonce, stored, localID>>

(* One turn of the loop of FindNonce or SolvePuzzle without success ...    *)
FindNonce ==
  /\ status = "searching"
  /\ nonce < limit
  /\ \E h \in Hash : Hashes(nonce, h) /\ ~Solves(h)
  /\ nonce' = nonce + 1
  /\ UNCHANGED <<kind, status, bits, limit, stored, localID>>

Found_FallsBack ==
  /\ status = "searching"
  /\ nonce < limit
  /\ \E h \in Hash : Hashes(nonce, h) /\ Solves(h)
  /\ \E h \in Hash :
       localID' = IF kind = "nodeid" THEN FirstBytes(h) ELSE localID
  /\ stored' = IF kind = "puzzle" THEN nonce ELSE stored
  /\ status' = "found"
  /\ UNCHANGED <<kind, bits, limit, nonce>>

(* ... and one with.                                                       *)
Found ==
  /\ status = "searching"
  /\ nonce < limit
  /\ \E h \in Hash :
       /\ Hashes(nonce, h)
       /\ Solves(h)
       /\ localID' = IF kind = "nodeid" THEN FirstBytes(h) ELSE localID
  /\ stored' = IF kind = "puzzle" THEN nonce ELSE stored
  /\ status' = "found"
  /\ UNCHANGED <<kind, bits, limit, nonce>>

(* The nonces are used up: an error, or the hash of the public key alone.  *)
GiveUp ==
  /\ status = "searching"
  /\ nonce >= limit
  /\ IF kind = "nodeid"
     THEN \E h \in Hash : Hashes(NoNonce, h) /\ localID' = FirstBytes(h)
     ELSE UNCHANGED <<digest, localID>>
  /\ status' = "failed"
  /\ UNCHANGED <<kind, bits, limit, nonce, stored>>

(* A solved puzzle is verified once more, with the nonce that it kept.     *)
VerifyNonce ==
  /\ kind = "puzzle"
  /\ status = "found"
  /\ \E h \in Hash :
       /\ Hashes(stored, h)
       /\ status' = IF verifyNonce(h, bits) THEN "verified" ELSE "refused"
  /\ UNCHANGED <<kind, bits, limit, nonce, stored, localID>>

(* The process ends.  The next one generates another key, with another     *)
(* DID: no key, and no nonce, is ever stored.                              *)
Restart ==
  /\ digest' = <<>>
  /\ status' = "idle"
  /\ bits' = 0
  /\ limit' = 0
  /\ nonce' = 0
  /\ stored' = 0
  /\ localID' = ZeroID
  /\ UNCHANGED kind

Search == FindNonce \/ Found \/ GiveUp

Next ==
  \/ GenerateNodeIDFromPubKey
  \/ \E d \in Difficulty : SolvePuzzle(d)
  \/ Search
  \/ VerifyNonce
  \/ Restart

\* A loop that nothing waits for.
Fairness == WF_vars(Search)

Spec == Init /\ [][Next]_vars /\ Fairness

-----------------------------------------------------------------------------
(* Properties. *)

TypeOK ==
  /\ kind \in {"nodeid", "puzzle"}
  /\ digest = [n \in DOMAIN digest |-> digest[n]]
  /\ DOMAIN digest \subseteq Nonce \cup {NoNonce}
  /\ \A n \in DOMAIN digest : digest[n] \in Hash
  /\ status \in {"idle", "searching", "found", "failed", "verified", "refused"}
  /\ bits \in Difficulty
  /\ limit \in Nonce
  /\ nonce \in Nonce /\ nonce <= limit
  /\ stored \in Nonce
  /\ localID \in NodeID

\* The loops of CheckPoW, the masks of VerifyPoW and the count of puzzle.go
\* agree on every hash, up to the bits that CheckPoW looks at (pow.go:20-40,
\* gas.go:66-98, puzzle.go:81-96).
CheckersAgree ==
  \A n \in DOMAIN digest, d \in 0..MaxBits :
    LET h == digest[n] IN
      /\ CheckPoW(h, d) <=> VerifyPoW(h, d)
      /\ CheckPoW(h, d) <=> countLeadingZeroBits(h) >= d

Refuted(n) == n \in DOMAIN digest /\ ~Solves(digest[n])

\* SolvePuzzle's limit is what was meant: neither the sum nor the shift wraps.
Fits(d) ==
  d + Margin < DifficultyWords /\ PowerOf2[d + Margin] < NonceWords

\* A search that succeeds has found the least nonce there is, and its result
\* stands a second verification; one that fails has tried every nonce below
\* its limit, and, unless that wrapped around, all the 2^(d + Margin) that the
\* difficulty asks for (pow.go:43-51, puzzle.go:37-59, 145-148).
LeastSolution ==
  /\ status # "refused"
  /\ status \in {"found", "verified"} =>
       /\ nonce \in DOMAIN digest /\ Solves(digest[nonce])
       /\ \A n \in 0..(nonce - 1) : Refuted(n)
  /\ status = "failed" =>
       /\ \A n \in 0..(limit - 1) : Refuted(n)
       /\ kind = "puzzle" /\ Fits(bits) =>
            \A n \in 0..(PowerOf2[bits + Margin] - 1) : Refuted(n)

\* The NodeID of a search that succeeded validates with its nonce; that of the
\* fallback does with none of those tried (kademlia.go:22-32, pow.go:54-62).
MinedIDValidates ==
  kind = "nodeid" =>
    /\ status = "found" => ValidateNodeID(localID, digest[nonce], bits)
    /\ status = "failed" =>
         \A n \in 0..(limit - 1) : ~ValidateNodeID(localID, digest[n], bits)

\* Every search ends, of any difficulty (puzzle.go:39).
SearchEnds == status = "searching" ~> status # "searching"

=============================================================================
