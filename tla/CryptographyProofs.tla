------------------------- MODULE CryptographyProofs -------------------------
(***************************************************************************)
(* The static fields follow the instances, and texts are read back, for    *)
(* any set of instances and any number of callers.  Two things are known   *)
(* besides the types: while constructors run one at a time, which fields   *)
(* are already the new instance's (SyncInv), and what an undisturbed call  *)
(* has read (CallInv).                                                     *)
(***************************************************************************)
EXTENDS Cryptography, TLAPS

SyncInv ==
  alone => \/ Making = {} /\ static = [f \in Fields |-> latest]
           \/ /\ Making = {latest}
              /\ \A f \in wrote[latest] : static[f] = latest

(* What a call that nothing has disturbed knows.                           *)
Faithful(c) ==
  /\ c.op \in Running /\ c.quiet =>
       /\ alone /\ Making = {} /\ c.meant = latest
       /\ \A f \in c.got : c.pair[f] = latest
  /\ c.op = "text" /\ c.quiet => c.pair = PairOf(c.meant)
  /\ c.given.quiet => c.given.pair = PairOf(c.given.meant)
  /\ c.op \in {"read", "unreadable"} /\ c.quiet /\ c.given.quiet =>
       (c.op = "read" <=> c.meant = c.given.meant)

CallInv == \A t \in Callers : Faithful(call[t])

CryptoInv == CryptoTypeOK /\ SyncInv /\ CallInv

(* What a caller's record is.                                              *)
CallType ==
  [op : Running \union Ended, got : SUBSET Fields, pair : Pairs,
   meant : Instances \union {None}, quiet : BOOLEAN, given : Texts]

Complete(c) == c.op \in {"text", "read", "unreadable"} => c.got = Fields

(* Two pairs of one instance each are the same if the instances are.       *)
LEMMA SamePair == \A i, j : PairOf(i) = PairOf(j) <=> i = j
<1> TAKE i, j
<1>1. PairOf(i)["key"] = i /\ PairOf(j)["key"] = j
  BY DEF PairOf, Fields
<1> QED
  BY <1>1

LEMMA PairOfTyped == \A i \in Instances \union {None} : PairOf(i) \in Pairs
BY DEF PairOf, Pairs

LEMMA BlankTyped == Blank \in Texts /\ Blank.quiet = FALSE /\ Blank.pair \in Pairs
BY DEF Blank, Texts, Pairs

(* A call that ends or begins replaces one caller's record.                *)
LEMMA Replaced ==
  ASSUME CryptoInv, UNCHANGED <<static, wrote, latest, alone>>,
         NEW t \in Callers, NEW c \in CallType, call' = [call EXCEPT ![t] = c],
         Complete(c), Faithful(c)
  PROVE  CryptoInv'
<1>1. CryptoTypeOK'
  <2>1. \A u \in Callers : call'[u] \in CallType /\ Complete(call'[u])
    BY DEF CryptoInv, CryptoTypeOK, CallType, Complete
  <2>2. call' \in [Callers -> CallType]
    BY <2>1 DEF CryptoInv, CryptoTypeOK
  <2> QED
    BY <2>1, <2>2 DEF CryptoInv, CryptoTypeOK, CallType, Complete
<1>2. SyncInv'
  BY DEF CryptoInv, SyncInv, Making, Made
<1>3. CallInv'
  <2> SUFFICES ASSUME NEW u \in Callers PROVE Faithful(call[u])'
    BY DEF CallInv
  <2>1. call'[u] = call[u] \/ call'[u] = c
    BY DEF CryptoInv, CryptoTypeOK
  <2>2. Making' = Making
    BY DEF Making, Made
  <2>3. Faithful(call[u])
    BY DEF CryptoInv, CallInv
  <2> QED
    BY <2>1, <2>2, <2>3 DEF Faithful
<1> QED
  BY <1>1, <1>2, <1>3 DEF CryptoInv

-----------------------------------------------------------------------------
LEMMA CryptoInitInv == CryptoInit => CryptoInv
<1> SUFFICES ASSUME CryptoInit PROVE CryptoInv
  OBVIOUS
<1>1. CryptoTypeOK
  BY BlankTyped DEF CryptoInit, CryptoTypeOK, Call, Running, Ended, Fields
<1>2. SyncInv
  BY DEF CryptoInit, SyncInv, Making, Blank
<1>3. CallInv
  BY BlankTyped DEF CryptoInit, CallInv, Faithful, Call, Running
<1> QED
  BY <1>1, <1>2, <1>3 DEF CryptoInv

(* A constructor's write, while constructors run one at a time.            *)
LEMMA WriteKeepsSync ==
  ASSUME CryptoInv, NEW i \in Instances, NEW f \in Fields, WriteStatic(i, f)
  PROVE  SyncInv'
<1>1. /\ f \notin wrote[i] /\ wrote[i] \subseteq Fields
      /\ static' = [static EXCEPT ![f] = i] /\ static \in [Fields -> Instances \union {None}]
      /\ wrote' = [wrote EXCEPT ![i] = @ \union {f}] /\ wrote \in [Instances -> SUBSET Fields]
      /\ IF wrote[i] = {} THEN latest' = i /\ alone' = (Making = {})
                          ELSE UNCHANGED <<latest, alone>>
  BY DEF WriteStatic, Stored, CryptoInv, CryptoTypeOK, Pairs
<1> SUFFICES ASSUME alone'
             PROVE  \/ Making' = {} /\ static' = [g \in Fields |-> latest']
                    \/ /\ Making' = {latest'}
                       /\ \A g \in wrote'[latest'] : static'[g] = latest'
  BY DEF SyncInv
<1>2. \A j \in Instances : j # i => (j \in Making' <=> j \in Making)
  BY <1>1 DEF Making, Made
<1>3. CASE wrote[i] = {}
  <2>1. Making = {} /\ latest' = i /\ wrote'[i] = {f} /\ static'[f] = i
    BY <1>1, <1>3
  <2>2. Making' = {i}
    BY <1>1, <1>2, <2>1 DEF Making, Made, Fields
  <2> QED
    BY <2>1, <2>2
<1>4. CASE wrote[i] # {}
  <2>1. i \in Making /\ alone /\ latest' = latest
    BY <1>1, <1>4 DEF Making, Made
  <2>2. Making = {i} /\ latest = i /\ \A g \in wrote[i] : static[g] = i
    BY <2>1 DEF CryptoInv, SyncInv
  <2>3. wrote'[i] = Fields
    BY <1>1, <1>4 DEF Fields
  <2>4. Making' = {}
    BY <1>2, <2>2, <2>3 DEF Making, Made
  <2>5. \A g \in Fields : static'[g] = i
    BY <1>1, <2>2, <2>3
  <2>6. static' = [g \in Fields |-> latest']
    BY <1>1, <2>1, <2>2, <2>5
  <2> QED
    BY <2>4, <2>6
<1> QED
  BY <1>3, <1>4

(* It disturbs the calls that are running and leaves the others alone.     *)
LEMMA WriteKeepsInv ==
  ASSUME CryptoInv, NEW i \in Instances, NEW f \in Fields, WriteStatic(i, f)
  PROVE  CryptoInv'
<1>1. call' = [t \in Callers |->
                IF call[t].op \in Running THEN [call[t] EXCEPT !.quiet = FALSE] ELSE call[t]]
  BY DEF WriteStatic
<1>2. \A t \in Callers : call[t] \in CallType /\ Complete(call[t]) /\ Faithful(call[t])
  BY DEF CryptoInv, CryptoTypeOK, CallInv, CallType, Complete
<1>3. \A t \in Callers : call'[t] \in CallType /\ Complete(call'[t])
  BY <1>1, <1>2 DEF CallType, Complete, Running
<1>4. CryptoTypeOK'
  <2>1. static' \in Pairs /\ wrote' \in [Instances -> SUBSET Fields]
    BY DEF WriteStatic, Stored, CryptoInv, CryptoTypeOK, Pairs
  <2>2. latest' \in Instances \union {None} /\ alone' \in BOOLEAN
    BY DEF WriteStatic, CryptoInv, CryptoTypeOK
  <2>3. call' \in [Callers -> CallType]
    BY <1>1, <1>3
  <2> QED
    BY <1>3, <2>1, <2>2, <2>3 DEF CryptoTypeOK, CallType, Complete
<1>5. CallInv'
  <2> SUFFICES ASSUME NEW t \in Callers PROVE Faithful(call[t])'
    BY DEF CallInv
  <2>1. CASE call[t].op \in Running
    <3>1. call'[t] = [call[t] EXCEPT !.quiet = FALSE]
      BY <1>1, <2>1
    <3>2. /\ call'[t].quiet = FALSE /\ call'[t].op = call[t].op
          /\ call'[t].given = call[t].given
      BY <1>2, <3>1 DEF CallType
    <3> QED
      BY <1>2, <3>2 DEF Faithful
  <2>2. CASE call[t].op \notin Running
    <3>1. call'[t] = call[t]
      BY <1>1, <2>2
    <3> QED
      BY <1>2, <2>2, <3>1 DEF Faithful
  <2> QED
    BY <2>1, <2>2
<1> QED
  BY <1>4, <1>5, WriteKeepsSync DEF CryptoInv

-----------------------------------------------------------------------------
LEMMA CallKeepsInv ==
  ASSUME CryptoInv, NEW t \in Callers,
         \/ Encrypt(t) \/ Decrypt(t)
         \/ \E f \in Fields : ReadStatic(t, f)
         \/ EncryptInternal(t) \/ DecryptInternal(t)
         \/ \E i \in Instances : EncryptWith(t, i) \/ DecryptWith(t, i)
  PROVE  CryptoInv'
<1>1. \A u \in Callers : call[u] \in CallType /\ Complete(call[u]) /\ Faithful(call[u])
  BY DEF CryptoInv, CryptoTypeOK, CallInv, CallType, Complete
<1>2. /\ static \in [Fields -> Instances \union {None}]
      /\ latest \in Instances \union {None} /\ alone \in BOOLEAN
  BY DEF CryptoInv, CryptoTypeOK, Pairs
<1>3. ASSUME NEW op \in Running, NEW given \in Texts, Begin(t, op, given),
             given.quiet => given.pair = PairOf(given.meant)
      PROVE  CryptoInv'
  <2> DEFINE c == Call(op, {}, Blank.pair, latest, alone /\ Making = {}, given)
  <2>1. c \in CallType
    <3>1. (alone /\ Making = {}) \in BOOLEAN
      BY Zenon
    <3> QED
      BY <1>2, <3>1, BlankTyped DEF Call, CallType
  <2>2. Complete(c) /\ Faithful(c)
    BY <1>3 DEF Complete, Faithful, Call, Running
  <2>3. call' = [call EXCEPT ![t] = c] /\ UNCHANGED <<static, wrote, latest, alone>>
    BY <1>3 DEF Begin
  <2> QED
    BY <2>1, <2>2, <2>3, Replaced
<1>4. ASSUME NEW u \in Callers, call[u].op = "text"
      PROVE  /\ TextOf(call[u]) \in Texts
             /\ TextOf(call[u]).quiet => TextOf(call[u]).pair = PairOf(TextOf(call[u]).meant)
  BY <1>1, <1>4 DEF CallType, Texts, TextOf, Faithful
<1>5. CASE Encrypt(t)
  BY <1>3, <1>5, BlankTyped DEF Encrypt, Running
<1>6. CASE Decrypt(t)
  BY <1>3, <1>4, <1>6 DEF Decrypt, Running
<1>7. ASSUME NEW f \in Fields, ReadStatic(t, f)
      PROVE  CryptoInv'
  <2> DEFINE c == [call[t] EXCEPT !.got = @ \union {f}, !.pair = [@ EXCEPT ![f] = static[f]]]
  <2>1. call' = [call EXCEPT ![t] = c] /\ UNCHANGED <<static, wrote, latest, alone>>
        /\ call[t].op \in Running
    BY <1>7 DEF ReadStatic, CryptoInv, CryptoTypeOK
  <2>2. /\ c.op = call[t].op /\ c.given = call[t].given /\ c.quiet = call[t].quiet
        /\ c.meant = call[t].meant /\ c.got = call[t].got \union {f}
        /\ c.pair = [call[t].pair EXCEPT ![f] = static[f]]
    BY <1>1 DEF CallType
  <2>3. c \in CallType
    BY <1>1, <1>2 DEF CallType, Pairs
  <2>4. Complete(c)
    BY <2>1, <2>2 DEF Complete, Running
  <2>5. Faithful(c)
    <3>1. c.quiet => /\ alone /\ Making = {} /\ c.meant = latest
                     /\ \A g \in c.got : c.pair[g] = latest
      <4> SUFFICES ASSUME c.quiet
                   PROVE  /\ alone /\ Making = {} /\ c.meant = latest
                          /\ \A g \in c.got : c.pair[g] = latest
        OBVIOUS
      <4>1. /\ alone /\ Making = {} /\ call[t].meant = latest
            /\ \A g \in call[t].got : call[t].pair[g] = latest
        BY <1>1, <2>1, <2>2 DEF Faithful
      <4>2. static[f] = latest
        BY <4>1 DEF CryptoInv, SyncInv
      <4>3. call[t].pair \in [Fields -> Instances \union {None}] /\ call[t].got \subseteq Fields
        BY <1>1 DEF CallType, Pairs
      <4> QED
        BY <2>2, <4>1, <4>2, <4>3
    <3>2. Faithful(call[t])
      BY <1>1
    <3> QED
      BY <2>1, <2>2, <3>1, <3>2 DEF Faithful, Running
  <2> QED
    BY <2>1, <2>3, <2>4, <2>5, Replaced
<1>8. ASSUME NEW op \in Ended, call[t].op \in Running, call[t].got = Fields,
             op = "text" => call[t].op = "encrypt",
             op \in {"read", "unreadable"} =>
               op = Outcome(call[t].pair, call[t].given),
             call' = [call EXCEPT ![t].op = op], UNCHANGED <<static, wrote, latest, alone>>
      PROVE  CryptoInv'
  <2> DEFINE c == [call[t] EXCEPT !.op = op]
  <2>1. call' = [call EXCEPT ![t] = c]
    BY <1>8 DEF CryptoInv, CryptoTypeOK
  <2>2. /\ c.op = op /\ c.given = call[t].given /\ c.quiet = call[t].quiet
        /\ c.meant = call[t].meant /\ c.got = Fields /\ c.pair = call[t].pair
    BY <1>1, <1>8 DEF CallType
  <2>3. c \in CallType /\ Complete(c)
    BY <1>1, <1>8, <2>2 DEF CallType, Complete
  <2>4. c.quiet => c.pair = PairOf(c.meant)
    <3> SUFFICES ASSUME c.quiet PROVE c.pair = PairOf(c.meant)
      OBVIOUS
    <3>1. c.meant = latest /\ \A f \in Fields : c.pair[f] = latest
      BY <1>1, <1>8, <2>2 DEF Faithful
    <3>2. c.pair \in [Fields -> Instances \union {None}]
      BY <2>3 DEF CallType, Pairs
    <3> QED
      BY <3>1, <3>2 DEF PairOf
  <2>5. c.given.quiet => c.given.pair = PairOf(c.given.meant)
    BY <1>1, <2>2 DEF Faithful
  <2>6. c.op \in {"read", "unreadable"} => (c.op = "read" <=> c.pair = c.given.pair)
    BY <1>8, <2>2 DEF Outcome
  <2>7. Faithful(c)
    BY <1>8, <2>2, <2>4, <2>5, <2>6, SamePair DEF Faithful, Running, Ended
  <2> QED
    BY <1>8, <2>1, <2>3, <2>7, Replaced
<1>9. CASE EncryptInternal(t)
  <2>1. \E op \in {"text", "threw"} : call' = [call EXCEPT ![t].op = op]
    BY <1>9 DEF EncryptInternal
  <2> QED
    BY <1>8, <1>9, <2>1 DEF EncryptInternal, Running, Ended
<1>10. CASE DecryptInternal(t)
  <2> DEFINE outcome == Outcome(call[t].pair, call[t].given)
  <2>1. \E op \in {outcome, "threw"} : call' = [call EXCEPT ![t].op = op]
    BY <1>10 DEF DecryptInternal
  <2>2. outcome \in {"read", "unreadable"}
    BY DEF Outcome
  <2> QED
    BY <1>8, <1>10, <2>1, <2>2 DEF DecryptInternal, Running, Ended
<1>11. ASSUME NEW i \in Instances, EncryptWith(t, i)
       PROVE  CryptoInv'
  <2> DEFINE c == Call("text", Fields, PairOf(i), i, TRUE, Blank)
  <2>1. c \in CallType /\ Complete(c) /\ Faithful(c)
    BY PairOfTyped, BlankTyped DEF CallType, Complete, Faithful, Call, Running, Ended
  <2> QED
    BY <1>11, <2>1, Replaced DEF EncryptWith
<1>12. ASSUME NEW i \in Instances, DecryptWith(t, i)
       PROVE  CryptoInv'
  <2>1. PICK u \in Callers :
          /\ call[u].op = "text"
          /\ call' = [call EXCEPT ![t] = Call(Outcome(PairOf(i), call[u]), Fields, PairOf(i), i,
                                              TRUE, TextOf(call[u]))]
    BY <1>12 DEF DecryptWith
  <2> DEFINE given == TextOf(call[u])
             outcome == Outcome(PairOf(i), call[u])
             c == Call(outcome, Fields, PairOf(i), i, TRUE, given)
  <2>2. given \in Texts /\ (given.quiet => given.pair = PairOf(given.meant))
    BY <1>4, <2>1
  <2>3. outcome \in {"read", "unreadable"} /\ (outcome = "read" <=> PairOf(i) = given.pair)
    BY DEF Outcome, TextOf
  <2>4. c \in CallType /\ Complete(c)
    BY <2>2, <2>3, PairOfTyped DEF CallType, Complete, Call, Running, Ended
  <2>5. Faithful(c)
    BY <2>2, <2>3, SamePair DEF Faithful, Call, Running
  <2> QED
    BY <1>12, <2>1, <2>4, <2>5, Replaced DEF DecryptWith
<1> QED
  BY <1>5, <1>6, <1>7, <1>9, <1>10, <1>11, <1>12

LEMMA CryptoNextInv == CryptoInv /\ [CryptoNext]_cryptoVars => CryptoInv'
<1> SUFFICES ASSUME CryptoInv, [CryptoNext]_cryptoVars PROVE CryptoInv'
  OBVIOUS
<1>1. CASE UNCHANGED cryptoVars
  BY <1>1 DEF cryptoVars, CryptoInv, CryptoTypeOK, SyncInv, CallInv, Faithful, Making, Made
<1>2. ASSUME NEW i \in Instances, NEW f \in Fields, WriteStatic(i, f) PROVE CryptoInv'
  BY <1>2, WriteKeepsInv
<1>3. ASSUME NEW t \in Callers,
             \/ Encrypt(t) \/ Decrypt(t)
             \/ \E f \in Fields : ReadStatic(t, f)
             \/ EncryptInternal(t) \/ DecryptInternal(t)
             \/ \E i \in Instances : EncryptWith(t, i) \/ DecryptWith(t, i)
      PROVE  CryptoInv'
  BY <1>3, CallKeepsInv
<1> QED
  BY <1>1, <1>2, <1>3, Zenon DEF CryptoNext

-----------------------------------------------------------------------------
(* Type correctness; texts and outcomes come of both fields.               *)
THEOREM CryptoTypeCorrect == CryptoSpec => []CryptoTypeOK
<1>1. CryptoInv => CryptoTypeOK
  BY DEF CryptoInv
<1> QED
  BY <1>1, CryptoInitInv, CryptoNextInv, PTL DEF CryptoSpec

(* After a constructor that ran alone the static fields are its own.       *)
THEOREM StaticFollows == CryptoSpec => []StaticInSync
<1>1. CryptoInv => StaticInSync
  BY DEF CryptoInv, SyncInv, StaticInSync
<1> QED
  BY <1>1, CryptoInitInv, CryptoNextInv, PTL DEF CryptoSpec

(* Undisturbed, a text is read back exactly by the instance it was made    *)
(* with.                                                                   *)
THEOREM TextsAreReadBack == CryptoSpec => []RoundTrip
<1>1. CryptoInv => RoundTrip
  BY DEF CryptoInv, CallInv, Faithful, RoundTrip
<1> QED
  BY <1>1, CryptoInitInv, CryptoNextInv, PTL DEF CryptoSpec
=============================================================================
