---------------------------- MODULE Cryptography ----------------------------
(***************************************************************************)
(* Cryptography.cs: instances that keep their key and salt, and a static   *)
(* API that uses those of the latest instance.  The constructor writes the *)
(* two static fields one after the other and a static call reads them one  *)
(* after the other, on any thread and without a lock; as the fields are    *)
(* not volatile, in either order.  Of a text only what it was encrypted    *)
(* with matters: it can be read with the same key and salt only.           *)
(***************************************************************************)
CONSTANTS
  Instances,  \* the instances that may be made; each has a key and a salt
  Callers,    \* threads that encrypt and decrypt
  None        \* the empty key and salt before there is an instance

ASSUME CryptoAssumption == None \notin Instances

Fields == {"key", "salt"}
Pairs == [Fields -> Instances \union {None}]

VARIABLES
  static,  \* ENCRYPTION_KEY and SALT
  wrote,   \* which of them each instance's constructor has written
  latest,  \* the instance whose constructor began last
  alone,   \* whether no other constructor was running then
  call     \* each caller's last call, running or ended

cryptoVars == <<static, wrote, latest, alone, call>>

(* What a text was encrypted with; the instance that was meant; whether no *)
(* constructor ran meanwhile that could have disturbed it.                 *)
Texts == [pair : Pairs, meant : Instances \union {None}, quiet : BOOLEAN]
Blank == [pair |-> [f \in Fields |-> None], meant |-> None, quiet |-> FALSE]

(* op tells what the call is doing or what came of it; pair is what it has *)
(* got of the fields; given is the text that it is to read.                *)
Running == {"encrypt", "decrypt"}
Ended == {"none", "text", "read", "unreadable", "threw"}

Call(op, got, pair, meant, quiet, given) ==
  [op |-> op, got |-> got, pair |-> pair, meant |-> meant, quiet |-> quiet, given |-> given]

TextOf(c) == [pair |-> c.pair, meant |-> c.meant, quiet |-> c.quiet]

CryptoInit ==
  /\ static = Blank.pair
  /\ wrote = [i \in Instances |-> {}]
  /\ latest = None /\ alone = TRUE
  /\ call = [t \in Callers |-> Call("none", {}, Blank.pair, None, FALSE, Blank)]

-----------------------------------------------------------------------------
Made(i) == wrote[i] = Fields
Making == {i \in Instances : wrote[i] # {} /\ ~Made(i)}

(* A plausible bug: the first salt is kept.                                *)
Fault_SaltOnce(i, f) ==
  static' = IF f = "salt" /\ static[f] # None THEN static ELSE [static EXCEPT ![f] = i]

Stored(i, f) == static' = [static EXCEPT ![f] = i]

(* A constructor, behind the checks of its arguments, writes one of the    *)
(* static fields.  The static calls that are running now may see both the  *)
(* old and the new values.                                                 *)
WriteStatic(i, f) ==
  /\ f \notin wrote[i]
  /\ Stored(i, f)
  /\ wrote' = [wrote EXCEPT ![i] = @ \union {f}]
  /\ IF wrote[i] = {} THEN latest' = i /\ alone' = (Making = {})
                      ELSE UNCHANGED <<latest, alone>>
  /\ call' = [t \in Callers |->
                IF call[t].op \in Running THEN [call[t] EXCEPT !.quiet = FALSE] ELSE call[t]]

(* The static Encrypt and Decrypt; the latter of any caller's text.        *)
Begin(t, op, given) ==
  /\ call[t].op \in Ended
  /\ call' = [call EXCEPT ![t] =
                Call(op, {}, Blank.pair, latest, alone /\ Making = {}, given)]
  /\ UNCHANGED <<static, wrote, latest, alone>>

Encrypt(t) == Begin(t, "encrypt", Blank)

Decrypt(t) == \E u \in Callers : call[u].op = "text" /\ Begin(t, "decrypt", TextOf(call[u]))

ReadStatic(t, f) ==
  /\ call[t].op \in Running /\ f \notin call[t].got
  /\ call' = [call EXCEPT ![t].got = @ \union {f}, ![t].pair[f] = static[f]]
  /\ UNCHANGED <<static, wrote, latest, alone>>

(* A plausible bug: EncryptInternal does not wait for the salt.            *)
Fault_EncryptsEarly(t) ==
  /\ call[t].op = "encrypt" /\ "key" \in call[t].got
  /\ \/ call' = [call EXCEPT ![t].op = "text"]
     \/ call[t].pair["salt"] = None /\ call' = [call EXCEPT ![t].op = "threw"]
  /\ UNCHANGED <<static, wrote, latest, alone>>

(* EncryptInternal with what was read, and DecryptInternal.  The library   *)
(* may refuse an empty salt.                                               *)
EncryptInternal(t) ==
  /\ call[t].op = "encrypt" /\ call[t].got = Fields
  /\ \/ call' = [call EXCEPT ![t].op = "text"]
     \/ call[t].pair["salt"] = None /\ call' = [call EXCEPT ![t].op = "threw"]
  /\ UNCHANGED <<static, wrote, latest, alone>>

Outcome(pair, given) == IF pair = given.pair THEN "read" ELSE "unreadable"

DecryptInternal(t) ==
  /\ call[t].op = "decrypt" /\ call[t].got = Fields
  /\ \/ call' = [call EXCEPT ![t].op = Outcome(call[t].pair, call[t].given)]
     \/ call[t].pair["salt"] = None /\ call' = [call EXCEPT ![t].op = "threw"]
  /\ UNCHANGED <<static, wrote, latest, alone>>

(* CryptographyExtension: the same with the pair of an instance, which     *)
(* does not change.                                                        *)
PairOf(i) == [f \in Fields |-> i]

EncryptWith(t, i) ==
  /\ Made(i) /\ call[t].op \in Ended
  /\ call' = [call EXCEPT ![t] = Call("text", Fields, PairOf(i), i, TRUE, Blank)]
  /\ UNCHANGED <<static, wrote, latest, alone>>

DecryptWith(t, i) ==
  /\ Made(i) /\ call[t].op \in Ended
  /\ \E u \in Callers :
       /\ call[u].op = "text"
       /\ call' = [call EXCEPT ![t] = Call(Outcome(PairOf(i), call[u]), Fields, PairOf(i), i,
                                           TRUE, TextOf(call[u]))]
  /\ UNCHANGED <<static, wrote, latest, alone>>

CryptoNext ==
  \/ \E i \in Instances, f \in Fields : WriteStatic(i, f)
  \/ \E t \in Callers :
       \/ Encrypt(t) \/ Decrypt(t)
       \/ \E f \in Fields : ReadStatic(t, f)
       \/ EncryptInternal(t) \/ DecryptInternal(t)
       \/ \E i \in Instances : EncryptWith(t, i) \/ DecryptWith(t, i)

CryptoSpec == CryptoInit /\ [][CryptoNext]_cryptoVars

-----------------------------------------------------------------------------
(***************************************************************************)
(* Properties.                                                             *)
(***************************************************************************)

(* Type invariant.  Only what was read of both fields makes a text or an   *)
(* outcome.                                                                *)
CryptoTypeOK ==
  /\ static \in Pairs
  /\ wrote \in [Instances -> SUBSET Fields]
  /\ latest \in Instances \union {None}
  /\ alone \in BOOLEAN
  /\ call \in [Callers -> [op : Running \union Ended, got : SUBSET Fields, pair : Pairs,
                           meant : Instances \union {None}, quiet : BOOLEAN, given : Texts]]
  /\ \A t \in Callers : call[t].op \in {"text", "read", "unreadable"} => call[t].got = Fields

(* The constructor keeps the static API in sync: when a constructor has    *)
(* run alone, the static fields are its key and its salt, both, until the  *)
(* next one begins.  After constructors that ran at the same time they may *)
(* be halves of two instances, but only until one runs alone again.        *)
StaticInSync == alone /\ Making = {} => static = [f \in Fields |-> latest]

(* A text is read back exactly by the instance it was made with: through   *)
(* either API, provided no constructor ran during a static call, and in    *)
(* the static API's case as long as no other instance has been made.       *)
RoundTrip ==
  \A t \in Callers :
    /\ call[t].op \in {"read", "unreadable"}
    /\ call[t].quiet /\ call[t].given.quiet
    => (call[t].op = "read" <=> call[t].meant = call[t].given.meant)
=============================================================================
