--------------------------- MODULE MCEmailPipeline ---------------------------
(***************************************************************************)
(* Instances of EmailPipeline for TLC: the mails and what each of them is. *)
(***************************************************************************)
EXTENDS EmailPipeline, TLC

CONSTANTS m1, m2    \* model values

OneMail == {m1}
TwoMails == {m1, m2}

\* One request that makes a proper mail.
Good == m1 :> "good"

\* A proper request and a blank one.
GoodAndBlank == m1 :> "good" @@ m2 :> "blank"

\* A proper request and another producer's message without recipient.
GoodAndSilent == m1 :> "good" @@ m2 :> "noRecipient"
=============================================================================
