-------------------------- MODULE ConfirmedDelivery --------------------------
(***************************************************************************)
(* What narumi promises about each audio chunk it sends to a metered API   *)
(* (docs/superpowers/specs/2026-08-29-openai-transcription-design.md,      *)
(* "Explicit retry of an unknown outcome"): an upload spends a grant; while *)
(* the outcome of an earlier grant is in doubt a further grant needs the    *)
(* user's confirmation, which moves the epoch forward; a delivered result   *)
(* is final.                                                               *)
(***************************************************************************)
EXTENDS Integers

CONSTANTS Chunk, Epoch

VARIABLES
  mark,     \* "open": may be sent; "doubt": may have been accepted; "done"
  epoch,    \* the epoch of the latest grant
  resent,   \* the latest grant was confirmed over an earlier doubt
  credit,   \* a grant that has not been spent yet
  sent      \* the uploads made, per chunk

dvars == <<mark, epoch, resent, credit, sent>>

Init ==
  /\ mark = [c \in Chunk |-> "open"]
  /\ epoch = [c \in Chunk |-> 0]
  /\ resent = [c \in Chunk |-> FALSE]
  /\ credit = [c \in Chunk |-> FALSE]
  /\ sent = [c \in Chunk |-> {}]

(* The first grant, or one after a known failure. *)
Grant(c, e) ==
  /\ mark[c] = "open" /\ ~credit[c]
  /\ mark' = [mark EXCEPT ![c] = "doubt"]
  /\ epoch' = [epoch EXCEPT ![c] = e]
  /\ resent' = [resent EXCEPT ![c] = FALSE]
  /\ credit' = [credit EXCEPT ![c] = TRUE]
  /\ UNCHANGED sent

(* The user's confirmation of the epoch in doubt. *)
Confirm(c, e) ==
  /\ mark[c] = "doubt" /\ ~credit[c] /\ e > epoch[c]
  /\ epoch' = [epoch EXCEPT ![c] = e]
  /\ resent' = [resent EXCEPT ![c] = TRUE]
  /\ credit' = [credit EXCEPT ![c] = TRUE]
  /\ UNCHANGED <<mark, sent>>

(* Exactly one new upload. *)
Send(c) ==
  /\ credit[c]
  /\ credit' = [credit EXCEPT ![c] = FALSE]
  /\ \E n \in sent'[c] \ sent[c] : sent' = [sent EXCEPT ![c] = @ \cup {n}]
  /\ UNCHANGED <<mark, epoch, resent>>

(* The grant is lost unspent: a failure or a crash before the upload. *)
Lapse(c) ==
  /\ credit[c]
  /\ credit' = [credit EXCEPT ![c] = FALSE]
  /\ UNCHANGED <<mark, epoch, resent, sent>>

(* Certainly not delivered; only a first attempt can be certain. *)
Reopen(c) ==
  /\ mark[c] = "doubt" /\ ~credit[c] /\ ~resent[c]
  /\ mark' = [mark EXCEPT ![c] = "open"]
  /\ UNCHANGED <<epoch, resent, credit, sent>>

Deliver(c) ==
  /\ mark[c] = "doubt" /\ ~credit[c] /\ sent[c] # {}
  /\ mark' = [mark EXCEPT ![c] = "done"]
  /\ UNCHANGED <<epoch, resent, credit, sent>>

Next == \E c \in Chunk :
  \/ \E e \in Epoch : Grant(c, e) \/ Confirm(c, e)
  \/ Send(c) \/ Lapse(c) \/ Reopen(c) \/ Deliver(c)

Spec == Init /\ [][Next]_dvars
=============================================================================
