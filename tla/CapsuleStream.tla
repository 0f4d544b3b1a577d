---------------------------- MODULE CapsuleStream ----------------------------
(***************************************************************************)
(* What the CONNECT stream promises to Session::run_closed: the capsules   *)
(* the peer wrote, one at a time and in order, however the peer cut them   *)
(* into HTTP/3 frames.  SessionClose builds on this: its stream of items   *)
(* is this stream, with each capsule classified.                           *)
(***************************************************************************)
EXTENDS Sequences, Integers

CONSTANT Verdict  \* Verdict[c]: what Capsule::decode says of the capsule c

VARIABLES capsules,  \* the capsules the peer means to write
          sent,      \* how many of them are complete on the stream
          peer,      \* "writing", "fin", or "broken": a frame nobody accepts
          got,       \* what run_closed has been given
          result     \* "reading", "close", "end" or "error"

streamVars == <<capsules, sent, peer, got, result>>

Init ==
    /\ sent = 0
    /\ peer = "writing"
    /\ got = <<>>
    /\ result = "reading"

\* The peer completes the next capsules, or stops.
Write ==
    /\ peer = "writing"
    /\ sent' \in sent..Len(capsules)
    /\ UNCHANGED <<capsules, peer, got, result>>

Stop(how) ==
    /\ peer = "writing"
    /\ peer' = how
    /\ UNCHANGED <<capsules, sent, got, result>>

Next_ == Len(got) + 1
Reading == result = "reading" /\ Len(got) < sent

Deliver ==
    /\ Reading
    /\ Verdict[capsules[Next_]].kind = "ok"
    /\ LET capsule == Verdict[capsules[Next_]].capsule IN
       /\ got' = Append(got, capsule)
       /\ result' = IF capsule.kind = "close" THEN "close" ELSE "reading"
    /\ UNCHANGED <<capsules, sent, peer>>

\* A malformed capsule.  One too short for its code counts as the end.  One
\* whose length is too large is refused before it is complete.
Reject ==
    /\ result = "reading"
    /\ Next_ <= Len(capsules)
    /\ LET verdict == Verdict[capsules[Next_]].kind IN
       /\ verdict # "ok"
       /\ Len(got) < sent \/ verdict = "MessageTooLong"
       /\ result' = IF verdict = "UnexpectedEnd" THEN "end" ELSE "error"
    /\ UNCHANGED <<capsules, sent, peer, got>>

\* The stream is over, and every complete capsule has been delivered.
End ==
    /\ result = "reading"
    /\ peer # "writing"
    /\ Len(got) = sent
    /\ result' = IF peer = "fin" THEN "end" ELSE "error"
    /\ UNCHANGED <<capsules, sent, peer, got>>

Next == Write \/ Stop("fin") \/ Stop("broken") \/ Deliver \/ Reject \/ End

Spec == Init /\ [][Next]_streamVars
=============================================================================
