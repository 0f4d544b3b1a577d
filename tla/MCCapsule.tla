------------------------------ MODULE MCCapsule ------------------------------
(***************************************************************************)
(* CapsuleReader with capsules of every verdict: good, unknown with the    *)
(* widest header and payload, too short, too long and not UTF-8.           *)
(***************************************************************************)
EXTENDS CapsuleReader

MCKinds ==
    {RawCapsule(CLOSE_TYPE, 2, 1, <<7, 1>>),
     RawCapsule(3, 8, 8, [i \in 1..MAX_PAYLOAD |-> CLOSE_TYPE]),
     RawCapsule(33, 2, 1, <<>>),
     RawCapsule(CLOSE_TYPE, 4, 1, <<>>),
     RawCapsule(3, 1, 2, [i \in 1..2 * MAX_SIZE + MAX_PAYLOAD + MAX_FRAME |-> 0]),
     RawCapsule(CLOSE_TYPE, 2, 1, <<0, 2, 1>>)}

\* A sequence of capsules as bytes and their ends.
Concatenated(capsules) ==
    [bytes |-> FlattenSeq(capsules),
     ends |-> [k \in 1..Len(capsules) |-> Len(FlattenSeq(SubSeq(capsules, 1, k)))]]

MCWritten == {Concatenated(s) : s \in UNION {[1..n -> MCKinds] : n \in 1..3}}
=============================================================================
