------------------------------ MODULE ErrorCode ------------------------------
(***************************************************************************)
(* webtrans-proto/src/error.rs: application error codes (u32) are carried  *)
(* inside the HTTP/3 error space.  One code point in every 31 of the       *)
(* reserved range is skipped, because HTTP/3 keeps it for greasing.        *)
(*                                                                         *)
(* The real constants do not fit TLC's 32-bit integers, so they are        *)
(* parameters; the assumption is what the two source constants satisfy:    *)
(* 0x52e5ac983162 - 0x52e4a40fa8db = 4438132871 = (2^32-1) + (2^32-1) / 30 *)
(* and (0x52e4a40fa8db - 0x21) % 0x1f = 1.                                 *)
(***************************************************************************)
EXTENDS Integers

CONSTANTS ERROR_FIRST,  \* first code point of the reserved HTTP/3 range
          ERROR_LAST,   \* last code point of the reserved HTTP/3 range
          U32_MAX       \* the largest application code

ASSUME ErrorRange ==
    /\ ERROR_FIRST \in Nat
    /\ U32_MAX \in Nat
    /\ ERROR_LAST = ERROR_FIRST + U32_MAX + (U32_MAX \div 30)
    /\ ERROR_FIRST >= 33
    /\ (ERROR_FIRST - 33) % 31 = 1

\* Rust's Option::None, where the option holds a code.
None == -1

AppCode == 0..U32_MAX

\* Map an HTTP/3 code back to an application code, or None out of the range.
error_from_http3(code) ==
    IF code < ERROR_FIRST \/ code > ERROR_LAST
    THEN None
    ELSE LET shifted == code - ERROR_FIRST
         IN  (shifted - (shifted \div 31)) % (U32_MAX + 1)

\* Fault: the encoder forgets to skip code points.
error_to_http3_NoSkip(code) == ERROR_FIRST + code

\* Map an application code into the reserved HTTP/3 range.
error_to_http3(code) == ERROR_FIRST + code + (code \div 30)

\* proto/src/grease.rs: the values HTTP/3 reserves for greasing.
is_grease_value(value) == value >= 33 /\ (value - 33) % 31 = 0
-----------------------------------------------------------------------------
\* A code survives the way through the HTTP/3 error space: what Session::close
\* or a stream reset is given is what the peer's error carries.
RoundTrips(code) == error_from_http3(error_to_http3(code)) = code

\* The code point put on the wire is inside the reserved range, where the peer
\* recognises it, and is not one that HTTP/3 keeps for greasing.
WellPlaced(code) ==
    /\ error_to_http3(code) \in ERROR_FIRST..ERROR_LAST
    /\ ~is_grease_value(error_to_http3(code))
=============================================================================
