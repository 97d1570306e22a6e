-------------------------- MODULE MCTranscriptReader --------------------------
(***************************************************************************)
(* Small instances of TranscriptReader: cells of the sizes and shapes that  *)
(* each run needs.                                                          *)
(***************************************************************************)
EXTENDS TranscriptReader

Line(type, message) == [type |-> type, message |-> message]

\* One good line of each kind, and one of each fault.
AllKinds == {Part, Blank, Malformed,
             Line("assistant", "object"), Line("other", "absent"),
             Line("user", "other"), Line("absent", "object")}

\* Whole lines and fragments, with one fault.
FewKinds == {Part, Line("assistant", "object"), Line("user", "absent")}

\* Lines and fragments that are all good.
GoodKinds == {Part, Line("assistant", "object")}

Kilobytes(n) == 1024 * n
===============================================================================
