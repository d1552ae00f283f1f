------------------------------ MODULE S3Ranges ------------------------------
(***************************************************************************)
(* The Range header, as the three fronts of the system read it: the Python *)
(* router (s3/router.py), a passthrough mount (storage/passthrough.py) and *)
(* the native Agent (agent-cpp/agent.cpp).  StorageProofs shows for        *)
(* objects of any size that each answers with the bytes asked for.         *)
(*                                                                         *)
(* A header is absent, in another unit, without a dash, a-b, a-, -a, or a- *)
(* followed by something that is not a number.                             *)
(***************************************************************************)
EXTENDS Integers

Headers(Numbers) ==
    [form : {"none", "unit", "nodash", "span", "open", "suffix", "badend"},
     a : Numbers, b : Numbers]

Whole(total)         == [status |-> 200, from |-> 0, to |-> total - 1]
Partial(from, to)    == [status |-> 206, from |-> from, to |-> to]
NotSatisfiable       == [status |-> 416, from |-> 0, to |-> -1]

Smaller(a, b) == IF a < b THEN a ELSE b

\* The bounds that a readable header gives.
FirstByte(h, total) == IF h.form = "suffix" THEN total - Smaller(h.a, total) ELSE h.a
LastByte(h, total)   == IF h.form = "span" THEN Smaller(h.b, total - 1) ELSE total - 1

Readable(h) == h.form \in {"span", "open"} \/ (h.form = "suffix" /\ h.a > 0)

\* _range_is_unsatisfiable, then _apply_range
RouterRange(h, total) ==
    IF h.form \in {"span", "open", "badend"} /\ h.a >= total THEN NotSatisfiable
    ELSE IF Readable(h) /\ FirstByte(h, total) <= LastByte(h, total)
         THEN Partial(FirstByte(h, total), LastByte(h, total))
         ELSE Whole(total)

\* passthrough._parse_range
MountRange(h, total) ==
    IF ~Readable(h) THEN Whole(total)
    ELSE IF FirstByte(h, total) >= total THEN NotSatisfiable
    ELSE IF FirstByte(h, total) > LastByte(h, total) THEN Whole(total)
    ELSE Partial(FirstByte(h, total), LastByte(h, total))

\* parse_range_header: malformed and empty ranges are errors; a suffix is always
\* a partial answer.
NativeRange(h, total) ==
    IF h.form = "none" THEN Whole(total)
    ELSE IF ~Readable(h) THEN NotSatisfiable
    ELSE IF h.form # "suffix" /\ (h.a >= total \/ LastByte(h, total) < h.a) THEN NotSatisfiable
    ELSE Partial(FirstByte(h, total), LastByte(h, total))
-----------------------------------------------------------------------------
(* What a header asks for *)

\* The positions of an object of this size that the header names (RFC 9110).
AskedFor(h, total) ==
    {i \in 0 .. total - 1 : CASE h.form = "span"   -> h.a <= i /\ i <= h.b
                             [] h.form = "open"   -> h.a <= i
                             [] h.form = "suffix" -> total - h.a <= i
                             [] OTHER             -> FALSE}

\* A header that names bytes is answered with exactly those, one that names none
\* with no partial answer, and one that starts past the end with 416.
RangeAnswers(answer, h, total) ==
    LET asked == AskedFor(h, total)
    IN  /\ asked # {} => answer.status = 206 /\ answer.from .. answer.to = asked
        /\ asked = {} => answer.status # 206
        /\ h.form \in {"span", "open"} /\ h.a >= total => answer.status = 416

\* The three readings of one header, with the native Agent's of a file that is
\* not empty: of an empty one it answers a suffix with 206 and no bytes.
RangesAreExact(h, total) ==
    /\ RangeAnswers(RouterRange(h, total), h, total)
    /\ RangeAnswers(MountRange(h, total), h, total)
    /\ total > 0 => RangeAnswers(NativeRange(h, total), h, total)
=============================================================================
