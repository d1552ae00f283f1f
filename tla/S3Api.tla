------------------------------- MODULE S3Api -------------------------------
(***************************************************************************)
(* ListObjectsV2, as the three fronts of the system answer it: the Python  *)
(* router (s3/router.py), a passthrough mount (storage/passthrough.py) and *)
(* the native Agent (agent-cpp/agent.cpp).                                 *)
(*                                                                         *)
(* An object key, and a folder's common prefix, is its rank in the order   *)
(* of names.  FolderOf gives an object the rank of its folder, which       *)
(* precedes those of the objects in it; an object at the root is its own.  *)
(***************************************************************************)
EXTENDS Integers, Sequences, FiniteSets, SequencesExt, FiniteSetsExt

CONSTANT FolderOf

Before == -1       \* no prefix, no marker: the rank before every name

Sorted(ranks) ==
    [i \in 1 .. Cardinality(ranks) |->
        CHOOSE k \in ranks : Cardinality({j \in ranks : j < k}) = i - 1]

First(n, seq) == SubSeq(seq, 1, IF n < Len(seq) THEN n ELSE Len(seq))
-----------------------------------------------------------------------------
(* ListObjectsV2: a request has a prefix (a folder, or none) and maybe the *)
(* delimiter                                                               *)

Matched(objects, req) ==
    {k \in objects : req.prefix = Before \/ (FolderOf[k] = req.prefix /\ k # req.prefix)}

\* With the delimiter the objects below a folder show as the folder.
Entry(k, req) == IF req.delim /\ req.prefix = Before THEN FolderOf[k] ELSE k

Entries(objects, req) == {Entry(k, req) : k \in Matched(objects, req)}

Page(names, truncated) ==
    [names |-> names, truncated |-> truncated,
     token |-> IF truncated /\ names # << >> THEN Last(names) ELSE Before]

\* Mutant: the marker itself is listed again.
RouterPageFromMarker(objects, req, marker, max) ==
    LET rest == Sorted({e \in Entries(objects, req) : e >= marker})
    IN  Page(First(max, rest), max > 0 /\ Len(rest) > max)

\* Objects and common prefixes in one order; the page starts after the marker.
RouterPage(objects, req, marker, max) ==
    LET rest == Sorted({e \in Entries(objects, req) : e > marker})
    IN  Page(First(max, rest), max > 0 /\ Len(rest) > max)

\* A mount answers everything at once: one directory level or a recursive listing.
MountPage(objects, req) == Page(Sorted(Entries(objects, req)), FALSE)

IsFolder(rank) == \E k \in DOMAIN FolderOf : FolderOf[k] = rank /\ k # rank

\* continuation_token_valid
TokenValid(objects, req, token) ==
    /\ req.prefix = Before \/ token \in Matched(objects, req)
    /\ token \in objects \/ (req.delim /\ \E k \in objects : FolderOf[k] = token)

\* Where a listing resumes: past the token, or past the folder it names.
AfterToken(req, token, k) ==
    k > token /\ ~(req.delim /\ IsFolder(token) /\ FolderOf[k] = token)

\* The scan stops at the object that fills the page; the rest of that object's
\* folder still counts as more to come.
NativePage(objects, req, token, max) ==
    LET left  == {k \in Matched(objects, req) : AfterToken(req, token, k)}
        names == First(max, Sorted({Entry(k, req) : k \in left}))
        seen  == IF max = 0 THEN {}
                 ELSE IF Len(names) < max THEN left
                 ELSE LET stop == Min({k \in left : Entry(k, req) = Last(names)})
                      IN  {k \in left : k <= stop}
    IN  Page(names, left \ seen # {})
=============================================================================
