--------------------------- MODULE MCArtifactStore ---------------------------
(* ArtifactStore on small instances: three ingestions of the same bytes by   *)
(* two PDF parser versions and as HTML, or one ingestion of each digest.     *)
EXTENDS ArtifactStore, TLC

CONSTANTS h1, h2, a1, a2, a3, p1, p2, p3, t1, t2, t3

\* Three artifacts of one digest; the PDF parses agree on the first page.
ReparseSha == a1 :> h1 @@ a2 :> h1 @@ a3 :> h1
ReparseKind == a1 :> "PDF" @@ a2 :> "PDF" @@ a3 :> "HTML"
ReparseText == a1 :> <<t1, t2>> @@ a2 :> <<t1, t3>> @@ a3 :> <<t3>>

\* One artifact of each digest, so that every save of a digest rewrites the
\* same files.
RewriteSha == a1 :> h1 @@ a3 :> h2
RewriteKind == a1 :> "PDF" @@ a3 :> "HTML"
RewriteText == a1 :> <<t1, t2>> @@ a3 :> <<t3>>

Symmetry == Permutations(Procs)
==============================================================================
