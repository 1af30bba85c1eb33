------------------------------ MODULE MCPosts ------------------------------
(***************************************************************************)
(* What becomes of content.  Two devices d1 and d2 of one identity mint    *)
(* the wrap grants of a message, fold the responses to a post and lay out  *)
(* the wall; two friends n1 and n2 exchange the bytes of their posts.  The *)
(* four share no state, so each behaviour is a scenario of one of them and *)
(* leaves the others as they are.                                          *)
(***************************************************************************)
EXTENDS WrapGrants, Responses, Wall, Blobs, TLC

CONSTANTS d1, d2, f1, r1, me, p1, p2, n1, n2, c1, c2

VARIABLE scenario

postVars == <<scenario, grantVars, responseVars, wallVars, blobVars>>

\* A photo or a text of two by two cells.
MCSizes == {[w |-> 2, h |-> 2]}

\* Two posts that share a thumbnail; no session has room for all of their bytes.
MCRefs == (c1 :> {1, 2}) @@ (c2 :> {1, 3})
MCSize == <<1, 2, 3>>

Devices == Permutations({d1, d2})

\* The same for both devices: the symmetry of the instance rests on it.
NoGrants ==
  /\ message = [origin |-> "own", inline |-> Own]
  /\ epoch = [x \in Device |-> 1] /\ replica = [x \in Device |-> Blank]
  /\ mints = 0 /\ changes = 0

PostsInit ==
  /\ scenario \in {"grants", "responses", "wall", "blobs"}
  /\ IF scenario = "grants" THEN GrantInit ELSE NoGrants
  /\ ResponseInit /\ WallInit /\ BlobInit
  /\ scenario # "responses" => keys = [r \in Responder |-> Author]

GrantStep ==
  /\ scenario = "grants" /\ GrantNext
  /\ UNCHANGED <<scenario, responseVars, wallVars, blobVars>>

ResponseStep ==
  /\ scenario = "responses" /\ ResponseNext
  /\ UNCHANGED <<scenario, grantVars, wallVars, blobVars>>

WallStep ==
  /\ scenario = "wall" /\ WallNext
  /\ UNCHANGED <<scenario, grantVars, responseVars, blobVars>>

BlobStep ==
  /\ scenario = "blobs" /\ BlobNext
  /\ UNCHANGED <<scenario, grantVars, responseVars, wallVars>>

PostsNext == GrantStep \/ ResponseStep \/ WallStep \/ BlobStep

PostsSpec == PostsInit /\ [][PostsNext]_postVars

\* Every value of the four components is of its type.
PostsTypeOK == GrantTypeOK /\ ResponseTypeOK /\ WallTypeOK /\ BlobTypeOK
=============================================================================
