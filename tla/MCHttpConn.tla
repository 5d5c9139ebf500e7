----------------------------- MODULE MCHttpConn -----------------------------
(***************************************************************************)
(* Conversations for HttpConn: one request, or one that keeps the          *)
(* connection and then another, which wraps round the ring when Size is    *)
(* little more than the length of the first.                               *)
(***************************************************************************)
EXTENDS HttpConn

Get == [body |-> 0, keep |-> FALSE, lone |-> FALSE, known |-> TRUE]
GetKeep == [Get EXCEPT !.keep = TRUE]
Post(n) == [Get EXCEPT !.body = n]
PostKeep(n) == [GetKeep EXCEPT !.body = n]
Lone(request) == [request EXCEPT !.lone = TRUE]
Unknown(request) == [request EXCEPT !.known = FALSE]

\* The passing run.  Two conversations have a body in pieces; one request has
\* a CR in a header, one is longer than the ring, some have an unknown path,
\* and some come behind a request that leaves something behind.
Handled ==
    {<<Get>>, <<GetKeep>>, <<Post(2)>>, <<Post(3)>>, <<Post(15)>>,
     <<PostKeep(1), Get>>, <<PostKeep(2), GetKeep>>, <<PostKeep(1), Lone(Get)>>,
     <<GetKeep, Get>>, <<GetKeep, Post(1)>>, <<PostKeep(2), Post(1)>>, <<PostKeep(1), Post(2)>>,
     <<Unknown(Get)>>, <<PostKeep(1), Unknown(Get)>>, <<Unknown(PostKeep(1)), Get>>}
InPieces == {<<Post(3)>>, <<PostKeep(2), GetKeep>>}

\* Two bodies on one connection.
PostThenPost == {<<PostKeep(1), PostKeep(2)>>}
None == {}
=============================================================================
