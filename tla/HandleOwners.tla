---------------------------- MODULE HandleOwners ----------------------------
(***************************************************************************)
(* What a family of stream owners promises, without control blocks or       *)
(* deleters: every owner denotes at most one device stream, and a stream    *)
(* exists exactly as long as an owner denotes it or the client, who created *)
(* it, has not handed it over yet.  Stream.tla implements this module.      *)
(***************************************************************************)
CONSTANTS Objects,  \* the owners
          Handles,  \* the device streams
          Null      \* what an owner of nothing denotes

VARIABLES holds,    \* holds[o] is the stream owner o denotes, or Null
          client,   \* the streams the client created and still owns itself
          live      \* the streams that exist

vars == <<holds, client, live>>

Init == /\ holds = [o \in Objects |-> Null]
        /\ client = {}
        /\ live = {}

Denoted(f) == {f[o] : o \in Objects} \ {Null}

\* The client creates a stream of its own.
Create(h) == /\ h \notin live
             /\ client' = client \cup {h}
             /\ live' = live \cup {h}
             /\ UNCHANGED holds

\* Owner o comes to denote h: nothing, a new stream, one the client hands
\* over, or one that another owner denotes already.
Bind(o, h) == /\ h = Null \/ h \notin live \/ h \in client \cup Denoted(holds)
              /\ holds' = [holds EXCEPT ![o] = h]
              /\ client' = client \ {h}
              /\ live' = Denoted(holds') \cup client'

\* Owner p hands what it denotes over to owner o.
Transfer(o, p) == /\ o # p
                  /\ holds' = [holds EXCEPT ![o] = holds[p], ![p] = Null]
                  /\ client' = client
                  /\ live' = Denoted(holds') \cup client

Next == \/ \E h \in Handles : Create(h)
        \/ \E o \in Objects, h \in Handles \cup {Null} : Bind(o, h)
        \/ \E o, p \in Objects : Transfer(o, p)

Spec == Init /\ [][Next]_vars
=============================================================================
