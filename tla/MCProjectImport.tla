-------------------------- MODULE MCProjectImport --------------------------
(* A small instance of ProjectImport for TLC. *)
EXTENDS ProjectImport

Cni(host) == [host |-> host, port |-> 10001]
Serial == [host |-> None, port |-> None]

\* Two lighting applications, and one that is no lighting application.  The PIR has
\* block 0 on group 1 and the others on group 2; the first of these, perhaps, in the
\* second application, where the group is another one.
Network(v) ==
  [interface |-> v.interface,
   applications |-> {56, 60, 202}, first |-> 60,
   groups |-> (<<56, 1>> :> v.name1) @@ (<<56, 2>> :> v.name2)
              @@ (<<60, 2>> :> {"motion"}) @@ (<<60, 3>> :> {}) @@ (<<202, 1>> :> {}),
   units |-> (5 :> [type |-> v.relay, applications |-> <<56, 255>>, groups |-> <<1, 255>>])
             @@ (20 :> [type |-> "pir",
                        applications |-> IF v.second = {} THEN <<56>> ELSE <<56, 60>>,
                        groups |-> <<1, 2, 2>>, light |-> v.light, dark |-> {0, 1},
                        second |-> v.second])]

Usual == [interface |-> Cni("a"), name1 |-> {}, name2 |-> {"light"}, relay |-> "relay",
          light |-> {0, 1, 2}, second |-> {}]

\* What may be different: each alone, and each with each other.
Variants ==
  LET Changed(v) ==
        {[v EXCEPT !.interface = Serial], [v EXCEPT !.name1 = {"motion", "light"}],
         [v EXCEPT !.name1 = {"motion"}], [v EXCEPT !.name1 = {"internal"}], [v EXCEPT !.name2 = {"motion"}],
         [v EXCEPT !.relay = "other"], [v EXCEPT !.light = {2}], [v EXCEPT !.second = {1}]}
  IN  {Usual} \cup Changed(Usual) \cup UNION {Changed(v) : v \in Changed(Usual)}

\* A second network, a different host, a network without units, and a project with
\* nothing in it.
MCDocuments ==
  {(1 :> Network(v)) : v \in Variants}
  \cup {(1 :> Network(Usual)) @@ (2 :> Network([Usual EXCEPT !.interface = Cni("b")])),
        (1 :> [Network(Usual) EXCEPT !.units = <<>>]), <<>>}

Symmetry == Permutations(Flows)
=============================================================================
