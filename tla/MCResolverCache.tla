--------------------------- MODULE MCResolverCache ---------------------------
(* Two relay actors, a target that may not be fetched and one that is not  *)
(* canonical; documents that are right and documents with one thing wrong. *)
EXTENDS ResolverCache

MCActorOf == [k \in Keys |-> IF k = "k1" THEN "actor1" ELSE "actor2"]

MCAnswers ==
    {<<"public1", "public2">>, <<"public1", "private">>, <<>>,
     <<"public1", "public1", "public1">>}

Key(k) == [id |-> k, owner |-> MCActorOf[k], rsa |-> TRUE]

Proper(k) == [wellFormed |-> TRUE, id |-> MCActorOf[k], relayType |-> TRUE,
              inbox |-> "actor2", keys |-> <<Key(k)>>]

MCDocuments ==
    {Proper(k) : k \in Keys}
    \cup {[Proper("k1") EXCEPT !.keys = <<Key("k1"), Key("k1")>>],
          [Proper("k1") EXCEPT !.keys[1].rsa = FALSE],
          [Proper("k1") EXCEPT !.inbox = "literal"],
          [Proper("k1") EXCEPT !.inbox = "mangled"],
          [Proper("k1") EXCEPT !.wellFormed = FALSE]}
=============================================================================
