----------------------------- MODULE TopicMatch -----------------------------
(***************************************************************************)
(* isTopicMatched of MQTTClient_iBox.c, which decides whose handler gets a *)
(* message, character by character, and the definition it is measured by,  *)
(* level by level.  A topic is a sequence of characters.                   *)
(***************************************************************************)
EXTENDS Naturals, Sequences, SequencesExt

\* "skip until we meet the next separator, or end of string"
NextSeparator(name, j) ==
    LET after == {k \in (j + 1)..Len(name) : name[k] = "/"}
    IN IF after = {} THEN Len(name) + 1 ELSE CHOOSE k \in after : \A l \in after : k <= l

\* Fault: a plus takes the rest of the name.
SkipsAll(name, j) == Len(name) + 1

\* The place behind the level that a plus stands for.
Skips(name, j) == NextSeparator(name, j)

\* curf and curn where the loop ends.
isTopicMatched(filter, name) ==
    LET walk[i \in 1..(Len(filter) + 1), j \in 1..(Len(name) + 1)] ==
            IF \/ i > Len(filter) \/ j > Len(name)
               \/ name[j] = "/" /\ filter[i] # "/"
               \/ filter[i] \notin {"+", "#", name[j]}
            THEN <<i, j>>
            ELSE walk[i + 1, IF filter[i] = "+" THEN Skips(name, j)
                             ELSE IF filter[i] = "#" THEN Len(name) + 1 ELSE j + 1]
    IN walk[1, 1] = <<Len(filter) + 1, Len(name) + 1>>
------------------------------------------------------------------------------
\* The levels of a topic.
Separators(s) == {0, Len(s) + 1} \cup {i \in 1..Len(s) : s[i] = "/"}
Levels(s) ==
    LET cut == SetToSortSeq(Separators(s), <)
    IN [k \in 1..(Len(cut) - 1) |-> SubSeq(s, cut[k] + 1, cut[k + 1] - 1)]

\* "+ and # can only be next to separator", "# can only be at end".
WellFormed(filter) ==
    LET l == Levels(filter)
    IN \A k \in DOMAIN l :
        /\ l[k] # <<>>
        /\ \A i \in DOMAIN l[k] : l[k][i] \in {"+", "#"} => Len(l[k]) = 1
        /\ l[k] = <<"#">> => k = Len(l)

\* Level by level: a plus is one level, a number sign one or more.
LevelsMatch(filter, name) ==
    LET f == Levels(filter)
        n == Levels(name)
        hash == f[Len(f)] = <<"#">>
    IN /\ IF hash THEN Len(n) >= Len(f) ELSE Len(n) = Len(f)
       /\ \A k \in 1..(IF hash THEN Len(f) - 1 ELSE Len(f)) :
            f[k] = <<"+">> \/ f[k] = n[k]
=============================================================================
