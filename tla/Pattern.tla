------------------------------ MODULE Pattern ------------------------------
(***************************************************************************)
(* Topic patterns: pattern/pattern.go, and the enumeration of a topic's    *)
(* dotted prefixes, memorybroker/fn.go.                                    *)
(*                                                                         *)
(* A topic or a pattern is a string; it is represented by the non-empty    *)
(* sequence of the segments between its dots, what strings.Split(raw, ".") *)
(* returns (strings.Join is the inverse, so nothing is lost).  The         *)
(* segment "" is the one before, between or after dots: "a." is            *)
(* <<"a", "">>, and the empty string is <<"">>.                            *)
(***************************************************************************)
EXTENDS Naturals, Sequences

Star == "*"
Empty == ""

\* The segments of a sequence.
Segments(s) == {s[i] : i \in DOMAIN s}

\* segs[:len(segs)-1]
AllButLast(s) == [i \in 1 .. Len(s) - 1 |-> s[i]]

\* strings.HasPrefix(t, p + "."), for p and t in segments.
HasDottedPrefix(p, t) ==
    /\ Len(t) > Len(p)
    /\ \A i \in 1 .. Len(p) : t[i] = p[i]

----------------------------------------------------------------------------
\* The kind NewPattern gives to a pattern.
Kinds == {"Exact", "Global", "SuffixWildcard", "Complex"}

KindOf(raw) ==
    CASE raw = <<Star>>                       -> "Global"
      [] Star \notin Segments(raw)            -> "Exact"
      [] /\ Len(raw) >= 2 /\ raw[Len(raw)] = Star
         /\ Star \notin Segments(AllButLast(raw)) -> "SuffixWildcard"
      [] OTHER                                -> "Complex"

SimplePrefix(raw) == AllButLast(raw)

\* matchSegments: pi and ti advance together, so one index stands for both.
MatchSegments(raw, topic) ==
    LET n == Len(raw)
        m == Len(topic)
        from[i \in 1 .. n + 1] ==
            IF i > n THEN m = n
            ELSE /\ i <= m
                 /\ \/ raw[i] = Star
                    \/ raw[i] = topic[i]
                 /\ \/ raw[i] = Star /\ i = n
                    \/ from[i + 1]
    IN  from[1]

\* Pattern.Match.  The suffix wildcard also requires that something follows
\* the dot: len(topic) > len(simplePrefix)+1.
Match(raw, topic) ==
    CASE KindOf(raw) = "Global"  -> TRUE
      [] KindOf(raw) = "Exact"   -> raw = topic
      [] KindOf(raw) = "SuffixWildcard" ->
            /\ HasDottedPrefix(SimplePrefix(raw), topic)
            /\ topic # Append(SimplePrefix(raw), Empty)
      [] OTHER                   -> MatchSegments(raw, topic)

\* forEachPrefixOf(topic): the part before each of its dots.
PrefixesOf(topic) == {[i \in 1 .. n |-> topic[i]] : n \in 1 .. Len(topic) - 1}
============================================================================
