---------------------------- MODULE MCEntryQueue ----------------------------
EXTENDS EntryQueue

\* Two plugins, neither of which lists an entry twice.
Distinct(s) == \A i, j \in DOMAIN s : s[i] = s[j] => i = j
ListsUpTo(n) == {s \in UNION {[1..k -> Names] : k \in 0..n} : Distinct(s)}

MCAnswers == {<<s, t>> : s \in ListsUpTo(2) \ {<<>>}, t \in ListsUpTo(2)}

\* The last entry of a list was listed before only if every entry of it was.
EndsNew(t, old) == t = <<>> \/ t[Len(t)] \notin old \/ \A i \in DOMAIN t : t[i] \in old

MCHarmless ==
  {<<s, t>> : s \in ListsUpTo(2), t \in ListsUpTo(3)}
  \ {<<s, t>> \in ListsUpTo(2) \X ListsUpTo(3) : ~EndsNew(t, {s[i] : i \in DOMAIN s})}
=============================================================================
