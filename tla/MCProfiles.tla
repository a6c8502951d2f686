----------------------------- MODULE MCProfiles -----------------------------
EXTENDS Profiles

Includes(longest) ==
  {s \in UNION {[1..l -> Names] : l \in 0..longest} : Len(s) = 2 => s[1] # s[2]}

ProfilesWith(longest) ==
  [inherits : Names \cup {None}, include : Includes(longest), defines : BOOLEAN]

File(n, p) == [name |-> n, profile |-> p]

\* Three files.  The first has up to two templates, the others one; the third may
\* carry the name of the second, or not be readable.
MCTrees ==
  {<<File("machine", p), File("template", q), File(n, r)>> :
     p \in ProfilesWith(2), q \in ProfilesWith(1), n \in {"common", "template"},
     r \in ProfilesWith(1) \cup {None}}

===========================================================================
