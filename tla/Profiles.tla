------------------------------ MODULE Profiles ------------------------------
(***************************************************************************)
(* server/slicer.py: the slicer's vendor profiles.  ProfileIndex.load()    *)
(* indexes the files by the name they carry; flatten_profile() resolves    *)
(* what a profile inherits and includes, recursively, into one             *)
(* self-contained profile.  Files and index are arbitrary: vendor trees    *)
(* are not under the server's control.  One key of profiles is followed;   *)
(* its value is the name of the profile that it comes from.                *)
(***************************************************************************)
EXTENDS Naturals, Sequences, SequencesExt

CONSTANTS
  Names,         \* profile names
  None,          \* no parent, and an unreadable file
  Failure,       \* SliceError
  Trees          \* the directories there may be

VARIABLES
  files,         \* the files, in the order of their paths
  metadata,      \* the key is in _INCLUDE_METADATA
  index,         \* ProfileIndex
  flat           \* flatten_profile() of each name

vars == <<files, metadata, index, flat>>

Profile == [inherits : Names \cup {None}, include : Seq(Names), defines : BOOLEAN]
NoKeys == {}

Init ==
  /\ files \in Trees /\ metadata \in BOOLEAN
  /\ index = <<>>
  /\ flat = [n \in Names |-> Failure]

---------------------------------------------------------------------------
\* setdefault(): the first file of a name wins, an unreadable one is skipped.
Indexed(so_far, f) ==
  IF f.profile = None \/ f.name \in DOMAIN so_far THEN so_far
  ELSE [n \in DOMAIN so_far \cup {f.name} |->
          IF n = f.name THEN f.profile ELSE so_far[n]]

Load ==
  /\ index = <<>>
  /\ index' = FoldLeft(Indexed, <<>>, files)
  /\ UNCHANGED <<files, metadata, flat>>

\* A resolved profile is {}, or {n}: the key has the value that profile n gives it.
\* What an exception was raised in, raises it.
Over(low, high) ==
  IF Failure \in {low, high} THEN Failure
  ELSE IF high = NoKeys THEN low ELSE high

\* Mutant: a template that does not resolve is left out.
IncludedIfThere(out, included) ==
  IF included = Failure THEN out ELSE Over(out, IF metadata THEN NoKeys ELSE included)

\* A template's keys, less those in _INCLUDE_METADATA, over what there is.
Included(out, included) ==
  IF included = Failure THEN Failure
  ELSE Over(out, IF metadata THEN NoKeys ELSE included)

Own(n) == IF index[n].defines THEN {n} ELSE NoKeys

\* Mutant: what is inherited comes over what is included.
StackedParentLast(parent, included, own) ==
  Over(Over(FoldLeft(Included, NoKeys, included), parent), own)

\* Inherited keys first, then each template in turn, then the profile's own.
Stacked(parent, included, own) == Over(FoldLeft(Included, parent, included), own)

RECURSIVE Flatten(_, _)
Flatten(n, seen) ==
  IF n \in seen \/ n \notin DOMAIN index THEN Failure
  ELSE LET node == index[n]
           parent == IF node.inherits = None THEN NoKeys
                     ELSE Flatten(node.inherits, seen \cup {n})
           included == [i \in DOMAIN node.include |->
                          Flatten(node.include[i], seen \cup {n})]
       IN Stacked(parent, included, Own(n))

FlattenAll ==
  /\ index # <<>>
  /\ flat' = [n \in Names |-> Flatten(n, {})]
  /\ UNCHANGED <<files, metadata, index>>

Next == Load \/ FlattenAll

Spec == Init /\ [][Next]_vars

---------------------------------------------------------------------------
(* The reference: ways through the graph of profiles.  A way is the ranks  *)
(* of the links it takes, 0 for inherits and i for the i-th template.      *)

Ranks(n) == {r \in 0..Len(index[n].include) : r = 0 => index[n].inherits # None}
Target(n, r) == IF r = 0 THEN index[n].inherits ELSE index[n].include[r]

\* Where way w leads from n, None if it cannot be followed.
Follow(n, w) ==
  FoldLeft(LAMBDA m, r : IF m \in DOMAIN index /\ r \in Ranks(m) THEN Target(m, r) ELSE None,
           n, w)

MaxRank == 2                     \* bound: templates of a profile
Ways(length) == [1..length -> 0..MaxRank]
Reachable(n, lengths) == {Follow(n, w) : w \in UNION {Ways(l) : l \in lengths}} \ {None}

Sound(n) ==
  \A m \in Reachable(n, 0..2) \cup {n} :
    m \in DOMAIN index /\ m \notin Reachable(m, 1..3)

\* A way to a definition of the key that the profile may take it from.
Sources(n) ==
  {w \in UNION {Ways(l) : l \in 0..2} :
     /\ Follow(n, w) \in DOMAIN index /\ index[Follow(n, w)].defines
     /\ metadata => \A i \in DOMAIN w : w[i] = 0}

\* v stops where w goes on, or takes a later template, or one instead of the parent.
Beats(v, w) ==
  \/ Len(v) < Len(w) /\ IsPrefix(v, w)
  \/ \E i \in DOMAIN v \cap DOMAIN w :
       v[i] > w[i] /\ \A j \in 1..(i - 1) : v[j] = w[j]

Winner(n) ==
  {Follow(n, w) : w \in {v \in Sources(n) : \A u \in Sources(n) \ {v} : Beats(v, u)}}

---------------------------------------------------------------------------
Flattened == \E n \in Names : flat[n] # Failure

\* A profile resolves exactly if everything it inherits and includes, at any depth,
\* is there and nothing leads back to itself; a template may be included twice.
\* Nothing is left out silently.
ResolvesOrRaises ==
  Flattened => \A n \in Names : flat[n] # Failure <=> Sound(n)

\* A key is the profile's own, else that of the last template that has it, else
\* the parent's, at every depth; a template never gives its metadata away.
RealGcodeWins ==
  \A n \in Names : flat[n] # Failure => flat[n] = Winner(n)

===========================================================================
