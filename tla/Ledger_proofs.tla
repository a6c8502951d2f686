--------------------------- MODULE Ledger_proofs ---------------------------
(***************************************************************************)
(* Theorems about Ledger, for any number of threads, rows, copies and     *)
(* faults and of statements per schema version: what is committed is      *)
(* sound, a block that raises puts the data back, the server serves a     *)
(* migrated file and boots on any, and Ledger implements AtomicLedger.    *)
(*                                                                        *)
(* First the shape of the calls, then what their statements do to the     *)
(* data, then the invariant of the threads that execute them (Shape,      *)
(* IInv), then what each open transaction has done so far (TInv), and     *)
(* what the boot has (BInv).                                              *)
(***************************************************************************)
EXTENDS Ledger, TLAPS, SequenceTheorems

---------------------------------------------------------------------------
(* What every call looks like: its blocks are balanced, a spool is loaded  *)
(* right after its printer was cleared, a default recipe is set right      *)
(* after its owner was checked and the other defaults were cleared, and a  *)
(* plate gets its pieces one by one to the last.                           *)

Instructions ==
  [op : {"begin"}, skip : Nat] \cup [op : {"end", "seed"}]
    \cup [op : {"clear"}, printer : Printers]
    \cup [op : {"load"}, printer : Printers, spool : Spools]
    \cup [op : {"get_spool", "archive_spool"}, spool : Spools]
    \cup [op : {"insert_spool", "status"}, spool : Spools, status : SPOOL_FREE_STATUSES]
    \cup [op : {"get_part", "archive_part", "clear_default"}, part : Parts]
    \cup [op : {"insert_part", "revision"}, part : Parts, revision : Revisions]
    \cup [op : {"owns_recipe", "insert_recipe"}, part : Parts, recipe : Recipes]
    \cup [op : {"set_default", "archive_recipe"}, recipe : Recipes]
    \cup [op : {"close", "verdict"}, verdict : END_STATES]
    \cup [op : {"piece"}, copy : 1..Copies]
    \cup [op : {"write_piece"}, copy : 1..Copies, status : PIECE_STATUSES]
    \cup [op : {"plate"}, status : PIECE_STATUSES]
    \cup [op : {"event"}, uuid : Uuids]
    \cup [op : {"badge", "unbadge"}, badge : Badges]
    \cup [op : {"may_badge"}, badge : Badges, by : {"detector", "operator"}]
    \cup [op : {"create"}, table : Nat]
    \cup [op : {"stamp"}, version : 1..Versions]

Statement(i) == i.op \notin Queries \cup {"begin", "end"}
Plain(i) == Statement(i) /\ i.op \notin {"load", "set_default", "piece"}

\* Step i of steps s, when d[i] blocks are open before it.
Nested(s, d, i) ==
  /\ s[i].op = "begin" =>
       /\ d[i + 1] = d[i] + 1
       /\ s[i].skip > 0 =>
            \E k \in 1..Len(s) : i + s[i].skip = k + 1 /\ s[k].op = "end" /\ d[k + 1] = d[i]
  /\ s[i].op = "end" => d[i] = d[i + 1] + 1
  /\ s[i].op \in Queries => d[i] = 0 /\ d[i + 1] = 0
  /\ Statement(s[i]) => d[i] > 0 /\ d[i + 1] = d[i]

LoadPlaced(s, i) ==
  s[i].op = "load" => i > 1 /\ s[i - 1].op = "clear" /\ s[i - 1].printer = s[i].printer

DefaultPlaced(s, i) ==
  s[i].op = "set_default" =>
    /\ i > 3 /\ s[i - 1].op = "clear_default" /\ s[i - 2].op = "begin"
    /\ s[i - 3].op = "owns_recipe"
    /\ s[i - 3].part = s[i - 1].part /\ s[i - 3].recipe = s[i].recipe

PiecePlaced(s, i) ==
  s[i].op = "piece" =>
    /\ \/ s[i].copy = 1
       \/ i > 1 /\ s[i - 1].op = "piece" /\ s[i - 1].copy = s[i].copy - 1
    /\ i < Len(s)
    /\ s[i].copy < Copies => s[i + 1].op = "piece" /\ s[i + 1].copy = s[i].copy + 1
    /\ s[i].copy = Copies => s[i + 1].op = "end"

WellPlaced(s, d, i) ==
  Nested(s, d, i) /\ LoadPlaced(s, i) /\ DefaultPlaced(s, i) /\ PiecePlaced(s, i)

WellFormed(s, d) ==
  /\ s \in Seq(Instructions) /\ Len(s) > 0
  /\ d \in [1..(Len(s) + 1) -> Nat]
  /\ d[1] = 0 /\ d[Len(s) + 1] = 0
  /\ \A i \in 1..Len(s) : WellPlaced(s, d, i)

Formed(s) == \E d \in [1..(Len(s) + 1) -> Nat] : WellFormed(s, d)

USE RowsAssumption

---------------------------------------------------------------------------
LEMMA Fields ==
  ASSUME NEW i \in Instructions
  PROVE  /\ i.op = "begin" => i.skip \in Nat
         /\ i.op = "piece" => i.copy \in 1..Copies
  BY DEF Instructions

LEMMA ConcatFormed ==
  ASSUME NEW s, NEW t, Formed(s), Formed(t)
  PROVE  Formed(s \o t)
  <1>1. PICK ds \in [1..(Len(s) + 1) -> Nat] : WellFormed(s, ds)
    BY DEF Formed
  <1>2. PICK dt \in [1..(Len(t) + 1) -> Nat] : WellFormed(t, dt)
    BY DEF Formed
  <1>3. s \in Seq(Instructions) /\ t \in Seq(Instructions)
    BY <1>1, <1>2 DEF WellFormed
  <1>4. Len(s) \in Nat /\ Len(t) \in Nat
    BY <1>3, LenProperties
  <1>5. PICK m \in Nat, n \in Nat : m = Len(s) /\ n = Len(t)
    BY <1>4
  <1> DEFINE u == s \o t
             d == [i \in 1..(m + n + 1) |-> IF i <= m THEN ds[i] ELSE dt[i - m]]
  <1>6. /\ u \in Seq(Instructions) /\ Len(u) = m + n
        /\ \A i \in 1..m : u[i] = s[i]
        /\ \A i \in 1..n : u[m + i] = t[i]
    BY <1>3, <1>5, ConcatProperties, Z3
  <1>7. /\ d \in [1..(m + n + 1) -> Nat]
        /\ \A i \in 1..(m + 1) : d[i] = ds[i]
        /\ \A i \in 1..(n + 1) : d[m + i] = dt[i]
    <2>1. ds[m + 1] = 0 /\ dt[1] = 0
      BY <1>1, <1>2, <1>5 DEF WellFormed
    <2> QED
      BY <2>1, <1>5
  <1> HIDE DEF u, d
  <1>8. ASSUME NEW i \in 1..m
        PROVE  WellPlaced(u, d, i)
    <2>1. WellPlaced(s, ds, i) /\ s[i] \in Instructions
      BY <1>1, <1>3, <1>5, ElementOfSeq DEF WellFormed
    <2>2. d[i] = ds[i] /\ d[i + 1] = ds[i + 1] /\ u[i] = s[i]
      <3>1. i \in 1..(m + 1) /\ i + 1 \in 1..(m + 1)
        OBVIOUS
      <3> QED
        BY <3>1, <1>6, <1>7
    <2>3. Nested(u, d, i)
      <3>1. ASSUME s[i].op = "begin", s[i].skip > 0
            PROVE  \E k \in 1..Len(u) : i + s[i].skip = k + 1 /\ u[k].op = "end"
                                          /\ d[k + 1] = d[i]
        <4>1. PICK k \in 1..m : i + s[i].skip = k + 1 /\ s[k].op = "end" /\ ds[k + 1] = ds[i]
          BY <2>1, <3>1, <1>5 DEF WellPlaced, Nested
        <4>2. k \in 1..(m + n) /\ k + 1 \in 1..(m + 1)
          OBVIOUS
        <4>3. u[k] = s[k] /\ d[k + 1] = ds[k + 1]
          BY <4>2, <1>6, <1>7
        <4> QED
          BY <4>1, <4>2, <4>3, <2>2, <1>6
      <3> QED
        BY <3>1, <2>1, <2>2 DEF WellPlaced, Nested
    <2>4. /\ i > 1 => u[i - 1] = s[i - 1]
          /\ i > 3 => u[i - 2] = s[i - 2] /\ u[i - 3] = s[i - 3]
          /\ i < m => u[i + 1] = s[i + 1]
      <3>1. \A j \in 1..m : u[j] = s[j]
        BY <1>6
      <3>2. i > 1 => i - 1 \in 1..m
        OBVIOUS
      <3>3. i > 3 => i - 2 \in 1..m /\ i - 3 \in 1..m
        OBVIOUS
      <3>4. i < m => i + 1 \in 1..m
        OBVIOUS
      <3> QED
        BY <3>1, <3>2, <3>3, <3>4
    <2>5. LoadPlaced(u, i) /\ DefaultPlaced(u, i)
      BY <2>1, <2>2, <2>4 DEF WellPlaced, LoadPlaced, DefaultPlaced
    <2>6. PiecePlaced(u, i)
      <3>1. i < m => i < Len(u)
        BY <1>6
      <3> QED
        BY <3>1, <2>1, <2>2, <2>4, <1>5 DEF WellPlaced, PiecePlaced
    <2> QED
      BY <2>3, <2>5, <2>6 DEF WellPlaced
  <1>9. ASSUME NEW i \in 1..n
        PROVE  WellPlaced(u, d, m + i)
    <2>1. WellPlaced(t, dt, i) /\ t[i] \in Instructions
      BY <1>2, <1>3, <1>5, ElementOfSeq DEF WellFormed
    <2>2. d[m + i] = dt[i] /\ d[m + i + 1] = dt[i + 1] /\ u[m + i] = t[i]
      <3>1. i \in 1..(n + 1) /\ i + 1 \in 1..(n + 1)
        OBVIOUS
      <3>2. m + (i + 1) = m + i + 1
        OBVIOUS
      <3>3. d[m + (i + 1)] = dt[i + 1]
        BY <3>1, <1>7
      <3> QED
        BY <3>1, <3>2, <3>3, <1>6, <1>7
    <2>3. Nested(u, d, m + i)
      <3>1. ASSUME t[i].op = "begin", t[i].skip > 0
            PROVE  \E k \in 1..Len(u) : m + i + t[i].skip = k + 1 /\ u[k].op = "end"
                                          /\ d[k + 1] = d[m + i]
        <4>1. PICK k \in 1..n : i + t[i].skip = k + 1 /\ t[k].op = "end" /\ dt[k + 1] = dt[i]
          BY <2>1, <3>1, <1>5 DEF WellPlaced, Nested
        <4>2. /\ m + k \in 1..(m + n) /\ k + 1 \in 1..(n + 1)
              /\ m + (k + 1) = m + k + 1
          OBVIOUS
        <4>3. u[m + k] = t[k] /\ d[m + k + 1] = dt[k + 1]
          BY <4>2, <1>6, <1>7
        <4>4. m + i + t[i].skip = m + k + 1
          <5>1. PICK x \in Nat : x = t[i].skip
            BY <2>1, <3>1, Fields
          <5>2. i + x = k + 1 => m + i + x = m + k + 1
            OBVIOUS
          <5> QED
            BY <5>1, <5>2, <4>1
        <4> QED
          BY <4>1, <4>2, <4>3, <4>4, <2>2, <1>6
      <3> QED
        BY <3>1, <2>1, <2>2 DEF WellPlaced, Nested
    <2>4. /\ i > 1 => u[m + i - 1] = t[i - 1]
          /\ i > 3 => u[m + i - 2] = t[i - 2] /\ u[m + i - 3] = t[i - 3]
          /\ i < n => u[m + i + 1] = t[i + 1]
      <3>1. \A j \in 1..n : u[m + j] = t[j]
        BY <1>6
      <3>2. i > 1 => i - 1 \in 1..n /\ m + (i - 1) = m + i - 1
        OBVIOUS
      <3>3. i > 3 => /\ i - 2 \in 1..n /\ m + (i - 2) = m + i - 2
                     /\ i - 3 \in 1..n /\ m + (i - 3) = m + i - 3
        OBVIOUS
      <3>4. i < n => i + 1 \in 1..n /\ m + (i + 1) = m + i + 1
        OBVIOUS
      <3> QED
        BY <3>1, <3>2, <3>3, <3>4
    <2>5. /\ i > 1 => m + i > 1
          /\ i > 3 => m + i > 3
          /\ i < n => m + i < Len(u)
      BY <1>6
    <2>6. LoadPlaced(u, m + i) /\ DefaultPlaced(u, m + i)
      BY <2>1, <2>2, <2>4, <2>5, SMTT(40) DEF WellPlaced, LoadPlaced, DefaultPlaced
    <2>7. PiecePlaced(u, m + i)
      <3>1. ASSUME t[i].op = "piece"
            PROVE  i < n /\ PiecePlaced(t, i)
        BY <3>1, <2>1, <1>5 DEF WellPlaced, PiecePlaced
      <3>2. ASSUME t[i].op = "piece"
            PROVE  /\ t[i].copy = 1 \/ (/\ m + i > 1 /\ u[m + i - 1].op = "piece"
                                      /\ u[m + i - 1].copy = t[i].copy - 1)
                   /\ m + i < Len(u)
        BY <3>1, <3>2, <2>4, <2>5 DEF PiecePlaced
      <3>3. ASSUME t[i].op = "piece"
            PROVE  /\ t[i].copy < Copies => /\ u[m + i + 1].op = "piece"
                                            /\ u[m + i + 1].copy = t[i].copy + 1
                   /\ t[i].copy = Copies => u[m + i + 1].op = "end"
        BY <3>1, <3>3, <2>4 DEF PiecePlaced
      <3> QED
        BY <3>2, <3>3, <2>2 DEF PiecePlaced
    <2> QED
      BY <2>3, <2>6, <2>7 DEF WellPlaced
  <1>10. ASSUME NEW i \in 1..(m + n)
        PROVE  WellPlaced(u, d, i)
    <2>1. CASE i <= m
      BY <2>1, <1>8
    <2>2. CASE i > m
      <3>1. i - m \in 1..n /\ m + (i - m) = i
        BY <2>2
      <3>2. WellPlaced(u, d, m + (i - m))
        BY <3>1, <1>9
      <3> QED
        BY <3>1, <3>2
    <2> QED
      BY <2>1, <2>2
  <1>11. d[1] = 0 /\ d[m + n + 1] = 0
    <2>1. ds[1] = 0 /\ dt[n + 1] = 0
      BY <1>1, <1>2, <1>5 DEF WellFormed
    <2>2. 1 \in 1..(m + 1) /\ n + 1 \in 1..(n + 1) /\ m + (n + 1) = m + n + 1
      OBVIOUS
    <2> QED
      BY <2>1, <2>2, <1>7
  <1>12. WellFormed(u, d)
    <2>1. m + n > 0
      BY <1>1, <1>5 DEF WellFormed
    <2> QED
     BY <2>1, <1>6, <1>7, <1>10, <1>11 DEF WellFormed
  <1> QED
    BY <1>12, <1>6, <1>7 DEF Formed, u

LEMMA QueryFormed ==
  ASSUME NEW i \in Instructions, i.op \in Queries
  PROVE  Formed(<<i>>)
  <1> DEFINE s == <<i>>
             d == [k \in 1..2 |-> 0]
  <1>1. s \in Seq(Instructions) /\ Len(s) = 1 /\ s[1] = i
    OBVIOUS
  <1>2. WellPlaced(s, d, 1)
    BY <1>1 DEF WellPlaced, Nested, LoadPlaced, DefaultPlaced, PiecePlaced, Queries, Statement
  <1> QED
    BY <1>1, <1>2 DEF Formed, WellFormed

\* Step i of what a block does, when it is a list b of statements.
BodyPlaced(b, i) ==
  /\ Statement(b[i]) /\ b[i].op # "set_default"
  /\ LoadPlaced(b, i)
  /\ b[i].op = "piece" =>
       /\ \/ b[i].copy = 1
          \/ i > 1 /\ b[i - 1].op = "piece" /\ b[i - 1].copy = b[i].copy - 1
       /\ b[i].copy < Copies =>
            i < Len(b) /\ b[i + 1].op = "piece" /\ b[i + 1].copy = b[i].copy + 1
       /\ b[i].copy = Copies => i = Len(b)

LEMMA BlockFormed ==
  ASSUME NEW b \in Seq(Instructions), \A i \in 1..Len(b) : BodyPlaced(b, i),
         NEW skip \in {0, Len(b) + 2}
  PROVE  Formed(<<[op |-> "begin", skip |-> skip]>> \o b \o <<[op |-> "end"]>>)
  <1>1. PICK n \in Nat : n = Len(b)
    BY LenProperties
  <1> DEFINE first == [op |-> "begin", skip |-> skip]
             last == [op |-> "end"]
             u == <<first>> \o b \o <<last>>
             d == [i \in 1..(n + 3) |-> IF i = 1 \/ i = n + 3 THEN 0 ELSE 1]
  <1>2. first \in Instructions /\ last \in Instructions
    BY <1>1 DEF Instructions
  <1>3. /\ u \in Seq(Instructions) /\ Len(u) = n + 2
        /\ u[1] = first /\ u[n + 2] = last
        /\ \A i \in 1..n : u[1 + i] = b[i]
    <2>1. /\ <<first>> \in Seq(Instructions) /\ Len(<<first>>) = 1 /\ <<first>>[1] = first
          /\ <<last>> \in Seq(Instructions) /\ Len(<<last>>) = 1 /\ <<last>>[1] = last
      BY <1>2
    <2> HIDE DEF first, last
    <2>2. /\ <<first>> \o b \in Seq(Instructions) /\ Len(<<first>> \o b) = 1 + n
          /\ (<<first>> \o b)[1] = first
          /\ \A i \in 1..n : (<<first>> \o b)[1 + i] = b[i]
      BY <2>1, <1>1, ConcatProperties, Z3
    <2> QED
      BY <2>1, <2>2, <1>1, ConcatProperties, Z3
  <1>4. /\ d \in [1..(n + 3) -> Nat] /\ d[1] = 0 /\ d[n + 3] = 0
        /\ \A i \in 1..n : d[1 + i] = 1 /\ d[1 + i + 1] = 1
        /\ d[2] = 1 /\ d[n + 2] = 1
    OBVIOUS
  <1> HIDE DEF u, d
  <1>5. WellPlaced(u, d, 1)
    <2>1. u[1].op = "begin" /\ d[1 + 1] = d[1] + 1
      BY <1>3, <1>4
    <2>2. ASSUME u[1].skip > 0
          PROVE  \E k \in 1..Len(u) : 1 + u[1].skip = k + 1 /\ u[k].op = "end"
                                        /\ d[k + 1] = d[1]
      <3>1. 1 + u[1].skip = (n + 2) + 1 /\ n + 2 \in 1..(n + 2) /\ (n + 2) + 1 = n + 3
        BY <2>2, <1>1, <1>3
      <3> QED
        BY <3>1, <1>3, <1>4
    <2> QED
      BY <2>1, <2>2
         DEF WellPlaced, Nested, LoadPlaced, DefaultPlaced, PiecePlaced, Queries, Statement
  <1>6. WellPlaced(u, d, n + 2)
    <2>1. u[n + 2].op = "end" /\ d[n + 2] = d[(n + 2) + 1] + 1
      BY <1>3, <1>4
    <2> QED
      BY <2>1
         DEF WellPlaced, Nested, LoadPlaced, DefaultPlaced, PiecePlaced, Queries, Statement
  <1>7. ASSUME NEW i \in 1..n
        PROVE  WellPlaced(u, d, 1 + i)
    <2>1. /\ BodyPlaced(b, i) /\ u[1 + i] = b[i]
          /\ d[1 + i] = 1 /\ d[1 + i + 1] = 1
      BY <1>1, <1>3, <1>4
    <2>2. Nested(u, d, 1 + i) /\ DefaultPlaced(u, 1 + i)
      BY <2>1 DEF BodyPlaced, Nested, DefaultPlaced, Statement, Queries
    <2>3. i > 1 => u[1 + i - 1] = b[i - 1]
      <3>1. i > 1 => i - 1 \in 1..n /\ 1 + (i - 1) = 1 + i - 1
        OBVIOUS
      <3> QED
        BY <3>1, <1>3
    <2>4. i < n => u[1 + i + 1] = b[i + 1]
      <3>1. i < n => i + 1 \in 1..n /\ 1 + (i + 1) = 1 + i + 1
        OBVIOUS
      <3> QED
        BY <3>1, <1>3
    <2>5. i = n => u[1 + i + 1] = last
      BY <1>3
    <2>6. LoadPlaced(u, 1 + i)
      BY <2>1, <2>3 DEF BodyPlaced, LoadPlaced
    <2>7. PiecePlaced(u, 1 + i)
      <3>1. 1 + i > 1 /\ 1 + i < Len(u)
        BY <1>3, SMTT(40)
      <3> QED
        BY <3>1, <2>1, <2>3, <2>4, <2>5, <1>1 DEF BodyPlaced, PiecePlaced
    <2> QED
      BY <2>2, <2>6, <2>7 DEF WellPlaced
  <1>8. ASSUME NEW i \in 1..(n + 2)
        PROVE  WellPlaced(u, d, i)
    <2>1. CASE i = 1
      BY <2>1, <1>5
    <2>2. CASE i = n + 2
      BY <2>2, <1>6
    <2>3. CASE i # 1 /\ i # n + 2
      <3>1. i - 1 \in 1..n /\ 1 + (i - 1) = i
        BY <2>3
      <3>2. WellPlaced(u, d, 1 + (i - 1))
        BY <3>1, <1>7
      <3> QED
        BY <3>1, <3>2
    <2> QED
      BY <2>1, <2>2, <2>3
  <1>9. (n + 2) + 1 = n + 3
    OBVIOUS
  <1>10. WellFormed(u, d) /\ d \in [1..(Len(u) + 1) -> Nat]
    BY <1>3, <1>4, <1>8, <1>9 DEF WellFormed
  <1> QED
    BY <1>10 DEF Formed, u

---------------------------------------------------------------------------
\* The two kinds of blocks.
LEMMA BlocksFormed ==
  ASSUME NEW b \in Seq(Instructions), \A i \in 1..Len(b) : BodyPlaced(b, i)
  PROVE  Formed(Block(b)) /\ Formed(TryBlock(b))
  <1>1. \A skip \in {0, Len(b) + 2} :
          Formed(<<[op |-> "begin", skip |-> skip]>> \o b \o <<[op |-> "end"]>>)
    BY BlockFormed
  <1>2. 0 \in {0, Len(b) + 2} /\ Len(b) + 2 \in {0, Len(b) + 2}
    OBVIOUS
  <1>3. Formed(<<[op |-> "begin", skip |-> 0]>> \o b \o <<[op |-> "end"]>>)
    BY <1>1, <1>2
  <1>4. Formed(<<[op |-> "begin", skip |-> Len(b) + 2]>> \o b \o <<[op |-> "end"]>>)
    BY <1>1, <1>2
  <1> QED
    BY <1>3, <1>4 DEF Block, TryBlock

LEMMA BlockOfOne ==
  ASSUME NEW x \in Instructions, Plain(x)
  PROVE  Formed(Block(<<x>>)) /\ Formed(TryBlock(<<x>>))
  <1> DEFINE b == <<x>>
  <1>1. b \in Seq(Instructions) /\ Len(b) = 1
    OBVIOUS
  <1>2. \A i \in 1..1 : BodyPlaced(b, i)
    BY DEF Plain, BodyPlaced, LoadPlaced
  <1> HIDE DEF b
  <1>3. Formed(Block(b)) /\ Formed(TryBlock(b))
    BY <1>1, <1>2, BlocksFormed
  <1> QED
    BY <1>3 DEF b

LEMMA BlockOfTwo ==
  ASSUME NEW x \in Instructions, NEW y \in Instructions, Plain(x),
         \/ Plain(y)
         \/ x.op = "clear" /\ y.op = "load" /\ x.printer = y.printer
  PROVE  Formed(Block(<<x, y>>)) /\ Formed(TryBlock(<<x, y>>))
  <1> DEFINE b == <<x, y>>
  <1>1. b \in Seq(Instructions) /\ Len(b) = 2
    OBVIOUS
  <1>2. BodyPlaced(b, 1) /\ BodyPlaced(b, 2)
    BY DEF Plain, Statement, Queries, BodyPlaced, LoadPlaced
  <1> HIDE DEF b
  <1>3. \A i \in 1..2 : BodyPlaced(b, i)
    BY <1>2
  <1>4. Formed(Block(b)) /\ Formed(TryBlock(b))
    BY <1>1, <1>3, BlocksFormed
  <1> QED
    BY <1>4 DEF b

LEMMA LoadFormed ==
  ASSUME NEW p \in Printers, NEW s \in Spools
  PROVE  Formed(SetLoadedSpool(p, s))
  <1> DEFINE x == [op |-> "clear", printer |-> p]
             y == [op |-> "load", printer |-> p, spool |-> s]
  <1>1. x \in Instructions /\ y \in Instructions /\ Plain(x)
    BY DEF Instructions, Plain, Statement, Queries
  <1>2. x.op = "clear" /\ y.op = "load" /\ x.printer = y.printer
    OBVIOUS
  <1> HIDE DEF x, y
  <1>3. Formed(Block(<<x, y>>))
    BY <1>1, <1>2, BlockOfTwo
  <1> QED
    BY <1>3 DEF SetLoadedSpool, Load, x, y

LEMMA CreatePiecesFormed == Formed(CreatePieces)
  <1> DEFINE b == [i \in 1..Copies |-> [op |-> "piece", copy |-> i]]
  <1>1. b \in Seq(Instructions) /\ Len(b) = Copies
    <2>1. \A i \in 1..Copies : [op |-> "piece", copy |-> i] \in Instructions
      BY DEF Instructions
    <2> QED
      BY <2>1
  <1>2. ASSUME NEW i \in 1..Copies
        PROVE  BodyPlaced(b, i)
    <2>1. b[i].op = "piece" /\ b[i].copy = i
      OBVIOUS
    <2>2. i > 1 => b[i - 1].op = "piece" /\ b[i - 1].copy = i - 1
      OBVIOUS
    <2>3. i < Copies => b[i + 1].op = "piece" /\ b[i + 1].copy = i + 1
      OBVIOUS
    <2> HIDE DEF b
    <2> QED
      BY <2>1, <2>2, <2>3, <1>1 DEF BodyPlaced, LoadPlaced, Statement, Queries
  <1> HIDE DEF b
  <1>3. Formed(Block(b))
    BY <1>1, <1>2, BlocksFormed
  <1> QED
    BY <1>3 DEF CreatePieces, b

LEMMA MigrateFormed ==
  ASSUME NEW v \in 1..Versions
  PROVE  Formed(MigrateTo(v))
  <1> DEFINE Table(n) == Statements * (v - 1) + n
             Create(n) == [op |-> "create", table |-> Table(n)]
             c == [n \in 1..Statements |-> Create(n)]
             x == [op |-> "stamp", version |-> v]
             b == c \o <<x>>
  <1>1. c \in Seq(Instructions) /\ Len(c) = Statements
    <2>1. Statements * (v - 1) \in Nat
      <3>1. v \in {1, 2, 3}
        BY DEF Versions
      <3> QED
        BY <3>1
    <2>2. \A n \in 1..Statements : Table(n) \in Nat
      BY <2>1
    <2> HIDE DEF Table
    <2>3. \A n \in 1..Statements : Create(n) \in Instructions
      BY <2>2 DEF Instructions
    <2> HIDE DEF Create
    <2> QED
      BY <2>3
  <1>2. x \in Instructions
    BY DEF Instructions
  <1>3. b \in Seq(Instructions) /\ Len(b) = Statements + 1
    <2> HIDE DEF c, x
    <2>1. <<x>> \in Seq(Instructions) /\ Len(<<x>>) = 1
      BY <1>2
    <2> QED
      BY <2>1, <1>1, ConcatProperties
  <1>4. \A i \in 1..(Statements + 1) : b[i].op \in {"create", "stamp"}
    <2>1. \A i \in 1..Statements : c[i].op = "create"
      <3>1. \A i \in 1..Statements : Create(i).op = "create"
        OBVIOUS
      <3> HIDE DEF Create
      <3> QED
        BY <3>1
    <2>2. \A i \in 1..(Statements + 1) :
            b[i] = IF i <= Len(c) THEN c[i] ELSE <<x>>[i - Len(c)]
      BY <1>1, <1>2, ConcatProperties
    <2>3. \A i \in 1..(Statements + 1) : i > Statements => i - Statements = 1
      OBVIOUS
    <2> HIDE DEF c
    <2> QED
      BY <2>1, <2>2, <2>3, <1>1
  <1> HIDE DEF b
  <1>5. \A i \in 1..Len(b) : BodyPlaced(b, i)
    BY <1>3, <1>4 DEF BodyPlaced, LoadPlaced, Statement, Queries
  <1>6. Formed(Block(b))
    BY <1>3, <1>5, BlocksFormed
  <1> QED
    BY <1>6 DEF MigrateTo, b

LEMMA Tuples ==
  ASSUME NEW S, NEW u \in S, NEW v \in S, NEW w \in S, NEW x \in S, NEW y \in S
  PROVE  LET s == <<u>> \o (<<v>> \o <<w, x>> \o <<y>>)
         IN /\ s \in Seq(S) /\ Len(s) = 5
            /\ s[1] = u /\ s[2] = v /\ s[3] = w /\ s[4] = x /\ s[5] = y
  <1> DEFINE a == <<u>>
             b == <<v>>
             c == <<w, x>>
             d == <<y>>
  <1>1. /\ a \in Seq(S) /\ Len(a) = 1 /\ a[1] = u
        /\ b \in Seq(S) /\ Len(b) = 1 /\ b[1] = v
        /\ c \in Seq(S) /\ Len(c) = 2 /\ c[1] = w /\ c[2] = x
        /\ d \in Seq(S) /\ Len(d) = 1 /\ d[1] = y
    OBVIOUS
  <1> HIDE DEF a, b, c, d
  <1> DEFINE bc == b \o c
  <1>2. /\ bc \in Seq(S) /\ Len(bc) = 3
        /\ bc[1] = v /\ bc[2] = w /\ bc[3] = x
    <2>1. /\ bc \in Seq(S) /\ Len(bc) = Len(b) + Len(c)
          /\ \A i \in 1..(Len(b) + Len(c)) :
                bc[i] = IF i <= Len(b) THEN b[i] ELSE c[i - Len(b)]
      <3>1. b \in Seq(S) /\ c \in Seq(S)
        BY <1>1
      <3> QED
        BY <3>1, ConcatProperties, Zenon
    <2> HIDE DEF bc
    <2> QED
      BY <2>1, <1>1
  <1> HIDE DEF bc
  <1> DEFINE bcd == bc \o d
  <1>3. /\ bcd \in Seq(S) /\ Len(bcd) = 4
        /\ bcd[1] = v /\ bcd[2] = w /\ bcd[3] = x /\ bcd[4] = y
    <2>1. /\ bcd \in Seq(S) /\ Len(bcd) = Len(bc) + Len(d)
          /\ \A i \in 1..(Len(bc) + Len(d)) :
                bcd[i] = IF i <= Len(bc) THEN bc[i] ELSE d[i - Len(bc)]
      <3>1. bc \in Seq(S) /\ d \in Seq(S)
        BY <1>1, <1>2
      <3> QED
        BY <3>1, ConcatProperties, Zenon
    <2> HIDE DEF bcd
    <2> QED
      BY <2>1, <1>1, <1>2
  <1> HIDE DEF bcd
  <1> DEFINE s == a \o bcd
  <1>4. /\ s \in Seq(S) /\ Len(s) = 5
        /\ s[1] = u /\ s[2] = v /\ s[3] = w /\ s[4] = x /\ s[5] = y
    <2>1. /\ s \in Seq(S) /\ Len(s) = Len(a) + Len(bcd)
          /\ \A i \in 1..(Len(a) + Len(bcd)) :
                s[i] = IF i <= Len(a) THEN a[i] ELSE bcd[i - Len(a)]
      <3>1. a \in Seq(S) /\ bcd \in Seq(S)
        BY <1>1, <1>3
      <3> QED
        BY <3>1, ConcatProperties, Zenon
    <2> HIDE DEF s
    <2> QED
      BY <2>1, <1>1, <1>3
  <1> HIDE DEF s
  <1> QED
    BY <1>4 DEF a, b, c, d, bc, bcd, s

LEMMA SetDefaultFormed ==
  ASSUME NEW a \in Parts, NEW r \in Recipes
  PROVE  Formed(SetDefaultRecipe(a, r))
  <1> DEFINE i1 == [op |-> "owns_recipe", part |-> a, recipe |-> r]
             i2 == [op |-> "begin", skip |-> 0]
             i3 == [op |-> "clear_default", part |-> a]
             i4 == [op |-> "set_default", recipe |-> r]
             i5 == [op |-> "end"]
             s == SetDefaultRecipe(a, r)
             d == <<0, 0, 1, 1, 1, 0>>
  <1>1. /\ i1 \in Instructions /\ i2 \in Instructions /\ i3 \in Instructions
        /\ i4 \in Instructions /\ i5 \in Instructions
    BY DEF Instructions
  <1>2. /\ s \in Seq(Instructions) /\ Len(s) = 5
        /\ s[1] = i1 /\ s[2] = i2 /\ s[3] = i3 /\ s[4] = i4 /\ s[5] = i5
    <2>1. s = <<i1>> \o (<<i2>> \o <<i3, i4>> \o <<i5>>)
      BY DEF SetDefaultRecipe, Block
    <2> HIDE DEF s, i1, i2, i3, i4, i5
    <2> QED
      BY <2>1, <1>1, Tuples
  <1>3. /\ d \in [1..6 -> Nat]
        /\ d[1] = 0 /\ d[2] = 0 /\ d[3] = 1 /\ d[4] = 1 /\ d[5] = 1 /\ d[6] = 0
    OBVIOUS
  <1> HIDE DEF s, d
  <1>4. WellPlaced(s, d, 1) /\ WellPlaced(s, d, 2) /\ WellPlaced(s, d, 3)
    BY <1>2, <1>3
       DEF WellPlaced, Nested, LoadPlaced, DefaultPlaced, PiecePlaced, Queries, Statement
  <1>5. WellPlaced(s, d, 4) /\ WellPlaced(s, d, 5)
    BY <1>2, <1>3
       DEF WellPlaced, Nested, LoadPlaced, DefaultPlaced, PiecePlaced, Queries, Statement
  <1>6. \A i \in 1..5 : WellPlaced(s, d, i)
    BY <1>4, <1>5
  <1>7. WellFormed(s, d) /\ d \in [1..(Len(s) + 1) -> Nat]
    BY <1>2, <1>3, <1>6 DEF WellFormed
  <1> QED
    BY <1>7 DEF Formed, s

LEMMA NestedTuples ==
  ASSUME NEW S, NEW t \in S, NEW u \in S, NEW v \in S, NEW w \in S, NEW x \in S, NEW y \in S
  PROVE  LET s == <<t>> \o (<<u>> \o (<<v>> \o <<w, x>> \o <<y>>)) \o <<y>>
         IN /\ s \in Seq(S) /\ Len(s) = 7
            /\ s[1] = t /\ s[2] = u /\ s[3] = v /\ s[4] = w /\ s[5] = x /\ s[6] = y
            /\ s[7] = y
  <1> DEFINE a == <<t>>
             b == <<u>> \o (<<v>> \o <<w, x>> \o <<y>>)
             c == <<y>>
             f == a \o b
             g == f \o c
  <1>1. a \in Seq(S) /\ c \in Seq(S)
    OBVIOUS
  <1>2. Len(a) = 1 /\ a[1] = t /\ Len(c) = 1 /\ c[1] = y
    OBVIOUS
  <1>3. b \in Seq(S)
    BY Tuples
  <1>4. /\ Len(b) = 5
        /\ b[1] = u /\ b[2] = v /\ b[3] = w /\ b[4] = x /\ b[5] = y
    BY Tuples
  <1> HIDE DEF a, b, c
  <1>5. /\ f \in Seq(S)
        /\ Len(f) = Len(a) + Len(b)
        /\ \A i \in 1..(Len(a) + Len(b)) :
             f[i] = IF i <= Len(a) THEN a[i] ELSE b[i - Len(a)]
    BY <1>1, <1>3, ConcatProperties, Zenon
  <1> HIDE DEF f
  <1>6. /\ Len(f) = 6
        /\ f[1] = t /\ f[2] = u /\ f[3] = v /\ f[4] = w /\ f[5] = x /\ f[6] = y
    BY <1>2, <1>4, <1>5
  <1>7. /\ g \in Seq(S)
        /\ Len(g) = Len(f) + Len(c)
        /\ \A i \in 1..(Len(f) + Len(c)) :
             g[i] = IF i <= Len(f) THEN f[i] ELSE c[i - Len(f)]
    BY <1>1, <1>5, ConcatProperties, ZenonT(60)
  <1> HIDE DEF g
  <1>8. /\ Len(g) = 7
        /\ g[1] = t /\ g[2] = u /\ g[3] = v /\ g[4] = w /\ g[5] = x /\ g[6] = y
        /\ g[7] = y
    BY <1>2, <1>6, <1>7
  <1> QED
    BY <1>7, <1>8, Zenon DEF a, b, c, f, g

LEMMA CloseWithEventFormed ==
  ASSUME NEW verdict \in END_STATES, NEW g \in Badges, NEW u \in Uuids
  PROVE  Formed(Block(<<[op |-> "close", verdict |-> verdict]>>
                        \o TryBlock(<<[op |-> "badge", badge |-> g],
                                      [op |-> "event", uuid |-> u]>>)))
  <1> DEFINE begin == [op |-> "begin", skip |-> 0]
             close == [op |-> "close", verdict |-> verdict]
             try == [op |-> "begin", skip |-> 4]
             badge == [op |-> "badge", badge |-> g]
             event == [op |-> "event", uuid |-> u]
             end == [op |-> "end"]
             inner == <<try>> \o <<badge, event>> \o <<end>>
             s == <<begin>> \o (<<close>> \o inner) \o <<end>>
             d == <<0, 1, 1, 2, 2, 2, 1, 0>>
  <1>1. /\ begin \in Instructions /\ close \in Instructions /\ try \in Instructions
        /\ badge \in Instructions /\ event \in Instructions /\ end \in Instructions
    BY DEF Instructions
  <1>3. /\ s \in Seq(Instructions) /\ Len(s) = 7
        /\ s[1] = begin /\ s[2] = close /\ s[3] = try /\ s[4] = badge
        /\ s[5] = event /\ s[6] = end /\ s[7] = end
    <2> HIDE DEF begin, close, try, badge, event, end
    <2> QED
      BY <1>1, NestedTuples
  <1>4. /\ d \in [1..8 -> Nat] /\ d[1] = 0 /\ d[2] = 1 /\ d[3] = 1 /\ d[4] = 2
        /\ d[5] = 2 /\ d[6] = 2 /\ d[7] = 1 /\ d[8] = 0
    OBVIOUS
  <1>5. s = Block(<<close>> \o TryBlock(<<badge, event>>))
    <2>1. Len(<<badge, event>>) = 2
      OBVIOUS
    <2> HIDE DEF badge, event, close
    <2> QED
      BY <2>1 DEF Block, TryBlock
  <1> HIDE DEF s, d
  <1>6. WellPlaced(s, d, 1) /\ WellPlaced(s, d, 2)
    BY <1>3, <1>4
       DEF WellPlaced, Nested, LoadPlaced, DefaultPlaced, PiecePlaced, Queries, Statement
  <1>7. WellPlaced(s, d, 3)
    <2>1. s[3].op = "begin" /\ s[3].skip = 4 /\ d[4] = d[3] + 1
      BY <1>3, <1>4
    <2>2. 3 + 4 = 6 + 1 /\ s[6].op = "end" /\ d[6 + 1] = d[3] /\ 6 \in 1..Len(s)
      BY <1>3, <1>4
    <2> QED
      BY <2>1, <2>2
         DEF WellPlaced, Nested, LoadPlaced, DefaultPlaced, PiecePlaced, Queries, Statement
  <1>8. WellPlaced(s, d, 4) /\ WellPlaced(s, d, 5)
    BY <1>3, <1>4
       DEF WellPlaced, Nested, LoadPlaced, DefaultPlaced, PiecePlaced, Queries, Statement
  <1>9. WellPlaced(s, d, 6) /\ WellPlaced(s, d, 7)
    BY <1>3, <1>4
       DEF WellPlaced, Nested, LoadPlaced, DefaultPlaced, PiecePlaced, Queries, Statement
  <1>10. \A i \in 1..7 : WellPlaced(s, d, i)
    BY <1>6, <1>7, <1>8, <1>9
  <1>11. WellFormed(s, d) /\ d \in [1..(Len(s) + 1) -> Nat]
    BY <1>3, <1>4, <1>10 DEF WellFormed
  <1>12. Formed(s)
    BY <1>11 DEF Formed
  <1> QED
    BY <1>5, <1>12

---------------------------------------------------------------------------
(* The outermost blocks of the calls, each with the query whose answer it  *)
(* relies on, are of few forms.                                            *)

\* Statements that are a whole change by themselves.
Lone == {"insert_spool", "clear", "archive_spool", "insert_part", "archive_part", "close",
         "verdict", "write_piece", "event", "badge", "unbadge", "seed"}

IsLone(w) == Len(w) = 3 /\ w[1].op = "begin" /\ w[2].op \in Lone /\ w[3].op = "end"

\* Query q tells statement x what it needs to know.
Asks(q, x) ==
  \/ q.op = "get_spool" /\ x.op = "status" /\ x.spool = q.spool
  \/ q.op = "get_part" /\ x.op \in {"revision", "insert_recipe"} /\ x.part = q.part
  \/ q.op = "owns_recipe" /\ x.op = "archive_recipe"
  \/ q.op = "may_badge" /\ x.op = "badge"

IsAsked(w) == Len(w) = 4 /\ Asks(w[1], w[3]) /\ w[2].op = "begin" /\ w[4].op = "end"

IsPair(w) ==
  /\ Len(w) = 4 /\ w[1].op = "begin" /\ w[4].op = "end"
  /\ w[2].op = "plate" /\ w[3].op = "write_piece"

AsksPair(q, x, y) ==
  \/ /\ q.op = "get_spool" /\ x.op = "clear" /\ y.op = "load"
     /\ y.spool = q.spool /\ y.printer = x.printer
  \/ /\ q.op = "owns_recipe" /\ x.op = "clear_default" /\ y.op = "set_default"
     /\ x.part = q.part /\ y.recipe = q.recipe

IsAskedPair(w) ==
  Len(w) = 5 /\ AsksPair(w[1], w[3], w[4]) /\ w[2].op = "begin" /\ w[5].op = "end"

IsClosing(w) ==
  /\ Len(w) = 7 /\ w[1].op = "begin" /\ w[2].op = "close"
  /\ w[3].op = "begin" /\ w[3].skip = 4 /\ w[4].op = "badge" /\ w[5].op = "event"
  /\ w[6].op = "end" /\ w[7].op = "end"

IsPlate(w) ==
  /\ Len(w) = Copies + 2 /\ w[1].op = "begin" /\ w[Copies + 2].op = "end"
  /\ \A i \in 1..Copies : w[i + 1].op = "piece" /\ w[i + 1].copy = i

IsMigration(w, c) ==
  /\ c.do = "migrate"
  /\ Len(w) = Statements + 3 /\ w[1].op = "begin"
  /\ \A n \in 1..Statements :
       w[n + 1].op = "create" /\ w[n + 1].table = Statements * (c.version - 1) + n
  /\ w[Statements + 2].op = "stamp" /\ w[Statements + 2].version = c.version
  /\ w[Statements + 3].op = "end"

Ordinary(w) ==
  IsLone(w) \/ IsAsked(w) \/ IsPair(w) \/ IsAskedPair(w) \/ IsClosing(w) \/ IsPlate(w)

\* w is what s has after its step a.
Within(s, a, w) == a + Len(w) <= Len(s) /\ \A k \in 1..Len(w) : s[a + k] = w[k]

Covers(s, a, w, p) == Within(s, a, w) /\ a < p /\ p <= a + Len(w)

\* Every block of s is part of an ordinary window.
Shaped(s) ==
  /\ s \in Seq(Instructions)
  /\ \A p \in 1..Len(s) : s[p].op = "begin" =>
       \E a \in Nat, w \in Seq(Instructions) : Ordinary(w) /\ Covers(s, a, w, p)

LEMMA WindowShaped ==
  ASSUME NEW w \in Seq(Instructions), Ordinary(w)
  PROVE  Shaped(w)
  <1> SUFFICES ASSUME NEW p \in 1..Len(w)
               PROVE  Covers(w, 0, w, p)
    BY DEF Shaped
  <1>1. PICK n \in Nat : n = Len(w)
    BY LenProperties
  <1>2. \A k \in 1..n : 0 + k = k
    OBVIOUS
  <1> QED
    BY <1>1, <1>2 DEF Covers, Within

LEMMA QueryShaped ==
  ASSUME NEW q \in Instructions, q.op \in Queries
  PROVE  Shaped(<<q>>)
  <1>1. <<q>> \in Seq(Instructions) /\ Len(<<q>>) = 1 /\ <<q>>[1] = q
    OBVIOUS
  <1>2. q.op # "begin"
    BY DEF Queries
  <1> QED
    BY <1>1, <1>2 DEF Shaped

LEMMA ConcatShaped ==
  ASSUME NEW s, NEW t, Shaped(s), Shaped(t)
  PROVE  Shaped(s \o t)
  <1>1. s \in Seq(Instructions) /\ t \in Seq(Instructions)
    BY DEF Shaped
  <1>2. PICK m \in Nat, n \in Nat : m = Len(s) /\ n = Len(t)
    BY <1>1, LenProperties
  <1> DEFINE u == s \o t
  <1>3. /\ u \in Seq(Instructions) /\ Len(u) = m + n
        /\ \A i \in 1..m : u[i] = s[i]
        /\ \A i \in 1..n : u[m + i] = t[i]
    BY <1>1, <1>2, ConcatProperties, Z3
  <1> HIDE DEF u
  <1>4. ASSUME NEW p \in 1..(m + n), u[p].op = "begin"
        PROVE  \E a \in Nat, w \in Seq(Instructions) : Ordinary(w) /\ Covers(u, a, w, p)
    <2>1. CASE p <= m
      <3>1. p \in 1..m /\ s[p].op = "begin"
        BY <2>1, <1>3, <1>4
      <3>2. PICK a \in Nat, w \in Seq(Instructions) : Ordinary(w) /\ Covers(s, a, w, p)
        BY <3>1, <1>2 DEF Shaped
      <3>3. PICK l \in Nat : l = Len(w)
        BY LenProperties
      <3>4. a + l <= m + n /\ \A k \in 1..l : a + k \in 1..m
        BY <3>2, <3>3, <1>2 DEF Covers, Within
      <3>5. \A k \in 1..l : u[a + k] = w[k]
        BY <3>2, <3>3, <3>4, <1>3 DEF Covers, Within
      <3> QED
        BY <3>2, <3>3, <3>4, <3>5, <1>3 DEF Covers, Within
    <2>2. CASE p > m
      <3>1. PICK o \in 1..n : p = m + o
        <4>1. p - m \in 1..n /\ p = m + (p - m)
          BY <2>2
        <4> QED
          BY <4>1
      <3>2. t[o].op = "begin"
        BY <3>1, <1>3, <1>4
      <3>3. PICK a \in Nat, w \in Seq(Instructions) : Ordinary(w) /\ Covers(t, a, w, o)
        BY <3>2, <1>2 DEF Shaped
      <3>4. PICK l \in Nat : l = Len(w)
        BY LenProperties
      <3>5. a + l <= n /\ \A k \in 1..l : a + k \in 1..n /\ (m + a) + k = m + (a + k)
        BY <3>3, <3>4, <1>2 DEF Covers, Within
      <3>6. \A k \in 1..l : u[(m + a) + k] = w[k]
        BY <3>3, <3>4, <3>5, <1>3 DEF Covers, Within
      <3>7. m + a \in Nat /\ (m + a) + l <= m + n /\ m + a < p /\ p <= (m + a) + l
        BY <3>1, <3>3, <3>4, <3>5 DEF Covers
      <3>8. Covers(u, m + a, w, p)
        BY <3>4, <3>6, <3>7, <1>3 DEF Covers, Within
      <3> QED
        BY <3>3, <3>7, <3>8
    <2> QED
      BY <2>1, <2>2
  <1> QED
    BY <1>3, <1>4 DEF Shaped, u

LEMMA ThreeSteps ==
  ASSUME NEW S, NEW u \in S, NEW v \in S, NEW w \in S
  PROVE  LET s == <<u>> \o <<v>> \o <<w>>
         IN s \in Seq(S) /\ Len(s) = 3 /\ s[1] = u /\ s[2] = v /\ s[3] = w
  OBVIOUS

LEMMA LoneShaped ==
  ASSUME NEW x \in Instructions, x.op \in Lone
  PROVE  Shaped(Block(<<x>>)) /\ Shaped(TryBlock(<<x>>))
  <1>1. ASSUME NEW skip \in {0, Len(<<x>>) + 2}
        PROVE  Shaped(<<[op |-> "begin", skip |-> skip]>> \o <<x>> \o <<[op |-> "end"]>>)
    <2> DEFINE b == [op |-> "begin", skip |-> skip]
               e == [op |-> "end"]
               w == <<b>> \o <<x>> \o <<e>>
    <2>1. b \in Instructions /\ e \in Instructions /\ b.op = "begin" /\ e.op = "end"
      BY DEF Instructions
    <2> HIDE DEF b, e
    <2>2. w \in Seq(Instructions) /\ Len(w) = 3 /\ w[1] = b /\ w[2] = x /\ w[3] = e
      BY <2>1, ThreeSteps
    <2> HIDE DEF w
    <2>3. Ordinary(w)
      BY <2>1, <2>2 DEF Ordinary, IsLone
    <2>4. Shaped(w)
      BY <2>2, <2>3, WindowShaped
    <2> QED
      BY <2>4 DEF w, b, e
  <1>2. 0 \in {0, Len(<<x>>) + 2} /\ Len(<<x>>) + 2 \in {0, Len(<<x>>) + 2}
    OBVIOUS
  <1> QED
    BY <1>1, <1>2 DEF Block, TryBlock

LEMMA FourSteps ==
  ASSUME NEW S, NEW u \in S, NEW v \in S, NEW w \in S, NEW x \in S
  PROVE  /\ LET s == <<u>> \o (<<v>> \o <<w>> \o <<x>>)
            IN s \in Seq(S) /\ Len(s) = 4 /\ s[1] = u /\ s[2] = v /\ s[3] = w /\ s[4] = x
         /\ LET s == <<u>> \o <<v, w>> \o <<x>>
            IN s \in Seq(S) /\ Len(s) = 4 /\ s[1] = u /\ s[2] = v /\ s[3] = w /\ s[4] = x
  <1> DEFINE r == <<v>> \o <<w>> \o <<x>>
  <1>1. r \in Seq(S) /\ Len(r) = 3 /\ r[1] = v /\ r[2] = w /\ r[3] = x
    BY ThreeSteps
  <1> HIDE DEF r
  <1> DEFINE a == <<u>>
             t == a \o r
  <1>2. a \in Seq(S) /\ Len(a) = 1 /\ a[1] = u
    OBVIOUS
  <1> HIDE DEF a
  <1>3. /\ t \in Seq(S) /\ Len(t) = Len(a) + Len(r)
        /\ \A i \in 1..(Len(a) + Len(r)) : t[i] = IF i <= Len(a) THEN a[i] ELSE r[i - Len(a)]
    BY <1>1, <1>2, ConcatProperties, ZenonT(60)
  <1> HIDE DEF t
  <1>4. /\ t \in Seq(S) /\ Len(t) = 4
        /\ t[1] = u /\ t[2] = v /\ t[3] = w /\ t[4] = x
    BY <1>1, <1>2, <1>3
  <1>5. LET s == <<u>> \o <<v, w>> \o <<x>>
        IN s \in Seq(S) /\ Len(s) = 4 /\ s[1] = u /\ s[2] = v /\ s[3] = w /\ s[4] = x
    OBVIOUS
  <1> QED
    BY <1>4, <1>5 DEF r, a, t

LEMMA AskedShaped ==
  ASSUME NEW q \in Instructions, NEW x \in Instructions, Asks(q, x)
  PROVE  Shaped(<<q>> \o Block(<<x>>))
  <1> DEFINE b == [op |-> "begin", skip |-> 0]
             e == [op |-> "end"]
             w == <<q>> \o (<<b>> \o <<x>> \o <<e>>)
  <1>1. b \in Instructions /\ e \in Instructions /\ b.op = "begin" /\ e.op = "end"
    BY DEF Instructions
  <1> HIDE DEF b, e
  <1>2. /\ w \in Seq(Instructions) /\ Len(w) = 4
        /\ w[1] = q /\ w[2] = b /\ w[3] = x /\ w[4] = e
    BY <1>1, FourSteps
  <1> HIDE DEF w
  <1>3. Ordinary(w)
    BY <1>1, <1>2 DEF Ordinary, IsAsked
  <1>4. Shaped(w)
    BY <1>2, <1>3, WindowShaped
  <1> QED
    BY <1>4 DEF w, b, e, Block

LEMMA AskedPairShaped ==
  ASSUME NEW q \in Instructions, NEW x \in Instructions, NEW y \in Instructions,
         AsksPair(q, x, y)
  PROVE  Shaped(<<q>> \o Block(<<x, y>>))
  <1> DEFINE b == [op |-> "begin", skip |-> 0]
             e == [op |-> "end"]
             w == <<q>> \o (<<b>> \o <<x, y>> \o <<e>>)
  <1>1. b \in Instructions /\ e \in Instructions /\ b.op = "begin" /\ e.op = "end"
    BY DEF Instructions
  <1> HIDE DEF b, e
  <1>2. /\ w \in Seq(Instructions) /\ Len(w) = 5
        /\ w[1] = q /\ w[2] = b /\ w[3] = x /\ w[4] = y /\ w[5] = e
    BY <1>1, Tuples
  <1> HIDE DEF w
  <1>3. Ordinary(w)
    BY <1>1, <1>2 DEF Ordinary, IsAskedPair
  <1>4. Shaped(w)
    BY <1>2, <1>3, WindowShaped
  <1> QED
    BY <1>4 DEF w, b, e, Block

LEMMA PairShaped ==
  ASSUME NEW x \in Instructions, NEW y \in Instructions,
         x.op = "plate", y.op = "write_piece"
  PROVE  Shaped(Block(<<x, y>>))
  <1> DEFINE b == [op |-> "begin", skip |-> 0]
             e == [op |-> "end"]
             w == <<b>> \o <<x, y>> \o <<e>>
  <1>1. b \in Instructions /\ e \in Instructions /\ b.op = "begin" /\ e.op = "end"
    BY DEF Instructions
  <1> HIDE DEF b, e
  <1>2. /\ w \in Seq(Instructions) /\ Len(w) = 4
        /\ w[1] = b /\ w[2] = x /\ w[3] = y /\ w[4] = e
    BY <1>1, FourSteps
  <1> HIDE DEF w
  <1>3. Ordinary(w)
    BY <1>1, <1>2 DEF Ordinary, IsPair
  <1>4. Shaped(w)
    BY <1>2, <1>3, WindowShaped
  <1> QED
    BY <1>4 DEF w, b, e, Block

LEMMA CreatePiecesShaped == Shaped(CreatePieces)
  <1> DEFINE b == [op |-> "begin", skip |-> 0]
             e == [op |-> "end"]
             c == [i \in 1..Copies |-> [op |-> "piece", copy |-> i]]
             w == <<b>> \o c \o <<e>>
  <1>1. b \in Instructions /\ e \in Instructions /\ b.op = "begin" /\ e.op = "end"
    BY DEF Instructions
  <1>2. c \in Seq(Instructions) /\ Len(c) = Copies
    <2>1. \A i \in 1..Copies : [op |-> "piece", copy |-> i] \in Instructions
      BY DEF Instructions
    <2> QED
      BY <2>1
  <1>3. \A i \in 1..Copies : c[i].op = "piece" /\ c[i].copy = i
    OBVIOUS
  <1>4. CreatePieces = w
    BY DEF CreatePieces, Block
  <1> HIDE DEF b, e, c
  <1>5. /\ w \in Seq(Instructions) /\ Len(w) = Copies + 2
        /\ w[1] = b /\ w[Copies + 2] = e
        /\ \A i \in 1..Copies : w[i + 1] = c[i]
    <2>1. <<b>> \in Seq(Instructions) /\ Len(<<b>>) = 1 /\ <<b>>[1] = b
      BY <1>1
    <2>2. <<e>> \in Seq(Instructions) /\ Len(<<e>>) = 1 /\ <<e>>[1] = e
      BY <1>1
    <2>3. /\ <<b>> \o c \in Seq(Instructions) /\ Len(<<b>> \o c) = 1 + Copies
          /\ (<<b>> \o c)[1] = b
          /\ \A i \in 1..Copies : (<<b>> \o c)[i + 1] = c[i]
      BY <2>1, <1>2, ConcatProperties, Z3
    <2> QED
      BY <2>2, <2>3, ConcatProperties, Z3
  <1> HIDE DEF w
  <1>6. Ordinary(w)
    BY <1>1, <1>3, <1>5 DEF Ordinary, IsPlate
  <1> QED
    BY <1>4, <1>5, <1>6, WindowShaped

LEMMA ClosingShaped ==
  ASSUME NEW verdict \in END_STATES, NEW g \in Badges, NEW u \in Uuids
  PROVE  Shaped(Block(<<[op |-> "close", verdict |-> verdict]>>
                        \o TryBlock(<<[op |-> "badge", badge |-> g],
                                      [op |-> "event", uuid |-> u]>>)))
  <1> DEFINE begin == [op |-> "begin", skip |-> 0]
             close == [op |-> "close", verdict |-> verdict]
             try == [op |-> "begin", skip |-> 4]
             badge == [op |-> "badge", badge |-> g]
             event == [op |-> "event", uuid |-> u]
             end == [op |-> "end"]
             inner == <<try>> \o <<badge, event>> \o <<end>>
             s == <<begin>> \o (<<close>> \o inner) \o <<end>>
  <1>1. /\ begin \in Instructions /\ close \in Instructions /\ try \in Instructions
        /\ badge \in Instructions /\ event \in Instructions /\ end \in Instructions
    BY DEF Instructions
  <1>2. /\ begin.op = "begin" /\ close.op = "close" /\ try.op = "begin" /\ try.skip = 4
        /\ badge.op = "badge" /\ event.op = "event" /\ end.op = "end"
    OBVIOUS
  <1>3. s = Block(<<close>> \o TryBlock(<<badge, event>>))
    <2>1. Len(<<badge, event>>) = 2
      OBVIOUS
    <2> HIDE DEF badge, event, close
    <2> QED
      BY <2>1 DEF Block, TryBlock
  <1> HIDE DEF begin, close, try, badge, event, end
  <1>4. /\ s \in Seq(Instructions) /\ Len(s) = 7
        /\ s[1] = begin /\ s[2] = close /\ s[3] = try /\ s[4] = badge
        /\ s[5] = event /\ s[6] = end /\ s[7] = end
    BY <1>1, NestedTuples
  <1> HIDE DEF s
  <1>5. Ordinary(s)
    BY <1>2, <1>4 DEF Ordinary, IsClosing
  <1>6. Shaped(s)
    BY <1>4, <1>5, WindowShaped
  <1> QED
    BY <1>3, <1>6 DEF close, badge, event

LEMMA SetDefaultShaped ==
  ASSUME NEW a \in Parts, NEW r \in Recipes
  PROVE  Shaped(SetDefaultRecipe(a, r))
  <1> DEFINE q == [op |-> "owns_recipe", part |-> a, recipe |-> r]
             x == [op |-> "clear_default", part |-> a]
             y == [op |-> "set_default", recipe |-> r]
  <1>1. q \in Instructions /\ x \in Instructions /\ y \in Instructions /\ AsksPair(q, x, y)
    BY DEF Instructions, AsksPair
  <1>2. SetDefaultRecipe(a, r) = <<q>> \o Block(<<x, y>>)
    BY DEF SetDefaultRecipe
  <1> HIDE DEF q, x, y
  <1> QED
    BY <1>1, <1>2, AskedPairShaped

---------------------------------------------------------------------------
(* The calls, from these parts.                                            *)

Proper(s) == Formed(s) /\ Shaped(s)

LEMMA ConcatProper ==
  ASSUME NEW s, NEW t, Proper(s), Proper(t)
  PROVE  Proper(s \o t)
  BY ConcatFormed, ConcatShaped DEF Proper

LEMMA QueryProper ==
  ASSUME NEW q \in Instructions, q.op \in Queries
  PROVE  Proper(<<q>>)
  BY QueryFormed, QueryShaped DEF Proper

LEMMA LoneProper ==
  ASSUME NEW x \in Instructions, x.op \in Lone
  PROVE  Proper(Block(<<x>>)) /\ Proper(TryBlock(<<x>>))
  <1>1. Plain(x)
    BY DEF Lone, Plain, Statement, Queries
  <1> QED
    BY <1>1, BlockOfOne, LoneShaped DEF Proper

LEMMA AskedProper ==
  ASSUME NEW q \in Instructions, NEW x \in Instructions, Asks(q, x)
  PROVE  Proper(<<q>> \o Block(<<x>>))
  <1>1. q.op \in Queries /\ Plain(x)
    BY DEF Asks, Plain, Statement, Queries
  <1>2. Formed(<<q>> \o Block(<<x>>))
    BY <1>1, QueryFormed, BlockOfOne, ConcatFormed
  <1> QED
    BY <1>2, AskedShaped DEF Proper

LEMMA PairProper ==
  ASSUME NEW x \in Instructions, NEW y \in Instructions,
         x.op = "plate", y.op = "write_piece"
  PROVE  Proper(Block(<<x, y>>))
  <1>1. Plain(x) /\ Plain(y)
    BY DEF Plain, Statement, Queries
  <1> QED
    BY <1>1, BlockOfTwo, PairShaped DEF Proper

LEMMA LoadProper ==
  ASSUME NEW p \in Printers, NEW s \in Spools
  PROVE  Proper(<<[op |-> "get_spool", spool |-> s]>> \o SetLoadedSpool(p, s))
  <1> DEFINE q == [op |-> "get_spool", spool |-> s]
             x == [op |-> "clear", printer |-> p]
             y == [op |-> "load", printer |-> p, spool |-> s]
  <1>1. /\ q \in Instructions /\ x \in Instructions /\ y \in Instructions
        /\ AsksPair(q, x, y) /\ q.op \in Queries
    BY DEF Instructions, AsksPair, Queries
  <1>2. SetLoadedSpool(p, s) = Block(<<x, y>>)
    BY DEF SetLoadedSpool, Load
  <1> HIDE DEF q, x, y
  <1>3. Formed(<<q>> \o SetLoadedSpool(p, s))
    BY <1>1, QueryFormed, LoadFormed, ConcatFormed
  <1>4. Shaped(<<q>> \o SetLoadedSpool(p, s))
    BY <1>1, <1>2, AskedPairShaped
  <1> QED
    BY <1>3, <1>4 DEF Proper, q

LEMMA ThenDefaultProper ==
  ASSUME NEW s, Proper(s), NEW a \in Parts, NEW r \in Recipes, NEW b \in BOOLEAN
  PROVE  Proper(s \o (IF b THEN SetDefaultRecipe(a, r) ELSE <<>>))
  <1>1. CASE b
    BY <1>1, SetDefaultFormed, SetDefaultShaped, ConcatProper DEF Proper
  <1>2. CASE ~b
    <2>1. s \in Seq(Instructions)
      BY DEF Proper, Shaped
    <2>2. s \o <<>> = s
      BY <2>1, ConcatEmptySeq
    <2> QED
      BY <1>2, <2>2
  <1> QED
    BY <1>1, <1>2

LEMMA SpoolStepsProper == \A c \in SpoolCalls : Proper(SpoolSteps(c))
  <1>1. ASSUME NEW c \in SpoolCalls, c.do = "create_spool"
        PROVE  Proper(SpoolSteps(c))
    <2> DEFINE x == [op |-> "insert_spool", spool |-> c.spool, status |-> c.status]
    <2>1. x \in Instructions /\ x.op \in Lone
      BY <1>1 DEF SpoolCalls, Instructions, Lone
    <2>2. SpoolSteps(c) = Block(<<x>>)
      BY <1>1 DEF SpoolSteps
    <2> HIDE DEF x
    <2> QED
      BY <2>1, <2>2, LoneProper
  <1>2. ASSUME NEW c \in SpoolCalls, c.do = "edit_spool"
        PROVE  Proper(SpoolSteps(c))
    <2> DEFINE q == [op |-> "get_spool", spool |-> c.spool]
               x == [op |-> "status", spool |-> c.spool, status |-> c.status]
    <2>1. q \in Instructions /\ x \in Instructions /\ Asks(q, x)
      BY <1>2 DEF SpoolCalls, Instructions, Asks
    <2>2. SpoolSteps(c) = <<q>> \o Block(<<x>>)
      BY <1>2 DEF SpoolSteps
    <2> HIDE DEF q, x
    <2> QED
      BY <2>1, <2>2, AskedProper
  <1>3. ASSUME NEW c \in SpoolCalls, c.do = "set_loaded_spool"
        PROVE  Proper(SpoolSteps(c))
    <2>1. /\ c.printer \in Printers /\ c.spool \in Spools
          /\ SpoolSteps(c) = <<[op |-> "get_spool", spool |-> c.spool]>>
                               \o SetLoadedSpool(c.printer, c.spool)
      BY <1>3 DEF SpoolCalls, SpoolSteps
    <2> QED
      BY <2>1, LoadProper
  <1>4. ASSUME NEW c \in SpoolCalls, c.do = "unload_spool"
        PROVE  Proper(SpoolSteps(c))
    <2> DEFINE x == [op |-> "clear", printer |-> c.printer]
    <2>1. x \in Instructions /\ x.op \in Lone
      BY <1>4 DEF SpoolCalls, Instructions, Lone
    <2>2. SpoolSteps(c) = Block(<<x>>)
      BY <1>4 DEF SpoolSteps
    <2> HIDE DEF x
    <2> QED
      BY <2>1, <2>2, LoneProper
  <1>5. \A c \in SpoolCalls :
          c.do \in {"create_spool", "edit_spool", "set_loaded_spool", "unload_spool"}
    BY DEF SpoolCalls
  <1> QED
    BY <1>1, <1>2, <1>3, <1>4, <1>5

LEMMA PartStepsProper == \A c \in PartCalls : Proper(PartSteps(c))
  <1>1. ASSUME NEW c \in PartCalls, c.do = "archive_spool"
        PROVE  Proper(PartSteps(c))
    <2> DEFINE x == [op |-> "archive_spool", spool |-> c.spool]
    <2>1. x \in Instructions /\ x.op \in Lone
      BY <1>1 DEF PartCalls, Instructions, Lone
    <2>2. PartSteps(c) = Block(<<x>>)
      BY <1>1 DEF PartSteps
    <2> HIDE DEF x
    <2> QED
      BY <2>1, <2>2, LoneProper
  <1>2. ASSUME NEW c \in PartCalls, c.do = "create_part"
        PROVE  Proper(PartSteps(c))
    <2> DEFINE x == [op |-> "insert_part", part |-> c.part, revision |-> c.revision]
    <2>1. x \in Instructions /\ x.op \in Lone
      BY <1>2 DEF PartCalls, Instructions, Lone
    <2>2. PartSteps(c) = Block(<<x>>)
      BY <1>2 DEF PartSteps
    <2> HIDE DEF x
    <2> QED
      BY <2>1, <2>2, LoneProper
  <1>3. ASSUME NEW c \in PartCalls, c.do = "edit_part"
        PROVE  Proper(PartSteps(c))
    <2> DEFINE q == [op |-> "get_part", part |-> c.part]
               x == [op |-> "revision", part |-> c.part, revision |-> c.revision]
    <2>1. q \in Instructions /\ x \in Instructions /\ Asks(q, x)
      BY <1>3 DEF PartCalls, Instructions, Asks
    <2>2. PartSteps(c) = <<q>> \o Block(<<x>>)
      BY <1>3 DEF PartSteps
    <2> HIDE DEF q, x
    <2> QED
      BY <2>1, <2>2, AskedProper
  <1>4. ASSUME NEW c \in PartCalls, c.do = "archive_part"
        PROVE  Proper(PartSteps(c))
    <2> DEFINE x == [op |-> "archive_part", part |-> c.part]
    <2>1. x \in Instructions /\ x.op \in Lone
      BY <1>4 DEF PartCalls, Instructions, Lone
    <2>2. PartSteps(c) = Block(<<x>>)
      BY <1>4 DEF PartSteps
    <2> HIDE DEF x
    <2> QED
      BY <2>1, <2>2, LoneProper
  <1>5. \A c \in PartCalls : c.do \in {"archive_spool", "create_part", "edit_part", "archive_part"}
    BY DEF PartCalls
  <1> QED
    BY <1>1, <1>2, <1>3, <1>4, <1>5

\* The second transaction, if the recipe is made the default.
LEMMA RecipeStepsProper == \A c \in RecipeCalls : Proper(RecipeSteps(c))
  <1>1. ASSUME NEW c \in RecipeCalls, c.do = "add_part_recipe"
        PROVE  Proper(RecipeSteps(c))
    <2> DEFINE q == [op |-> "get_part", part |-> c.part]
               x == [op |-> "insert_recipe", part |-> c.part, recipe |-> c.recipe]
    <2>1. q \in Instructions /\ x \in Instructions /\ Asks(q, x)
      BY <1>1 DEF RecipeCalls, Instructions, Asks
    <2>2. c.part \in Parts /\ c.recipe \in Recipes /\ c.is_default \in BOOLEAN
      BY <1>1 DEF RecipeCalls
    <2>3. RecipeSteps(c) = <<q>> \o Block(<<x>>)
                             \o (IF c.is_default THEN SetDefaultRecipe(c.part, c.recipe) ELSE <<>>)
      BY <1>1 DEF RecipeSteps
    <2> HIDE DEF q, x
    <2>4. Proper(<<q>> \o Block(<<x>>))
      BY <2>1, AskedProper
    <2> QED
      BY <2>2, <2>3, <2>4, ThenDefaultProper
  <1>2. ASSUME NEW c \in RecipeCalls, c.do = "edit_part_recipe"
        PROVE  Proper(RecipeSteps(c))
    <2> DEFINE q == [op |-> "owns_recipe", part |-> c.part, recipe |-> c.recipe]
    <2>1. q \in Instructions /\ q.op \in Queries
      BY <1>2 DEF RecipeCalls, Instructions, Queries
    <2>2. c.part \in Parts /\ c.recipe \in Recipes /\ c.is_default \in BOOLEAN
      BY <1>2 DEF RecipeCalls
    <2>3. RecipeSteps(c) = <<q>> \o (IF c.is_default THEN SetDefaultRecipe(c.part, c.recipe)
                                                       ELSE <<>>)
      BY <1>2 DEF RecipeSteps
    <2> HIDE DEF q
    <2>4. Proper(<<q>>)
      BY <2>1, QueryProper
    <2> QED
      BY <2>2, <2>3, <2>4, ThenDefaultProper
  <1>3. ASSUME NEW c \in RecipeCalls, c.do = "archive_part_recipe"
        PROVE  Proper(RecipeSteps(c))
    <2> DEFINE q == [op |-> "owns_recipe", part |-> c.part, recipe |-> c.recipe]
               x == [op |-> "archive_recipe", recipe |-> c.recipe]
    <2>1. q \in Instructions /\ x \in Instructions /\ Asks(q, x)
      BY <1>3 DEF RecipeCalls, Instructions, Asks
    <2>2. RecipeSteps(c) = <<q>> \o Block(<<x>>)
      BY <1>3 DEF RecipeSteps
    <2> HIDE DEF q, x
    <2> QED
      BY <2>1, <2>2, AskedProper
  <1>4. \A c \in RecipeCalls :
          c.do \in {"add_part_recipe", "edit_part_recipe", "archive_part_recipe"}
    BY DEF RecipeCalls
  <1> QED
    BY <1>1, <1>2, <1>3, <1>4

LEMMA PlateStepsProper == \A c \in PlateCalls : Proper(PlateSteps(c))
  <1>1. ASSUME NEW c \in PlateCalls, c.do = "end_run"
        PROVE  Proper(PlateSteps(c))
    <2> DEFINE x == [op |-> "close", verdict |-> c.verdict]
    <2>1. x \in Instructions /\ x.op \in Lone
      BY <1>1 DEF PlateCalls, Instructions, Lone
    <2>2. PlateSteps(c) = Block(<<x>>) \o CreatePieces
      BY <1>1 DEF PlateSteps
    <2> QED
      BY <2>1, <2>2, LoneProper, CreatePiecesFormed, CreatePiecesShaped, ConcatProper DEF Proper
  <1>2. ASSUME NEW c \in PlateCalls, c.do = "patch_piece"
        PROVE  Proper(PlateSteps(c))
    <2> DEFINE x == [op |-> "write_piece", copy |-> c.copy, status |-> c.status]
    <2>1. x \in Instructions /\ x.op \in Lone
      BY <1>2 DEF PlateCalls, Instructions, Lone
    <2>2. PlateSteps(c) = Block(<<x>>)
      BY <1>2 DEF PlateSteps
    <2> HIDE DEF x
    <2> QED
      BY <2>1, <2>2, LoneProper
  <1>3. ASSUME NEW c \in PlateCalls, c.do = "bulk_pieces"
        PROVE  Proper(PlateSteps(c))
    <2> DEFINE x == [op |-> "plate", status |-> c.status]
               y == [op |-> "write_piece", copy |-> c.copy, status |-> c.other]
    <2>1. x \in Instructions /\ y \in Instructions /\ x.op = "plate" /\ y.op = "write_piece"
      BY <1>3 DEF PlateCalls, Instructions
    <2>2. PlateSteps(c) = Block(<<x, y>>)
      BY <1>3 DEF PlateSteps
    <2> HIDE DEF x, y
    <2> QED
      BY <2>1, <2>2, PairProper
  <1>4. \A c \in PlateCalls : c.do \in {"end_run", "patch_piece", "bulk_pieces"}
    BY DEF PlateCalls
  <1> QED
    BY <1>1, <1>2, <1>3, <1>4

LEMMA RunStepsProper == \A c \in RunCalls : Proper(RunSteps(c))
  <1>1. ASSUME NEW c \in RunCalls, c.do = "patch_run"
        PROVE  Proper(RunSteps(c))
    <2> DEFINE x == [op |-> "verdict", verdict |-> c.verdict]
    <2>1. x \in Instructions /\ x.op \in Lone
      BY <1>1 DEF RunCalls, Instructions, Lone
    <2>2. RunSteps(c) = Block(<<x>>)
      BY <1>1 DEF RunSteps
    <2> HIDE DEF x
    <2> QED
      BY <2>1, <2>2, LoneProper
  <1>2. ASSUME NEW c \in RunCalls, c.do = "add_event"
        PROVE  Proper(RunSteps(c))
    <2> DEFINE x == [op |-> "event", uuid |-> c.uuid]
    <2>1. x \in Instructions /\ x.op \in Lone
      BY <1>2 DEF RunCalls, Instructions, Lone
    <2>2. RunSteps(c) = TryBlock(<<x>>)
      BY <1>2 DEF RunSteps, AddEvent
    <2> HIDE DEF x
    <2> QED
      BY <2>1, <2>2, LoneProper
  <1>3. ASSUME NEW c \in RunCalls, c.do = "close_with_event"
        PROVE  Proper(RunSteps(c))
    <2>1. c.verdict \in END_STATES /\ c.badge \in Badges /\ c.uuid \in Uuids
      BY <1>3 DEF RunCalls
    <2>2. RunSteps(c) = Block(<<[op |-> "close", verdict |-> c.verdict]>>
                                \o TryBlock(<<[op |-> "badge", badge |-> c.badge],
                                              [op |-> "event", uuid |-> c.uuid]>>))
      BY <1>3 DEF RunSteps
    <2> QED
      BY <2>1, <2>2, CloseWithEventFormed, ClosingShaped DEF Proper
  <1>4. ASSUME NEW c \in RunCalls, c.do = "add_run_badge"
        PROVE  Proper(RunSteps(c))
    <2> DEFINE q == [op |-> "may_badge", badge |-> c.badge, by |-> c.by]
               x == [op |-> "badge", badge |-> c.badge]
    <2>1. q \in Instructions /\ x \in Instructions /\ Asks(q, x)
      BY <1>4 DEF RunCalls, Instructions, Asks
    <2>2. RunSteps(c) = <<q>> \o Block(<<x>>)
      BY <1>4 DEF RunSteps
    <2> HIDE DEF q, x
    <2> QED
      BY <2>1, <2>2, AskedProper
  <1>5. ASSUME NEW c \in RunCalls, c.do = "remove_run_badge"
        PROVE  Proper(RunSteps(c))
    <2> DEFINE x == [op |-> "unbadge", badge |-> c.badge]
    <2>1. x \in Instructions /\ x.op \in Lone
      BY <1>5 DEF RunCalls, Instructions, Lone
    <2>2. RunSteps(c) = Block(<<x>>)
      BY <1>5 DEF RunSteps
    <2> HIDE DEF x
    <2> QED
      BY <2>1, <2>2, LoneProper
  <1>6. \A c \in RunCalls : c.do \in {"patch_run", "add_event", "close_with_event",
                                      "add_run_badge", "remove_run_badge"}
    BY DEF RunCalls
  <1> QED
    BY <1>1, <1>2, <1>3, <1>4, <1>5, <1>6

LEMMA BootStepsFormed == \A c \in BootCalls : Formed(BootSteps(c))
  <1>1. ASSUME NEW c \in BootCalls, c.do = "migrate"
        PROVE  Formed(BootSteps(c))
    <2>1. BootSteps(c) = MigrateTo(c.version) /\ c.version \in 1..Versions
      BY <1>1 DEF BootCalls, BootSteps
    <2> QED
      BY <2>1, MigrateFormed
  <1>2. ASSUME NEW c \in BootCalls, c.do = "seed_badges"
        PROVE  Formed(BootSteps(c))
    <2> DEFINE x == [op |-> "seed"]
    <2>1. x \in Instructions /\ Plain(x)
      BY DEF Instructions, Plain, Statement, Queries
    <2>2. BootSteps(c) = Block(<<x>>)
      BY <1>2 DEF BootSteps
    <2> QED
      BY <2>1, <2>2, BlockOfOne
  <1>3. \A c \in BootCalls : c.do \in {"migrate", "seed_badges"}
    BY DEF BootCalls
  <1> QED
    BY <1>1, <1>2, <1>3

\* The steps of a client's call.
LEMMA StepsProper == \A c \in Calls : Proper(Steps(c))
  <1>1. /\ \A c \in SpoolCalls :
             c.do \in {"create_spool", "edit_spool", "set_loaded_spool", "unload_spool"}
        /\ \A c \in PartCalls :
             c.do \in {"archive_spool", "create_part", "edit_part", "archive_part"}
        /\ \A c \in RecipeCalls :
             c.do \in {"add_part_recipe", "edit_part_recipe", "archive_part_recipe"}
        /\ \A c \in PlateCalls : c.do \in {"end_run", "patch_piece", "bulk_pieces"}
        /\ \A c \in RunCalls : c.do \in {"patch_run", "add_event", "close_with_event",
                                         "add_run_badge", "remove_run_badge"}
        /\ \A c \in BootCalls : c.do \in {"migrate", "seed_badges"}
    BY DEF SpoolCalls, PartCalls, RecipeCalls, PlateCalls, RunCalls, BootCalls
  <1>2. ASSUME NEW c \in SpoolCalls PROVE Proper(Steps(c))
    BY <1>1, SpoolStepsProper DEF Steps
  <1>3. ASSUME NEW c \in PartCalls PROVE Proper(Steps(c))
    BY <1>1, PartStepsProper DEF Steps
  <1>4. ASSUME NEW c \in RecipeCalls PROVE Proper(Steps(c))
    BY <1>1, RecipeStepsProper DEF Steps
  <1>5. ASSUME NEW c \in PlateCalls PROVE Proper(Steps(c))
    BY <1>1, PlateStepsProper DEF Steps
  <1>6. ASSUME NEW c \in RunCalls PROVE Proper(Steps(c))
    BY <1>1, RunStepsProper DEF Steps
  <1> QED
    BY <1>2, <1>3, <1>4, <1>5, <1>6 DEF Calls

LEMMA BootsAlone ==
  ASSUME NEW c \in BootCalls
  PROVE  /\ c \notin Calls /\ Steps(c) = BootSteps(c)
         /\ c.do = "migrate" => c.version \in 1..Versions
         /\ c.do \in {"migrate", "seed_badges"}
  <1>1. \A k \in Calls : k.do \notin {"migrate", "seed_badges"}
    BY DEF Calls, SpoolCalls, PartCalls, RecipeCalls, PlateCalls, RunCalls
  <1>2. c.do \in {"migrate", "seed_badges"} /\ (c.do = "migrate" => c.version \in 1..Versions)
    BY DEF BootCalls
  <1>3. c \notin Calls
    BY <1>1, <1>2
  <1> QED
    BY <1>2, <1>3 DEF Calls, Steps

\* The steps of every call are well formed.
LEMMA StepsFormed == \A c \in Calls \cup BootCalls : Formed(Steps(c))
  BY StepsProper, BootStepsFormed, BootsAlone DEF Proper

LEMMA SeedShaped == Shaped(Block(<<[op |-> "seed"]>>))
  <1> DEFINE x == [op |-> "seed"]
  <1>1. x \in Instructions /\ x.op \in Lone
    BY DEF Instructions, Lone
  <1> HIDE DEF x
  <1>2. Shaped(Block(<<x>>))
    BY <1>1, LoneShaped
  <1> QED
    BY <1>2 DEF x

---------------------------------------------------------------------------
(* Statements: each keeps the types, and one that is executed where        *)
(* WellPlaced says keeps the data sound.                                   *)

---------------------------------------------------------------------------
(* What statements do to the rows.                                         *)

LEMMA SpoolStatements ==
  ASSUME NEW db \in Database, NEW i \in Instructions,
         i.op \in {"insert_spool", "status", "clear", "load", "archive_spool"}
  PROVE  /\ Effect(i, db) \in Database
         /\ Effect(i, db) = [db EXCEPT !.spools = Effect(i, db).spools]
  <1>1. db.spools \in [Spools -> SpoolRow]
    BY DEF Database
  <1>2. ASSUME NEW f \in [Spools -> SpoolRow]
        PROVE  /\ [db EXCEPT !.spools = f] \in Database
               /\ [db EXCEPT !.spools = f].spools = f
    BY DEF Database
  <1>3. CASE i.op = "insert_spool"
    <2> DEFINE f == [db.spools EXCEPT ![i.spool] =
                       [status |-> i.status, printer_serial |-> NoPrinter, archived |-> FALSE]]
    <2>1. Effect(i, db) = [db EXCEPT !.spools = f]
      BY <1>3 DEF Effect, InsertSpool, Database
    <2>2. f \in [Spools -> SpoolRow]
      BY <1>1, <1>3 DEF Instructions, SpoolRow
    <2> HIDE DEF f
    <2> QED
      BY <2>1, <2>2, <1>2
  <1>4. CASE i.op = "status"
    <2> DEFINE f == [db.spools EXCEPT ![i.spool] = [@ EXCEPT !.status = i.status]]
    <2>1. Effect(i, db) = [db EXCEPT !.spools = f]
      BY <1>4 DEF Effect, WriteStatus, Database
    <2>2. f \in [Spools -> SpoolRow]
      BY <1>1, <1>4 DEF Instructions, SpoolRow
    <2> HIDE DEF f
    <2> QED
      BY <2>1, <2>2, <1>2
  <1>5. CASE i.op = "clear"
    <2> DEFINE f == [s \in Spools |->
                       IF db.spools[s].status = "in_use" /\ db.spools[s].printer_serial = i.printer
                         THEN [db.spools[s] EXCEPT !.status = "sealed", !.printer_serial = NoPrinter]
                         ELSE db.spools[s]]
    <2>1. Effect(i, db) = [db EXCEPT !.spools = f]
      BY <1>5 DEF Effect, ClearSpool
    <2>2. f \in [Spools -> SpoolRow]
      BY <1>1, ZenonT(60) DEF SpoolRow, SPOOL_FREE_STATUSES
    <2> HIDE DEF f
    <2> QED
      BY <2>1, <2>2, <1>2
  <1>6. CASE i.op = "load"
    <2> DEFINE row == db.spools[i.spool]
               half == [row EXCEPT !.status = "in_use"]
               whole == [half EXCEPT !.printer_serial = i.printer]
               f == [db.spools EXCEPT ![i.spool] = whole]
    <2>1. i.spool \in Spools /\ i.printer \in Printers
      BY <1>6 DEF Instructions
    <2>2. row \in SpoolRow
      BY <1>1, <2>1
    <2>3. half \in SpoolRow
      BY <2>2 DEF SpoolRow
    <2>4. whole \in SpoolRow
      BY <2>1, <2>3 DEF SpoolRow
    <2>5. f \in [Spools -> SpoolRow]
      BY <1>1, <2>1, <2>4
    <2>6. Effect(i, db) = [db EXCEPT !.spools = f]
      <3> DEFINE first == [db EXCEPT !.spools[i.spool].status = "in_use"]
      <3>1. /\ first = [db EXCEPT !.spools = [db.spools EXCEPT ![i.spool] = half]]
            /\ first.spools[i.spool] = half
        BY <1>1, <2>1 DEF Database
      <3>2. [first EXCEPT !.spools[i.spool].printer_serial = i.printer]
              = [db EXCEPT !.spools = f]
        BY <1>1, <2>1, <3>1, ZenonT(60) DEF Database
      <3> QED
        BY <1>6, <3>2 DEF Effect, LoadSpool
    <2> HIDE DEF f
    <2> QED
      BY <2>5, <2>6, <1>2
  <1>7. CASE i.op = "archive_spool"
    <2> DEFINE f == IF db.spools[i.spool].status = "none" THEN db.spools
                    ELSE [db.spools EXCEPT ![i.spool] = [@ EXCEPT !.archived = TRUE]]
    <2>1. Effect(i, db) = [db EXCEPT !.spools = f]
      BY <1>7 DEF Effect, ArchiveSpool, Database
    <2>2. f \in [Spools -> SpoolRow]
      <3>1. i.spool \in Spools
        BY <1>7 DEF Instructions
      <3>2. PICK row \in SpoolRow : row = db.spools[i.spool]
        BY <1>1, <3>1
      <3>3. [row EXCEPT !.archived = TRUE] \in SpoolRow
        BY DEF SpoolRow
      <3> QED
        BY <1>1, <3>1, <3>2, <3>3
    <2> HIDE DEF f
    <2> QED
      BY <2>1, <2>2, <1>2
  <1> QED
    BY <1>3, <1>4, <1>5, <1>6, <1>7

LEMMA PartStatements ==
  ASSUME NEW db \in Database, NEW i \in Instructions,
         i.op \in {"insert_part", "revision", "archive_part"}
  PROVE  /\ Effect(i, db) \in Database
         /\ Effect(i, db) = [db EXCEPT !.parts = Effect(i, db).parts]
  <1>1. db.parts \in [Parts -> PartRow]
    BY DEF Database
  <1>2. ASSUME NEW f \in [Parts -> PartRow]
        PROVE  /\ [db EXCEPT !.parts = f] \in Database
               /\ [db EXCEPT !.parts = f].parts = f
    BY DEF Database
  <1>3. CASE i.op = "insert_part"
    <2> DEFINE f == [db.parts EXCEPT ![i.part] = [revision |-> i.revision, archived |-> FALSE]]
    <2>1. Effect(i, db) = [db EXCEPT !.parts = f]
      BY <1>3 DEF Effect, InsertPart, Database
    <2>2. f \in [Parts -> PartRow]
      BY <1>1, <1>3 DEF Instructions, PartRow
    <2> HIDE DEF f
    <2> QED
      BY <2>1, <2>2, <1>2
  <1>4. CASE i.op = "revision"
    <2> DEFINE f == [db.parts EXCEPT ![i.part] = [@ EXCEPT !.revision = i.revision]]
    <2>1. Effect(i, db) = [db EXCEPT !.parts = f]
      BY <1>4 DEF Effect, WriteRevision, Database
    <2>2. f \in [Parts -> PartRow]
      BY <1>1, <1>4 DEF Instructions, PartRow
    <2> HIDE DEF f
    <2> QED
      BY <2>1, <2>2, <1>2
  <1>5. CASE i.op = "archive_part"
    <2> DEFINE f == IF db.parts[i.part].revision = None THEN db.parts
                    ELSE [db.parts EXCEPT ![i.part] = [@ EXCEPT !.archived = TRUE]]
    <2>1. Effect(i, db) = [db EXCEPT !.parts = f]
      BY <1>5 DEF Effect, ArchivePart, Database
    <2>2. f \in [Parts -> PartRow]
      BY <1>1, <1>5, ZenonT(60) DEF Instructions, PartRow
    <2> HIDE DEF f
    <2> QED
      BY <2>1, <2>2, <1>2
  <1> QED
    BY <1>3, <1>4, <1>5

LEMMA RecipeStatements ==
  ASSUME NEW db \in Database, NEW i \in Instructions,
         i.op \in {"insert_recipe", "clear_default", "set_default", "archive_recipe"}
  PROVE  /\ Effect(i, db) \in Database
         /\ Effect(i, db) = [db EXCEPT !.recipes = Effect(i, db).recipes]
  <1>1. db.recipes \in [Recipes -> RecipeRow]
    BY DEF Database
  <1>2. ASSUME NEW f \in [Recipes -> RecipeRow]
        PROVE  /\ [db EXCEPT !.recipes = f] \in Database
               /\ [db EXCEPT !.recipes = f].recipes = f
    BY DEF Database
  <1>3. CASE i.op = "insert_recipe"
    <2> DEFINE f == [db.recipes EXCEPT ![i.recipe] =
                       [part_id |-> i.part, is_default |-> FALSE, archived |-> FALSE]]
    <2>1. Effect(i, db) = [db EXCEPT !.recipes = f]
      BY <1>3 DEF Effect, InsertRecipe, Database
    <2>2. f \in [Recipes -> RecipeRow]
      BY <1>1, <1>3 DEF Instructions, RecipeRow
    <2> HIDE DEF f
    <2> QED
      BY <2>1, <2>2, <1>2
  <1>4. CASE i.op = "clear_default"
    <2> DEFINE f == [r \in Recipes |->
                       IF db.recipes[r].part_id = i.part
                         THEN [db.recipes[r] EXCEPT !.is_default = FALSE] ELSE db.recipes[r]]
    <2>1. Effect(i, db) = [db EXCEPT !.recipes = f]
      BY <1>4 DEF Effect, ClearDefault
    <2>2. f \in [Recipes -> RecipeRow]
      BY <1>1 DEF RecipeRow
    <2> HIDE DEF f
    <2> QED
      BY <2>1, <2>2, <1>2
  <1>5. CASE i.op = "set_default"
    <2> DEFINE f == [db.recipes EXCEPT ![i.recipe] = [@ EXCEPT !.is_default = TRUE]]
    <2>1. Effect(i, db) = [db EXCEPT !.recipes = f]
      BY <1>5 DEF Effect, SetDefault, Database
    <2>2. f \in [Recipes -> RecipeRow]
      BY <1>1, <1>5, ZenonT(60) DEF Instructions, RecipeRow
    <2> HIDE DEF f
    <2> QED
      BY <2>1, <2>2, <1>2
  <1>6. CASE i.op = "archive_recipe"
    <2> DEFINE f == [db.recipes EXCEPT ![i.recipe] = [@ EXCEPT !.archived = TRUE]]
    <2>1. Effect(i, db) = [db EXCEPT !.recipes = f]
      BY <1>6 DEF Effect, ArchiveRecipe, Database
    <2>2. f \in [Recipes -> RecipeRow]
      BY <1>1, <1>6, ZenonT(60) DEF Instructions, RecipeRow
    <2> HIDE DEF f
    <2> QED
      BY <2>1, <2>2, <1>2
  <1> QED
    BY <1>3, <1>4, <1>5, <1>6

LEMMA PlateStatements ==
  ASSUME NEW db \in Database, NEW i \in Instructions,
         i.op \in {"piece", "write_piece", "plate"}
  PROVE  /\ Effect(i, db) \in Database
         /\ Effect(i, db) = [db EXCEPT !.pieces = Effect(i, db).pieces]
  <1>1. db.pieces \in [1..Copies -> PIECE_STATUSES \cup {"none"}]
    BY DEF Database
  <1>2. ASSUME NEW f \in [1..Copies -> PIECE_STATUSES \cup {"none"}]
        PROVE  /\ [db EXCEPT !.pieces = f] \in Database
               /\ [db EXCEPT !.pieces = f].pieces = f
    BY DEF Database
  <1>3. CASE i.op = "piece"
    <2> DEFINE f == IF db.pieces[i.copy] = "none"
                      THEN [db.pieces EXCEPT ![i.copy] = "pending_inspection"] ELSE db.pieces
    <2>1. Effect(i, db) = [db EXCEPT !.pieces = f]
      BY <1>3 DEF Effect, InsertPiece, Database
    <2>2. f \in [1..Copies -> PIECE_STATUSES \cup {"none"}]
      BY <1>1, <1>3 DEF PIECE_STATUSES
    <2> HIDE DEF f
    <2> QED
      BY <2>1, <2>2, <1>2
  <1>4. CASE i.op = "write_piece"
    <2> DEFINE f == IF db.pieces[i.copy] = "none" THEN db.pieces
                    ELSE [db.pieces EXCEPT ![i.copy] = i.status]
    <2>1. Effect(i, db) = [db EXCEPT !.pieces = f]
      BY <1>4 DEF Effect, WritePiece, Database
    <2>2. f \in [1..Copies -> PIECE_STATUSES \cup {"none"}]
      BY <1>1, <1>4 DEF Instructions
    <2> HIDE DEF f
    <2> QED
      BY <2>1, <2>2, <1>2
  <1>5. CASE i.op = "plate"
    <2> DEFINE f == [j \in 1..Copies |-> IF db.pieces[j] = "none" THEN "none" ELSE i.status]
    <2>1. Effect(i, db) = [db EXCEPT !.pieces = f]
      BY <1>5 DEF Effect, WritePlate
    <2>2. f \in [1..Copies -> PIECE_STATUSES \cup {"none"}]
      BY <1>1, <1>5 DEF Instructions
    <2> HIDE DEF f
    <2> QED
      BY <2>1, <2>2, <1>2
  <1> QED
    BY <1>3, <1>4, <1>5

\* The rest.
LEMMA OtherStatements ==
  ASSUME NEW db \in Database, NEW i \in Instructions,
         i.op \in {"close", "verdict", "event", "badge", "unbadge", "create", "stamp", "seed"}
  PROVE  /\ Effect(i, db) \in Database
         /\ Effect(i, db).spools = db.spools /\ Effect(i, db).recipes = db.recipes
         /\ Effect(i, db).pieces = db.pieces
  <1>1. CASE i.op \in {"close", "verdict"}
    <2>1. i.verdict \in END_STATES
      BY <1>1 DEF Instructions
    <2> QED
      BY <1>1, <2>1, ZenonT(60) DEF Effect, CloseRun, WriteVerdict, Database
  <1>2. CASE i.op = "event"
    <2>1. i.uuid \in Uuids
      BY <1>2 DEF Instructions
    <2> QED
      BY <1>2, <2>1 DEF Effect, InsertEvent, Database
  <1>3. CASE i.op \in {"badge", "unbadge"}
    <2>1. i.badge \in Badges
      BY <1>3 DEF Instructions
    <2> QED
      BY <1>3, <2>1, ZenonT(60) DEF Effect, InsertBadge, DeleteBadge, Database
  <1>4. CASE i.op \in {"create", "stamp", "seed"}
    <2>1. /\ i.op = "create" => i.table \in Nat
          /\ i.op = "stamp" => i.version \in 0..Versions
      BY <1>4 DEF Instructions, Versions
    <2> QED
      BY <1>4, <2>1, ZenonT(60) DEF Effect, Database
  <1> QED
    BY <1>1, <1>2, <1>3, <1>4

LEMMA StatementOps ==
  ASSUME NEW i \in Instructions, Statement(i)
  PROVE  i.op \in {"insert_spool", "status", "clear", "load", "archive_spool",
                   "insert_part", "revision", "archive_part",
                   "insert_recipe", "clear_default", "set_default", "archive_recipe",
                   "piece", "write_piece", "plate",
                   "close", "verdict", "event", "badge", "unbadge", "create", "stamp", "seed"}
  BY DEF Instructions, Statement, Queries

LEMMA EffectTyped ==
  ASSUME NEW db \in Database, NEW i \in Instructions, Statement(i)
  PROVE  Effect(i, db) \in Database
  BY StatementOps, SpoolStatements, PartStatements, RecipeStatements, PlateStatements,
     OtherStatements

LEMMA OtherSpools ==
  ASSUME NEW db \in Database, NEW i \in Instructions, Statement(i),
         i.op \notin {"insert_spool", "status", "clear", "load", "archive_spool"}
  PROVE  Effect(i, db).spools = db.spools
  <1>1. CASE i.op \in {"insert_part", "revision", "archive_part"}
    <2>1. PICK f : Effect(i, db) = [db EXCEPT !.parts = f]
      BY <1>1, PartStatements
    <2> QED
      BY <2>1 DEF Database
  <1>2. CASE i.op \in {"insert_recipe", "clear_default", "set_default", "archive_recipe"}
    <2>1. PICK f : Effect(i, db) = [db EXCEPT !.recipes = f]
      BY <1>2, RecipeStatements
    <2> QED
      BY <2>1 DEF Database
  <1>3. CASE i.op \in {"piece", "write_piece", "plate"}
    <2>1. PICK f : Effect(i, db) = [db EXCEPT !.pieces = f]
      BY <1>3, PlateStatements
    <2> QED
      BY <2>1 DEF Database
  <1>4. CASE i.op \in {"close", "verdict", "event", "badge", "unbadge", "create", "stamp", "seed"}
    BY <1>4, OtherStatements
  <1> QED
    BY <1>1, <1>2, <1>3, <1>4, StatementOps

LEMMA OtherRecipes ==
  ASSUME NEW db \in Database, NEW i \in Instructions, Statement(i),
         i.op \notin {"insert_recipe", "clear_default", "set_default", "archive_recipe"}
  PROVE  Effect(i, db).recipes = db.recipes
  <1>1. CASE i.op \in {"insert_part", "revision", "archive_part"}
    <2>1. PICK f : Effect(i, db) = [db EXCEPT !.parts = f]
      BY <1>1, PartStatements
    <2> QED
      BY <2>1 DEF Database
  <1>2. CASE i.op \in {"insert_spool", "status", "clear", "load", "archive_spool"}
    <2>1. PICK f : Effect(i, db) = [db EXCEPT !.spools = f]
      BY <1>2, SpoolStatements
    <2> QED
      BY <2>1 DEF Database
  <1>3. CASE i.op \in {"piece", "write_piece", "plate"}
    <2>1. PICK f : Effect(i, db) = [db EXCEPT !.pieces = f]
      BY <1>3, PlateStatements
    <2> QED
      BY <2>1 DEF Database
  <1>4. CASE i.op \in {"close", "verdict", "event", "badge", "unbadge", "create", "stamp", "seed"}
    BY <1>4, OtherStatements
  <1> QED
    BY <1>1, <1>2, <1>3, <1>4, StatementOps

LEMMA OtherPieces ==
  ASSUME NEW db \in Database, NEW i \in Instructions, Statement(i),
         i.op \notin {"piece", "write_piece", "plate"}
  PROVE  Effect(i, db).pieces = db.pieces
  <1>1. CASE i.op \in {"insert_part", "revision", "archive_part"}
    <2>1. PICK f : Effect(i, db) = [db EXCEPT !.parts = f]
      BY <1>1, PartStatements
    <2> QED
      BY <2>1 DEF Database
  <1>2. CASE i.op \in {"insert_spool", "status", "clear", "load", "archive_spool"}
    <2>1. PICK f : Effect(i, db) = [db EXCEPT !.spools = f]
      BY <1>2, SpoolStatements
    <2> QED
      BY <2>1 DEF Database
  <1>3. CASE i.op \in {"insert_recipe", "clear_default", "set_default", "archive_recipe"}
    <2>1. PICK f : Effect(i, db) = [db EXCEPT !.recipes = f]
      BY <1>3, RecipeStatements
    <2> QED
      BY <2>1 DEF Database
  <1>4. CASE i.op \in {"close", "verdict", "event", "badge", "unbadge", "create", "stamp", "seed"}
    BY <1>4, OtherStatements
  <1> QED
    BY <1>1, <1>2, <1>3, <1>4, StatementOps

\* set_loaded_spool(): a spool is put in use on a printer that uses none.
LEMMA EffectSpools ==
  ASSUME NEW db \in Database, NEW i \in Instructions, Statement(i), SpoolsSound(db),
         i.op = "load" => Loaded(db, i.printer) = {}
  PROVE  /\ SpoolsSound(Effect(i, db))
         /\ i.op = "clear" => Loaded(Effect(i, db), i.printer) = {}
  <1> DEFINE e == Effect(i, db)
  <1>1. e \in Database /\ db.spools \in [Spools -> SpoolRow] /\ e.spools \in [Spools -> SpoolRow]
    BY EffectTyped DEF Database
  \* It is enough that no row is put in use, except one on a printer that uses none.
  <1>2. ASSUME \A s \in Spools : e.spools[s].status = "in_use" =>
                 /\ db.spools[s].status = "in_use"
                 /\ e.spools[s].printer_serial = db.spools[s].printer_serial
        PROVE  SpoolsSound(e)
    <2>1. \A p \in Printers : Loaded(e, p) \subseteq Loaded(db, p)
      BY <1>2 DEF Loaded
    <2>2. \A p \in Printers : AtMostOne(Loaded(e, p))
      BY <2>1 DEF SpoolsSound, AtMostOne
    <2> QED
      BY <1>2, <2>2 DEF SpoolsSound
  <1> HIDE DEF e
  <1>3. CASE i.op = "insert_spool"
    <2>1. i.spool \in Spools /\ i.status \in SPOOL_FREE_STATUSES
      BY <1>3 DEF Instructions
    <2>2. e.spools = [db.spools EXCEPT ![i.spool] =
                        [status |-> i.status, printer_serial |-> NoPrinter, archived |-> FALSE]]
      BY <1>3 DEF e, Effect, InsertSpool, Database
    <2> QED
      BY <1>1, <1>2, <1>3, <2>1, <2>2 DEF e, SPOOL_FREE_STATUSES
  <1>4. CASE i.op = "status"
    <2>1. i.spool \in Spools /\ i.status \in SPOOL_FREE_STATUSES
      BY <1>4 DEF Instructions
    <2>2. e.spools = [db.spools EXCEPT ![i.spool] = [@ EXCEPT !.status = i.status]]
      BY <1>4 DEF e, Effect, WriteStatus, Database
    <2>3. \A s \in Spools : /\ s # i.spool => e.spools[s] = db.spools[s]
                            /\ s = i.spool => e.spools[s].status = i.status
      BY <1>1, <2>1, <2>2 DEF SpoolRow
    <2>4. i.status # "in_use"
      BY <2>1 DEF SPOOL_FREE_STATUSES
    <2> QED
      BY <1>2, <1>4, <2>3, <2>4 DEF e
  <1>5. CASE i.op = "clear"
    <2>1. e.spools = [s \in Spools |->
                        IF db.spools[s].status = "in_use" /\ db.spools[s].printer_serial = i.printer
                          THEN [db.spools[s] EXCEPT !.status = "sealed",
                                                    !.printer_serial = NoPrinter]
                          ELSE db.spools[s]]
      BY <1>5, ZenonT(60) DEF e, Effect, ClearSpool, Database
    <2>2. \A s \in Spools :
            IF db.spools[s].status = "in_use" /\ db.spools[s].printer_serial = i.printer
              THEN e.spools[s].status = "sealed" ELSE e.spools[s] = db.spools[s]
      BY <1>1, <2>1, ZenonT(60) DEF SpoolRow
    <2>3. SpoolsSound(e)
      BY <1>2, <2>2 DEF e
    <2>4. Loaded(e, i.printer) = {}
      BY <2>2 DEF Loaded
    <2> QED
      BY <1>5, <2>3, <2>4 DEF e
  <1>6. CASE i.op = "load"
    <2>1. i.spool \in Spools /\ i.printer \in Printers
      BY <1>6 DEF Instructions
    <2>2. e = [[db EXCEPT !.spools[i.spool].status = "in_use"]
                 EXCEPT !.spools[i.spool].printer_serial = i.printer]
      BY <1>6 DEF e, Effect, LoadSpool
    <2>3. \A s \in Spools :
            /\ s # i.spool => e.spools[s] = db.spools[s]
            /\ s = i.spool => /\ e.spools[s].status = "in_use"
                              /\ e.spools[s].printer_serial = i.printer
      <3> DEFINE row == db.spools[i.spool]
                 half == [row EXCEPT !.status = "in_use"]
                 whole == [half EXCEPT !.printer_serial = i.printer]
                 first == [db EXCEPT !.spools[i.spool].status = "in_use"]
      <3>1. first.spools = [db.spools EXCEPT ![i.spool] = half] /\ first \in Database
        <4>1. half \in SpoolRow
          BY <1>1, <2>1 DEF SpoolRow
        <4> QED
          BY <4>1, <1>1, <2>1 DEF Database
      <3>2. e.spools = [first.spools EXCEPT ![i.spool] = [@ EXCEPT !.printer_serial = i.printer]]
        <4> HIDE DEF first
        <4> QED
          BY <2>2, <3>1 DEF Database, first
      <3>3. e.spools = [db.spools EXCEPT ![i.spool] = whole]
        BY <1>1, <2>1, <3>1, <3>2
      <3>4. whole.status = "in_use" /\ whole.printer_serial = i.printer
        BY <1>1, <2>1 DEF SpoolRow
      <3> HIDE DEF whole
      <3> QED
        BY <1>1, <2>1, <3>3, <3>4
    <2>4. Loaded(e, i.printer) = {i.spool}
      BY <1>6, <2>1, <2>3 DEF Loaded
    <2>5. \A p \in Printers : p # i.printer => Loaded(e, p) \subseteq Loaded(db, p)
      BY <2>3 DEF Loaded
    <2>6. \A p \in Printers : AtMostOne(Loaded(e, p))
      BY <2>4, <2>5 DEF AtMostOne, SpoolsSound
    <2>7. \A s \in Spools : e.spools[s].status = "in_use"
                              => e.spools[s].printer_serial \in Printers
      BY <2>1, <2>3 DEF SpoolsSound
    <2> QED
      BY <1>6, <2>6, <2>7 DEF SpoolsSound, e
  <1>7. CASE i.op = "archive_spool"
    <2>1. i.spool \in Spools
      BY <1>7 DEF Instructions
    <2>2. e.spools = db.spools
            \/ e.spools = [db.spools EXCEPT ![i.spool] = [@ EXCEPT !.archived = TRUE]]
      BY <1>7 DEF e, Effect, ArchiveSpool, Database
    <2>3. \A s \in Spools : /\ e.spools[s].status = db.spools[s].status
                            /\ e.spools[s].printer_serial = db.spools[s].printer_serial
      BY <1>1, <2>1, <2>2 DEF SpoolRow
    <2> QED
      BY <1>2, <1>7, <2>3 DEF e
  <1>8. CASE i.op \notin {"insert_spool", "status", "clear", "load", "archive_spool"}
    <2>1. e.spools = db.spools
      BY <1>8, OtherSpools DEF e
    <2> QED
      BY <1>2, <1>8, <2>1 DEF e
  <1> QED
    BY <1>3, <1>4, <1>5, <1>6, <1>7, <1>8

Owner(db, r) == db.recipes[r].part_id

\* set_default_recipe(): a recipe becomes the default of a part that has none.  And
\* a recipe keeps the part it belongs to.
LEMMA EffectDefaults ==
  ASSUME NEW db \in Database, NEW i \in Instructions, Statement(i), ~Violates(i, db),
         DefaultsSound(db),
         i.op = "set_default" => /\ Owner(db, i.recipe) \in Parts
                                 /\ Defaults(db, Owner(db, i.recipe)) = {}
  PROVE  /\ DefaultsSound(Effect(i, db))
         /\ i.op = "clear_default" => Defaults(Effect(i, db), i.part) = {}
         /\ \A r \in Recipes : Owner(db, r) # None => Owner(Effect(i, db), r) = Owner(db, r)
  <1> DEFINE e == Effect(i, db)
  <1>1. e \in Database /\ db.recipes \in [Recipes -> RecipeRow] /\ e.recipes \in [Recipes -> RecipeRow]
    BY EffectTyped DEF Database
  \* It is enough that no row becomes a default, except one of a part without any.
  <1>2. ASSUME \A r \in Recipes : e.recipes[r].is_default =>
                 /\ db.recipes[r].is_default
                 /\ e.recipes[r].part_id = db.recipes[r].part_id
        PROVE  DefaultsSound(e)
    <2>1. \A a \in Parts : Defaults(e, a) \subseteq Defaults(db, a)
      BY <1>2 DEF Defaults
    <2>2. \A a \in Parts : AtMostOne(Defaults(e, a))
      BY <2>1 DEF DefaultsSound, AtMostOne
    <2> QED
      BY <1>2, <2>2 DEF DefaultsSound
  <1> HIDE DEF e
  <1>3. CASE i.op = "insert_recipe"
    <2>1. i.recipe \in Recipes /\ i.part \in Parts /\ Owner(db, i.recipe) = None
      BY <1>3 DEF Instructions, Violates, Owner
    <2>2. e.recipes = [db.recipes EXCEPT ![i.recipe] =
                         [part_id |-> i.part, is_default |-> FALSE, archived |-> FALSE]]
      BY <1>3 DEF e, Effect, InsertRecipe, Database
    <2>3. \A r \in Recipes : IF r = i.recipe THEN e.recipes[r].is_default = FALSE
                                             ELSE e.recipes[r] = db.recipes[r]
      BY <1>1, <2>1, <2>2
    <2>4. DefaultsSound(e)
      BY <1>2, <2>3
    <2>5. \A r \in Recipes : Owner(db, r) # None => Owner(e, r) = Owner(db, r)
      BY <2>1, <2>3 DEF Owner
    <2> QED
      BY <1>3, <2>4, <2>5 DEF e
  <1>4. CASE i.op = "clear_default"
    <2>1. e.recipes = [r \in Recipes |->
                         IF db.recipes[r].part_id = i.part
                           THEN [db.recipes[r] EXCEPT !.is_default = FALSE] ELSE db.recipes[r]]
      BY <1>4 DEF e, Effect, ClearDefault, Database
    <2>2. \A r \in Recipes :
            /\ e.recipes[r].part_id = db.recipes[r].part_id
            /\ IF db.recipes[r].part_id = i.part THEN e.recipes[r].is_default = FALSE
                                                 ELSE e.recipes[r] = db.recipes[r]
      BY <1>1, <2>1 DEF RecipeRow
    <2>3. DefaultsSound(e)
      BY <1>2, <2>2
    <2>4. Defaults(e, i.part) = {}
      BY <2>2 DEF Defaults
    <2>5. \A r \in Recipes : Owner(e, r) = Owner(db, r)
      BY <2>2 DEF Owner
    <2> QED
      BY <1>4, <2>3, <2>4, <2>5 DEF e
  <1>5. CASE i.op = "set_default"
    <2>1. i.recipe \in Recipes
      BY <1>5 DEF Instructions
    <2>2. PICK a \in Parts : a = Owner(db, i.recipe) /\ Defaults(db, a) = {}
      BY <1>5
    <2>3. e.recipes = [db.recipes EXCEPT ![i.recipe] = [@ EXCEPT !.is_default = TRUE]]
      BY <1>5 DEF e, Effect, SetDefault, Database
    <2>4. \A r \in Recipes :
            /\ e.recipes[r].part_id = db.recipes[r].part_id
            /\ r # i.recipe => e.recipes[r] = db.recipes[r]
      BY <1>1, <2>1, <2>3 DEF RecipeRow
    <2>5. Defaults(e, a) \subseteq {i.recipe}
      BY <2>2, <2>4 DEF Defaults
    <2>6. \A b \in Parts : b # a => Defaults(e, b) \subseteq Defaults(db, b)
      BY <2>2, <2>4 DEF Defaults, Owner
    <2>7. \A b \in Parts : AtMostOne(Defaults(e, b))
      BY <2>5, <2>6 DEF AtMostOne, DefaultsSound
    <2>8. \A r \in Recipes : e.recipes[r].is_default => e.recipes[r].part_id \in Parts
      BY <2>2, <2>4 DEF DefaultsSound, Owner
    <2>9. DefaultsSound(e)
      BY <2>7, <2>8 DEF DefaultsSound
    <2>10. \A r \in Recipes : Owner(e, r) = Owner(db, r)
      BY <2>4 DEF Owner
    <2> QED
      BY <1>5, <2>9, <2>10 DEF e
  <1>6. CASE i.op = "archive_recipe"
    <2>1. i.recipe \in Recipes
      BY <1>6 DEF Instructions
    <2>2. e.recipes = [db.recipes EXCEPT ![i.recipe] = [@ EXCEPT !.archived = TRUE]]
      BY <1>6 DEF e, Effect, ArchiveRecipe, Database
    <2>3. \A r \in Recipes : /\ e.recipes[r].part_id = db.recipes[r].part_id
                             /\ e.recipes[r].is_default = db.recipes[r].is_default
      BY <1>1, <2>1, <2>2 DEF RecipeRow
    <2>4. DefaultsSound(e)
      BY <1>2, <2>3
    <2>5. \A r \in Recipes : Owner(e, r) = Owner(db, r)
      BY <2>3 DEF Owner
    <2> QED
      BY <1>6, <2>4, <2>5 DEF e
  <1>7. CASE i.op \notin {"insert_recipe", "clear_default", "set_default", "archive_recipe"}
    <2>1. e.recipes = db.recipes
      BY <1>7, OtherRecipes DEF e
    <2>2. DefaultsSound(e)
      BY <1>2, <2>1
    <2>3. \A r \in Recipes : Owner(e, r) = Owner(db, r)
      BY <2>1 DEF Owner
    <2> QED
      BY <1>7, <2>2, <2>3 DEF e
  <1> QED
    BY <1>3, <1>4, <1>5, <1>6, <1>7

\* Copies 1 to n - 1 are there, and of the others all or none.
PlatePartial(db, n) ==
  /\ \A i \in 1..Copies : i < n => db.pieces[i] # "none"
  /\ \A i, j \in 1..Copies : i >= n /\ j >= n => (db.pieces[i] = "none" <=> db.pieces[j] = "none")

\* create_pieces(): one more copy is there.  Other statements create none.
LEMMA EffectPlate ==
  ASSUME NEW db \in Database, NEW i \in Instructions, Statement(i)
  PROVE  /\ i.op = "piece" /\ PlatePartial(db, i.copy) => PlatePartial(Effect(i, db), i.copy + 1)
         /\ i.op # "piece" /\ PlateSound(db) => PlateSound(Effect(i, db))
  <1> DEFINE e == Effect(i, db)
  <1>1. db.pieces \in [1..Copies -> PIECE_STATUSES \cup {"none"}]
    BY DEF Database
  <1>2. "none" \notin PIECE_STATUSES /\ "pending_inspection" # "none"
    BY DEF PIECE_STATUSES
  <1> HIDE DEF e
  <1>3. CASE i.op = "piece"
    <2>1. i.copy \in 1..Copies
      BY <1>3 DEF Instructions
    <2>2. IF db.pieces[i.copy] = "none"
            THEN e.pieces = [db.pieces EXCEPT ![i.copy] = "pending_inspection"]
            ELSE e.pieces = db.pieces
      BY <1>3 DEF e, Effect, InsertPiece, Database
    <2>3. \A j \in 1..Copies : /\ j # i.copy => e.pieces[j] = db.pieces[j]
                               /\ j = i.copy => e.pieces[j] # "none"
      BY <1>1, <1>2, <2>1, <2>2
    <2>4. ASSUME PlatePartial(db, i.copy)
          PROVE  PlatePartial(e, i.copy + 1)
      <3>1. \A j \in 1..Copies : j < i.copy + 1 => e.pieces[j] # "none"
        BY <2>1, <2>3, <2>4 DEF PlatePartial
      <3>2. \A j \in 1..Copies : j >= i.copy + 1 => j >= i.copy /\ e.pieces[j] = db.pieces[j]
        BY <2>1, <2>3
      <3> QED
        BY <3>1, <3>2, <2>4 DEF PlatePartial
    <2> QED
      BY <1>3, <2>4 DEF e
  <1>4. CASE i.op = "write_piece"
    <2>1. i.copy \in 1..Copies /\ i.status \in PIECE_STATUSES
      BY <1>4 DEF Instructions
    <2>2. IF db.pieces[i.copy] = "none" THEN e.pieces = db.pieces
          ELSE e.pieces = [db.pieces EXCEPT ![i.copy] = i.status]
      BY <1>4 DEF e, Effect, WritePiece, Database
    <2>3. \A j \in 1..Copies : e.pieces[j] = "none" <=> db.pieces[j] = "none"
      BY <1>1, <1>2, <2>1, <2>2
    <2> QED
      BY <1>4, <2>3 DEF e, PlateSound
  <1>5. CASE i.op = "plate"
    <2>1. i.status \in PIECE_STATUSES
      BY <1>5 DEF Instructions
    <2>2. e.pieces = [j \in 1..Copies |-> IF db.pieces[j] = "none" THEN "none" ELSE i.status]
      BY <1>5 DEF e, Effect, WritePlate, Database
    <2>3. \A j \in 1..Copies : e.pieces[j] = "none" <=> db.pieces[j] = "none"
      BY <1>2, <2>1, <2>2
    <2> QED
      BY <1>5, <2>3 DEF e, PlateSound
  <1>6. CASE i.op \notin {"piece", "write_piece", "plate"}
    <2>1. e.pieces = db.pieces
      BY <1>6, OtherPieces DEF e
    <2> QED
      BY <1>6, <2>1 DEF e, PlateSound
  <1> QED
    BY <1>3, <1>4, <1>5, <1>6

---------------------------------------------------------------------------
(* The threads that execute the calls.                                     *)

HIDE RowsAssumption
LEMMA BoundsAssumed == NoThread \notin Threads /\ Main \in Threads /\ MaxFaults \in Nat
  BY LedgerAssumption

USE BoundsAssumed

\* The blocks open before each step of a call.
Depth(c) == CHOOSE d \in [1..(Len(Steps(c)) + 1) -> Nat] : WellFormed(Steps(c), d)

Busy(t) == thread[t].call # Nothing

\* Where thread t is: in a call, at one of its steps, with the lock if it is in a
\* block, and then with as many blocks open as its steps have opened.
Placed(t) ==
  LET s == Steps(thread[t].call)
      d == Depth(thread[t].call)
      pc == thread[t].pc
   IN /\ thread[t] = Idle \/ thread[t].call \in Calls \cup BootCalls
      /\ Busy(t) => pc \in 1..Len(s)
      /\ thread[t].raising # "no" => lock = t
      /\ lock # t /\ Busy(t) => d[pc] = 0
      /\ lock = t =>
           /\ Busy(t)
           /\ thread[t].raising = "no" => d[pc] = Len(blocks)
           /\ \A k \in 1..Len(blocks) :
                blocks[k].pc \in 1..Len(s) /\ s[blocks[k].pc].op = "begin"
                  /\ d[blocks[k].pc] = k - 1

Locking == lock = NoThread <=> blocks = <<>>

\* saves[k] is what block k found, and the outermost block found what is committed.
Saved ==
  /\ blocks # <<>> =>
       /\ Len(saves) = Len(blocks) /\ saves[1] = disk
       /\ \A k \in 1..Len(blocks) : saves[k] = blocks[k].entry
  /\ blocks = <<>> /\ saves = <<>> => work = disk

Booting ==
  /\ server # "up" => \A t \in Threads \ {Main} : thread[t] = Idle
  /\ server \in {"down", "unusable"} => thread[Main] = Idle

Shape == TypeOK /\ (\A t \in Threads : Placed(t)) /\ Locking /\ Saved /\ Booting

---------------------------------------------------------------------------
LEMMA NothingIsNoCall == Nothing \notin Calls \cup BootCalls
  <1>1. \A c \in Calls \cup BootCalls : c.do # "nothing"
    BY DEF Calls, SpoolCalls, PartCalls, RecipeCalls, PlateCalls, RunCalls, BootCalls
  <1> QED
    BY <1>1 DEF Nothing

LEMMA GroupsAreCalls == \A g \in DOMAIN Group : Group[g] \subseteq Calls
  BY DEF Group, Calls

LEMMA CallFormed ==
  ASSUME NEW c \in Calls \cup BootCalls
  PROVE  WellFormed(Steps(c), Depth(c))
  <1>1. \E d \in [1..(Len(Steps(c)) + 1) -> Nat] : WellFormed(Steps(c), d)
    BY StepsFormed DEF Formed
  <1> QED
    BY <1>1 DEF Depth

\* A step of a call, its place and the place of the next one.
LEMMA CallStep ==
  ASSUME NEW c \in Calls \cup BootCalls, NEW i \in 1..Len(Steps(c))
  PROVE  /\ Steps(c)[i] \in Instructions
         /\ WellPlaced(Steps(c), Depth(c), i)
         /\ Depth(c)[i] \in Nat /\ Depth(c)[i + 1] \in Nat
         /\ i \in Nat /\ i + 1 \in Nat /\ i + 1 \in 1..(Len(Steps(c)) + 1)
         /\ Len(Steps(c)) \in Nat /\ Len(Steps(c)) > 0
         /\ Depth(c)[1] = 0 /\ Depth(c)[Len(Steps(c)) + 1] = 0
  <1>1. PICK s \in Seq(Instructions) : s = Steps(c)
    BY CallFormed DEF WellFormed
  <1>2. PICK d \in [1..(Len(s) + 1) -> Nat] : d = Depth(c) /\ WellFormed(s, d)
    BY <1>1, CallFormed DEF WellFormed
  <1>3. PICK n \in Nat : n = Len(s)
    BY <1>1, LenProperties
  <1>4. i \in 1..n
    BY <1>1, <1>3
  <1>5. i \in Nat /\ i + 1 \in Nat /\ i \in 1..(n + 1) /\ i + 1 \in 1..(n + 1)
    BY <1>4
  <1>6. s[i] \in Instructions
    BY <1>1, <1>3, <1>4, ElementOfSeq
  <1>7. WellPlaced(s, d, i) /\ n > 0 /\ d[1] = 0 /\ d[n + 1] = 0
    BY <1>2, <1>3, <1>4 DEF WellFormed
  <1> QED
    BY <1>1, <1>2, <1>3, <1>5, <1>6, <1>7

LEMMA FirstStep ==
  ASSUME NEW c \in Calls \cup BootCalls
  PROVE  /\ Len(Steps(c)) \in Nat /\ 1 \in 1..Len(Steps(c))
         /\ Depth(c)[1] = 0
  <1>1. Steps(c) \in Seq(Instructions) /\ Len(Steps(c)) > 0 /\ Depth(c)[1] = 0
    BY CallFormed DEF WellFormed
  <1>2. Len(Steps(c)) \in Nat
    BY <1>1, LenProperties
  <1> QED
    BY <1>1, <1>2

\* What is on top of a stack, and the rest of it.
LEMMA Stacks ==
  ASSUME NEW S, NEW s \in Seq(S), s # <<>>
  PROVE  /\ Len(s) \in Nat \ {0}
         /\ Top(s) = s[Len(s)] /\ Top(s) \in S
         /\ Pop(s) \in Seq(S) /\ Len(Pop(s)) = Len(s) - 1
         /\ \A i \in 1..(Len(s) - 1) : Pop(s)[i] = s[i]
         /\ Pop(s) = <<>> <=> Len(s) = 1
  <1>1. PICK n \in Nat : n = Len(s)
    BY LenProperties
  <1>2. n # 0
    BY <1>1, EmptySeq
  <1>3. /\ Pop(s) \in Seq(S) /\ Len(Pop(s)) = n - 1
        /\ \A i \in 1..(n - 1) : Pop(s)[i] = s[i]
    BY <1>1, <1>2 DEF Pop
  <1>4. Top(s) = s[n] /\ Top(s) \in S
    BY <1>1, <1>2, ElementOfSeq DEF Top
  <1>5. Pop(s) = <<>> <=> n = 1
    BY <1>2, <1>3, EmptySeq
  <1> QED
    BY <1>1, <1>2, <1>3, <1>4, <1>5

LEMMA Growth ==
  ASSUME NEW S, NEW s \in Seq(S), NEW x \in S
  PROVE  /\ Len(s) \in Nat
         /\ Append(s, x) \in Seq(S) /\ Append(s, x) # <<>>
         /\ Len(Append(s, x)) = Len(s) + 1 /\ Append(s, x)[Len(s) + 1] = x
         /\ \A i \in 1..Len(s) : Append(s, x)[i] = s[i]
  BY AppendProperties, LenProperties

\* The same for the sequence that a step leaves behind.
LEMMA GrowthAfter ==
  ASSUME NEW S, NEW s \in Seq(S), NEW x \in S, NEW r, r = Append(s, x)
  PROVE  /\ r \in Seq(S) /\ r # <<>>
         /\ Len(s) \in Nat /\ Len(r) = Len(s) + 1 /\ r[Len(s) + 1] = x
         /\ \A i \in 1..Len(s) : r[i] = s[i]
  BY Growth

LEMMA RunningStep ==
  ASSUME Shape, NEW t \in Threads, Running(t)
  PROVE  /\ thread[t].call \in Calls \cup BootCalls
         /\ thread[t].pc \in 1..Len(Steps(thread[t].call))
         /\ Step(t) \in Instructions
         /\ WellPlaced(Steps(thread[t].call), Depth(thread[t].call), thread[t].pc)
  <1>1. Placed(t) /\ Busy(t)
    BY DEF Shape, Running, Busy
  <1>2. thread[t].call \in Calls \cup BootCalls /\ thread[t].pc \in 1..Len(Steps(thread[t].call))
    BY <1>1 DEF Placed, Idle, Busy
  <1> QED
    BY <1>2, CallStep DEF Step

\* t goes on at step p.
LEMMA Continues ==
  ASSUME TypeOK, NEW t \in Threads, thread[t].call \in Calls \cup BootCalls,
         NEW p \in 1..(Len(Steps(thread[t].call)) + 1), Continue(t, p)
  PROVE  /\ thread' \in [Threads -> Calling]
         /\ \A u \in Threads \ {t} : thread'[u] = thread[u]
         /\ p = Len(Steps(thread[t].call)) + 1 => thread'[t] = Idle
         /\ p # Len(Steps(thread[t].call)) + 1 =>
              /\ thread'[t] = [call |-> thread[t].call, pc |-> p, raising |-> "no"]
              /\ p \in 1..Len(Steps(thread[t].call))
  <1>1. PICK n \in Nat : n = Len(Steps(thread[t].call))
    BY FirstStep
  <1>2. p > n <=> p = n + 1
    BY <1>1
  <1>3. p # n + 1 => p \in 1..n
    BY <1>1
  <1> DEFINE next == IF p = n + 1 THEN Idle
                     ELSE [call |-> thread[t].call, pc |-> p, raising |-> "no"]
  <1>4. thread' = [thread EXCEPT ![t] = next]
    BY <1>1, <1>2 DEF Continue
  <1>5. thread \in [Threads -> Calling]
    BY DEF TypeOK
  <1>6. next \in Calling
    BY <1>1 DEF Calling, Idle
  <1> HIDE DEF next
  <1>7. thread' \in [Threads -> Calling] /\ thread'[t] = next
        /\ \A u \in Threads \ {t} : thread'[u] = thread[u]
    BY <1>4, <1>5, <1>6
  <1> QED
    BY <1>1, <1>3, <1>7 DEF next

\* A thread that neither has the lock nor gets it is where it was.
LEMMA OthersPlaced ==
  ASSUME Shape, NEW t \in Threads, lock \in {NoThread, t}, lock' \in {NoThread, t},
         \A u \in Threads \ {t} : thread'[u] = thread[u]
  PROVE  \A u \in Threads \ {t} : Placed(u)'
  <1> SUFFICES ASSUME NEW u \in Threads \ {t} PROVE Placed(u)'
    OBVIOUS
  <1>1. Placed(u) /\ lock # u /\ lock' # u /\ thread'[u] = thread[u]
    BY DEF Shape
  <1> QED
    BY <1>1 DEF Placed, Busy

LEMMA IdlePlaced ==
  ASSUME NEW t \in Threads, thread'[t] = Idle, lock' # t
  PROVE  Placed(t)'
  BY DEF Placed, Busy, Idle

\* t is at step p of its call, in a block or not.
LEMMA GoesOn ==
  ASSUME NEW t \in Threads, NEW c \in Calls \cup BootCalls, NEW p \in 1..(Len(Steps(c)) + 1),
         p = Len(Steps(c)) + 1 => thread'[t] = Idle,
         p # Len(Steps(c)) + 1 =>
           thread'[t] = [call |-> c, pc |-> p, raising |-> "no"] /\ p \in 1..Len(Steps(c)),
         lock' # t => Depth(c)[p] = 0,
         lock' = t =>
           /\ Depth(c)[p] = Len(blocks') /\ Len(blocks') \in Nat \ {0}
           /\ \A k \in 1..Len(blocks') :
                /\ blocks'[k].pc \in 1..Len(Steps(c)) /\ Steps(c)[blocks'[k].pc].op = "begin"
                /\ Depth(c)[blocks'[k].pc] = k - 1
  PROVE  Placed(t)'
  <1>1. CASE p = Len(Steps(c)) + 1
    <2>1. Depth(c)[p] = 0
      BY <1>1, CallStep, FirstStep
    <2>2. lock' # t
      BY <2>1
    <2> QED
      BY <1>1, <2>2, IdlePlaced
  <1>2. CASE p # Len(Steps(c)) + 1
    <2>1. thread'[t].call = c /\ thread'[t].pc = p /\ thread'[t].raising = "no" /\ c # Nothing
      BY <1>2, NothingIsNoCall
    <2> QED
      BY <1>2, <2>1 DEF Placed, Busy
  <1> QED
    BY <1>1, <1>2

LEMMA Abandons ==
  ASSUME Shape, NEW t \in Threads, Abandon(t)
  PROVE  /\ thread' \in [Threads -> Calling] /\ thread'[t] = Idle
         /\ \A u \in Threads \ {t} : thread'[u] = thread[u]
         /\ server' \in {"down", "unusable", "guarded", "fresh", "seeding", "up"}
         /\ Booting'
  <1>1. thread \in [Threads -> Calling]
          /\ server \in {"down", "unusable", "guarded", "fresh", "seeding", "up"}
    BY DEF Shape, TypeOK
  <1>2. Idle \in Calling
    BY DEF Idle, Calling
  <1>3. /\ thread' \in [Threads -> Calling] /\ thread'[t] = Idle
        /\ \A u \in Threads \ {t} : thread'[u] = thread[u]
    BY <1>1, <1>2 DEF Abandon
  <1>4. IF t = Main /\ server # "up" THEN server' \in {"unusable", "down"} ELSE server' = server
    BY DEF Abandon
  <1>5. Booting'
    BY <1>3, <1>4 DEF Shape, Booting
  <1> QED
    BY <1>1, <1>3, <1>4, <1>5

\* A thread in a call goes on: the boot stays in its phase.
LEMMA GoesOnBooting ==
  ASSUME Shape, NEW t \in Threads, Busy(t), server' = server,
         \A u \in Threads \ {t} : thread'[u] = thread[u]
  PROVE  Booting'
  <1>1. thread[t] # Idle
    BY DEF Busy, Idle
  <1> QED
    BY <1>1 DEF Shape, Booting

LEMMA QueryShape ==
  ASSUME Shape, NEW t \in Threads, Query(t)
  PROVE  Shape'
  <1> DEFINE c == thread[t].call
             i == thread[t].pc
  <1>1. /\ c \in Calls \cup BootCalls /\ i \in 1..Len(Steps(c))
        /\ WellPlaced(Steps(c), Depth(c), i) /\ Step(t) = Steps(c)[i]
    BY RunningStep DEF Query, Step
  <1>2. i + 1 \in 1..(Len(Steps(c)) + 1)
    BY <1>1, CallStep
  <1>3. Depth(c)[i] = 0 /\ Depth(c)[i + 1] = 0
    BY <1>1 DEF WellPlaced, Nested, Query
  <1>4. lock \in {NoThread, t}
    BY DEF Query, MayLock
  <1>5. lock = NoThread
    <2>1. ASSUME lock = t PROVE FALSE
      <3>1. Len(blocks) = 0
        BY <2>1, <1>3 DEF Shape, Placed, Query, Running
      <3>2. blocks = <<>>
        BY <3>1, EmptySeq DEF Shape, TypeOK
      <3> QED
        BY <2>1, <3>2 DEF Shape, Locking
    <2> QED
      BY <2>1, <1>4
  <1>6. UNCHANGED <<file, conn, bounds>> /\ lock' = lock /\ blocks' = blocks
    BY DEF Query, conn
  <1>7. /\ thread' \in [Threads -> Calling]
        /\ \A u \in Threads \ {t} : thread'[u] = thread[u]
        /\ server' \in {"down", "unusable", "guarded", "fresh", "seeding", "up"}
        /\ Booting' /\ Placed(t)'
    <2>1. CASE Answer(Step(t), work)
      <3>1. Continue(t, i + 1) /\ server' = server
        BY <2>1 DEF Query
      <3>2. /\ thread' \in [Threads -> Calling]
            /\ \A u \in Threads \ {t} : thread'[u] = thread[u]
            /\ i + 1 = Len(Steps(c)) + 1 => thread'[t] = Idle
            /\ i + 1 # Len(Steps(c)) + 1 =>
                 /\ thread'[t] = [call |-> c, pc |-> i + 1, raising |-> "no"]
                 /\ i + 1 \in 1..Len(Steps(c))
        BY <3>1, <1>1, <1>2, Continues DEF Shape
      <3>3. lock' # t
        BY <1>5, <1>6
      <3> HIDE DEF i, c
      <3>4. Placed(t)'
        BY <1>1, <1>2, <1>3, <3>2, <3>3, GoesOn
      <3>5. Booting'
        BY <3>1, <3>2, GoesOnBooting DEF Query, Running, Busy
      <3> QED
        BY <3>1, <3>2, <3>4, <3>5 DEF Shape, TypeOK
    <2>2. CASE ~Answer(Step(t), work)
      <3>1. Abandon(t)
        BY <2>2 DEF Query
      <3> QED
        BY <3>1, <1>5, <1>6, Abandons, IdlePlaced
    <2> QED
      BY <2>1, <2>2
  <1>8. TypeOK'
    BY <1>6, <1>7 DEF Shape, TypeOK, file, conn, bounds
  <1>9. Locking' /\ Saved'
    BY <1>6 DEF Shape, Locking, Saved, file, conn
  <1>10. \A u \in Threads : Placed(u)'
    BY <1>4, <1>6, <1>7, OthersPlaced
  <1> QED
    BY <1>7, <1>8, <1>9, <1>10 DEF Shape

\* As many blocks are open as the steps of a running thread that may have the lock
\* say.
LEMMA OpenBlocks ==
  ASSUME Shape, NEW t \in Threads, Running(t), lock \in {NoThread, t}
  PROVE  Depth(thread[t].call)[thread[t].pc] = Len(blocks)
  <1>1. CASE lock = t
    BY <1>1 DEF Shape, Placed, Running
  <1>2. CASE lock = NoThread
    <2>1. blocks = <<>> /\ lock # t /\ Busy(t)
      BY <1>2 DEF Shape, Locking, Running, Busy
    <2>2. Len(blocks) = 0
      BY <2>1, EmptySeq
    <2> QED
      BY <2>1, <2>2 DEF Shape, Placed
  <1> QED
    BY <1>1, <1>2

LEMMA EnterShape ==
  ASSUME Shape, NEW t \in Threads, Enter(t)
  PROVE  Shape'
  <1> DEFINE c == thread[t].call
             i == thread[t].pc
             block == [pc |-> i, entry |-> work]
  <1>1. /\ c \in Calls \cup BootCalls /\ i \in 1..Len(Steps(c))
        /\ WellPlaced(Steps(c), Depth(c), i) /\ Step(t) = Steps(c)[i]
    BY RunningStep DEF Enter, Step
  <1>2. /\ i + 1 \in 1..(Len(Steps(c)) + 1) /\ i \in Nat
        /\ Depth(c)[i + 1] \in Nat
    BY <1>1, CallStep
  <1>3. lock \in {NoThread, t}
    BY DEF Enter, MayLock
  <1>4. Depth(c)[i] = Len(blocks)
    BY <1>3, OpenBlocks DEF Enter
  <1>5. Depth(c)[i + 1] = Len(blocks) + 1
    BY <1>1, <1>4 DEF WellPlaced, Nested, Enter
  <1>6. /\ lock' = t /\ saves' = Append(saves, work) /\ blocks' = Append(blocks, block)
        /\ disk' = disk /\ work' = work /\ server' = server /\ damage' = damage
        /\ UNCHANGED bounds
    BY DEF Enter, file
  <1>7. /\ blocks \in Seq([pc : Nat, entry : Database]) /\ saves \in Seq(Database)
        /\ work \in Database
    BY DEF Shape, TypeOK
  <1>8. block \in [pc : Nat, entry : Database]
    BY <1>2, <1>7
  <1>9. /\ blocks' \in Seq([pc : Nat, entry : Database]) /\ blocks' # <<>>
        /\ Len(blocks) \in Nat
        /\ Len(blocks') = Len(blocks) + 1 /\ blocks'[Len(blocks) + 1] = block
        /\ \A k \in 1..Len(blocks) : blocks'[k] = blocks[k]
    <2> DEFINE Entered == [pc : Nat, entry : Database]
    <2>1. blocks \in Seq(Entered) /\ block \in Entered /\ blocks' = Append(blocks, block)
      BY <1>6, <1>7, <1>8
    <2> HIDE DEF Entered, block
    <2>2. /\ blocks' \in Seq(Entered) /\ blocks' # <<>>
          /\ Len(blocks) \in Nat
          /\ Len(blocks') = Len(blocks) + 1 /\ blocks'[Len(blocks) + 1] = block
          /\ \A k \in 1..Len(blocks) : blocks'[k] = blocks[k]
      BY <2>1, GrowthAfter
    <2> QED
      BY <2>2 DEF Entered
  <1>10. /\ saves' \in Seq(Database) /\ saves' # <<>>
         /\ Len(saves) \in Nat
         /\ Len(saves') = Len(saves) + 1 /\ saves'[Len(saves) + 1] = work
         /\ \A k \in 1..Len(saves) : saves'[k] = saves[k]
    BY <1>6, <1>7, GrowthAfter
  <1>11. /\ thread' \in [Threads -> Calling]
         /\ \A u \in Threads \ {t} : thread'[u] = thread[u]
         /\ i + 1 = Len(Steps(c)) + 1 => thread'[t] = Idle
         /\ i + 1 # Len(Steps(c)) + 1 =>
              /\ thread'[t] = [call |-> c, pc |-> i + 1, raising |-> "no"]
              /\ i + 1 \in 1..Len(Steps(c))
    BY <1>1, <1>2, Continues DEF Shape, Enter
  <1>12. TypeOK'
    BY <1>6, <1>9, <1>10, <1>11 DEF Shape, TypeOK, bounds
  <1>13. Locking'
    BY <1>6, <1>9 DEF Locking
  <1>14. Saved'
    <2>1. Len(saves) = Len(blocks)
      <3>1. CASE blocks = <<>>
        BY <3>1 DEF Enter
      <3>2. CASE blocks # <<>>
        BY <3>2 DEF Shape, Saved
      <3> QED
        BY <3>1, <3>2
    <2>2. saves'[1] = disk
      <3>1. CASE blocks = <<>>
        <4>1. work = disk /\ Len(saves) = 0
          BY <3>1, EmptySeq DEF Shape, Saved, Enter
        <4> QED
          BY <4>1, <1>10
      <3>2. CASE blocks # <<>>
        <4>1. saves[1] = disk /\ Len(blocks) # 0
          BY <3>2, <1>7, EmptySeq DEF Shape, Saved
        <4> QED
          BY <4>1, <2>1, <1>10
      <3> QED
        BY <3>1, <3>2
    <2>3. ASSUME NEW k \in 1..Len(blocks')
          PROVE  saves'[k] = blocks'[k].entry
      <3>1. CASE k = Len(blocks) + 1
        BY <3>1, <2>1, <1>9, <1>10
      <3>2. CASE k # Len(blocks) + 1
        <4>1. k \in 1..Len(blocks) /\ blocks # <<>>
          BY <3>2, <1>9, EmptySeq
        <4>2. saves[k] = blocks[k].entry
          BY <4>1 DEF Shape, Saved
        <4>3. saves'[k] = saves[k] /\ blocks'[k] = blocks[k]
          BY <4>1, <2>1, <1>9, <1>10
        <4> QED
          BY <4>2, <4>3
      <3> QED
        BY <3>1, <3>2
    <2> QED
      BY <2>1, <2>2, <2>3, <1>6, <1>9, <1>10 DEF Saved
  <1>15. Booting'
    BY <1>6, <1>11, GoesOnBooting DEF Enter, Running, Busy
  <1>16. Placed(t)'
    <2>1. ASSUME NEW k \in 1..Len(blocks')
          PROVE  /\ blocks'[k].pc \in 1..Len(Steps(c)) /\ Steps(c)[blocks'[k].pc].op = "begin"
                 /\ Depth(c)[blocks'[k].pc] = k - 1
      <3>1. CASE k = Len(blocks) + 1
        <4>1. blocks'[k].pc = i /\ k - 1 = Len(blocks)
          BY <3>1, <1>9
        <4> QED
          BY <4>1, <1>1, <1>4 DEF Enter
      <3>2. CASE k # Len(blocks) + 1
        <4>1. k \in 1..Len(blocks) /\ blocks # <<>>
          BY <3>2, <1>9, EmptySeq
        <4>2. lock = t
          BY <4>1, <1>3 DEF Shape, Locking
        <4>3. /\ blocks[k].pc \in 1..Len(Steps(c)) /\ Steps(c)[blocks[k].pc].op = "begin"
              /\ Depth(c)[blocks[k].pc] = k - 1
          BY <4>1, <4>2 DEF Shape, Placed
        <4>4. blocks'[k] = blocks[k]
          BY <4>1, <1>9
        <4> QED
          BY <4>3, <4>4
      <3> QED
        BY <3>1, <3>2
    <2>2. Depth(c)[i + 1] = Len(blocks') /\ Len(blocks') \in Nat \ {0}
      BY <1>5, <1>9
    <2> HIDE DEF c, i
    <2> QED
      BY <2>1, <2>2, <1>1, <1>2, <1>6, <1>11, GoesOn
  <1>17. \A u \in Threads : Placed(u)'
    BY <1>3, <1>6, <1>11, <1>16, OthersPlaced
  <1> QED
    BY <1>12, <1>13, <1>14, <1>15, <1>17 DEF Shape

LEMMA EnterRefusedShape ==
  ASSUME Shape, NEW t \in Threads, EnterRefused(t)
  PROVE  Shape'
  <1>1. lock = NoThread
    BY DEF EnterRefused, Shape, Locking
  <1>2. UNCHANGED <<file, conn, bounds>>
    BY DEF EnterRefused
  <1>3. /\ thread' \in [Threads -> Calling] /\ thread'[t] = Idle
        /\ \A u \in Threads \ {t} : thread'[u] = thread[u]
        /\ server' \in {"down", "unusable", "guarded", "fresh", "seeding", "up"}
        /\ Booting'
    BY Abandons DEF EnterRefused
  <1>4. lock' = NoThread
    BY <1>1, <1>2 DEF conn
  <1>5. \A u \in Threads : Placed(u)'
    BY <1>1, <1>3, <1>4, OthersPlaced, IdlePlaced
  <1>6. TypeOK'
    BY <1>2, <1>3 DEF Shape, TypeOK, file, conn, bounds
  <1>7. Locking' /\ Saved'
    BY <1>2 DEF Shape, Locking, Saved, file, conn
  <1> QED
    BY <1>3, <1>5, <1>6, <1>7 DEF Shape

\* A statement of t raises.
LEMMA Raises ==
  ASSUME Shape, NEW t \in Threads, Running(t), lock = t,
         NEW x \in {"integrity", "operational"}, Raise(t, x),
         lock' = lock, blocks' = blocks, server' = server
  PROVE  /\ thread' \in [Threads -> Calling]
         /\ \A u \in Threads : Placed(u)'
         /\ Booting'
  <1>1. thread \in [Threads -> Calling]
    BY DEF Shape, TypeOK
  <1>2. /\ thread' \in [Threads -> Calling]
        /\ \A u \in Threads \ {t} : thread'[u] = thread[u]
        /\ thread'[t].call = thread[t].call /\ thread'[t].pc = thread[t].pc
        /\ thread'[t].raising = x
    BY <1>1 DEF Raise, Calling
  <1>3. Placed(t)'
    <2>1. Placed(t) /\ Busy(t) /\ thread[t].call \in Calls \cup BootCalls
      BY RunningStep DEF Shape, Running, Busy
    <2> QED
      BY <1>2, <2>1 DEF Placed, Busy
  <1>4. \A u \in Threads : Placed(u)'
    BY <1>2, <1>3, OthersPlaced
  <1>5. Booting'
    BY <1>2, GoesOnBooting DEF Running, Busy
  <1> QED
    BY <1>2, <1>4, <1>5

LEMMA StatementFailsShape ==
  ASSUME Shape, NEW t \in Threads, StatementFails(t)
  PROVE  Shape'
  <1>1. /\ Running(t) /\ lock = t /\ Raise(t, "operational")
        /\ UNCHANGED <<file, conn, server, clients>>
        /\ faults' = faults \/ (faults' = faults + 1 /\ faults < MaxFaults)
    BY DEF StatementFails, InBlock
  <1>2. /\ thread' \in [Threads -> Calling] /\ Booting'
        /\ \A u \in Threads : Placed(u)'
    BY <1>1, Raises DEF conn
  <1>3. TypeOK'
    BY <1>1, <1>2 DEF Shape, TypeOK, file, conn
  <1>4. Locking' /\ Saved'
    BY <1>1 DEF Shape, Locking, Saved, file, conn
  <1> QED
    BY <1>2, <1>3, <1>4 DEF Shape

\* A statement is in a block, which stays open.
LEMMA InOpenBlock ==
  ASSUME Shape, NEW t \in Threads, InBlock(t)
  PROVE  /\ Running(t) /\ lock = t /\ blocks # <<>>
         /\ Step(t) \in Instructions /\ Statement(Step(t))
         /\ Depth(thread[t].call)[thread[t].pc + 1] = Len(blocks)
  <1>1. Running(t) /\ lock = t /\ Step(t) \in Instructions /\ Statement(Step(t))
    BY RunningStep DEF InBlock, Statement
  <1>2. WellPlaced(Steps(thread[t].call), Depth(thread[t].call), thread[t].pc)
    BY <1>1, RunningStep
  <1>3. Depth(thread[t].call)[thread[t].pc + 1] = Len(blocks)
    BY <1>1, <1>2, OpenBlocks DEF WellPlaced, Nested, Step
  <1>4. blocks # <<>>
    BY <1>1 DEF Shape, Locking
  <1> QED
    BY <1>1, <1>3, <1>4

LEMMA ExecuteShape ==
  ASSUME Shape, NEW t \in Threads, Execute(t)
  PROVE  Shape'
  <1> DEFINE c == thread[t].call
             i == thread[t].pc
  <1>1. /\ Running(t) /\ lock = t /\ blocks # <<>>
        /\ Step(t) \in Instructions /\ Statement(Step(t))
        /\ Depth(c)[i + 1] = Len(blocks)
    BY InOpenBlock DEF Execute
  <1>2. UNCHANGED <<file, saves, blocks, lock, server, bounds>>
    BY DEF Execute
  <1>3. Locking' /\ Saved'
    BY <1>1, <1>2 DEF Shape, Locking, Saved, file
  <1>4. CASE Violates(Step(t), work)
    <2>1. work' = work /\ \E x \in {"integrity", "operational"} : Raise(t, x)
      BY <1>4 DEF Execute
    <2>2. /\ thread' \in [Threads -> Calling] /\ Booting'
          /\ \A u \in Threads : Placed(u)'
      BY <2>1, <1>1, <1>2, Raises
    <2>3. TypeOK'
      BY <2>1, <2>2, <1>2 DEF Shape, TypeOK, file, bounds
    <2> QED
      BY <1>3, <2>2, <2>3 DEF Shape
  <1>5. CASE ~Violates(Step(t), work)
    <2>1. work' = Effect(Step(t), work) /\ Continue(t, i + 1)
      BY <1>5 DEF Execute
    <2>2. c \in Calls \cup BootCalls /\ i \in 1..Len(Steps(c))
      BY <1>1, RunningStep
    <2>3. i + 1 \in 1..(Len(Steps(c)) + 1)
      BY <2>2, CallStep
    <2>4. /\ thread' \in [Threads -> Calling]
          /\ \A u \in Threads \ {t} : thread'[u] = thread[u]
          /\ i + 1 = Len(Steps(c)) + 1 => thread'[t] = Idle
          /\ i + 1 # Len(Steps(c)) + 1 =>
               /\ thread'[t] = [call |-> c, pc |-> i + 1, raising |-> "no"]
               /\ i + 1 \in 1..Len(Steps(c))
      BY <2>1, <2>2, <2>3, Continues DEF Shape
    <2>5. TypeOK'
      BY <2>1, <2>4, <1>1, <1>2, EffectTyped DEF Shape, TypeOK, file, bounds
    <2>6. Len(blocks) \in Nat \ {0}
      BY <1>1, EmptySeq DEF Shape, TypeOK
    <2>7. \A k \in 1..Len(blocks) :
            /\ blocks[k].pc \in 1..Len(Steps(c)) /\ Steps(c)[blocks[k].pc].op = "begin"
            /\ Depth(c)[blocks[k].pc] = k - 1
      BY <1>1 DEF Shape, Placed
    <2>8. Placed(t)'
      <3> HIDE DEF c, i
      <3> QED
        BY <2>2, <2>3, <2>4, <2>6, <2>7, <1>1, <1>2, GoesOn
    <2>9. \A u \in Threads : Placed(u)'
      BY <2>4, <2>8, <1>1, <1>2, OthersPlaced
    <2>10. Booting'
      BY <2>4, <1>1, <1>2, GoesOnBooting DEF Running, Busy
    <2> QED
      BY <1>3, <2>5, <2>9, <2>10 DEF Shape
  <1> QED
    BY <1>4, <1>5

\* The innermost of the blocks of a thread with the lock is left.
LEMMA LeavesBlock ==
  ASSUME Shape, NEW t \in Threads, lock = t, LeaveBlock, saves' = Pop(saves)
  PROVE  /\ blocks' \in Seq([pc : Nat, entry : Database]) /\ saves' \in Seq(Database)
         /\ blocks # <<>> /\ saves # <<>>
         /\ Len(blocks) \in Nat \ {0} /\ Len(saves) = Len(blocks)
         /\ Len(blocks') = Len(blocks) - 1 /\ Len(saves') = Len(blocks) - 1
         /\ \A k \in 1..(Len(blocks) - 1) : blocks'[k] = blocks[k] /\ saves'[k] = saves[k]
         /\ Top(saves) = saves[Len(blocks)] /\ Top(saves) = Top(blocks).entry
         /\ Top(saves) \in Database /\ Top(blocks) = blocks[Len(blocks)]
         /\ lock' \in {NoThread, t}
         /\ lock' = t <=> Len(blocks) # 1
         /\ Locking'
  <1>1. blocks # <<>>
    BY DEF Shape, Locking
  <1>2. blocks \in Seq([pc : Nat, entry : Database]) /\ saves \in Seq(Database)
    BY DEF Shape, TypeOK
  <1>3. /\ Len(saves) = Len(blocks)
        /\ \A k \in 1..Len(blocks) : saves[k] = blocks[k].entry
    BY <1>1 DEF Shape, Saved
  <1>4. /\ Len(blocks) \in Nat \ {0}
        /\ Top(blocks) = blocks[Len(blocks)]
        /\ Pop(blocks) \in Seq([pc : Nat, entry : Database])
        /\ Len(Pop(blocks)) = Len(blocks) - 1
        /\ \A k \in 1..(Len(blocks) - 1) : Pop(blocks)[k] = blocks[k]
        /\ Pop(blocks) = <<>> <=> Len(blocks) = 1
    BY <1>1, <1>2, Stacks
  <1>5. saves # <<>>
    <2>1. Len(saves) # 0
      BY <1>3, <1>4
    <2> QED
      BY <2>1, <1>2, EmptySeq
  <1>6. /\ Top(saves) = saves[Len(saves)] /\ Top(saves) \in Database
        /\ Pop(saves) \in Seq(Database) /\ Len(Pop(saves)) = Len(saves) - 1
        /\ \A k \in 1..(Len(saves) - 1) : Pop(saves)[k] = saves[k]
    BY <1>2, <1>5, Stacks
  <1>7. blocks' = Pop(blocks) /\ lock' = IF Len(blocks) = 1 THEN NoThread ELSE t
    BY DEF LeaveBlock
  <1>8. Locking'
    BY <1>4, <1>7 DEF Locking
  <1>9. Top(saves) = Top(blocks).entry
    BY <1>3, <1>4, <1>6
  <1> QED
    BY <1>1, <1>3, <1>4, <1>5, <1>6, <1>7, <1>8, <1>9

LEMMA LeaveShape ==
  ASSUME Shape, NEW t \in Threads, Leave(t)
  PROVE  Shape'
  <1> DEFINE c == thread[t].call
             i == thread[t].pc
             n == Len(blocks)
  <1>1. /\ c \in Calls \cup BootCalls /\ i \in 1..Len(Steps(c))
        /\ WellPlaced(Steps(c), Depth(c), i) /\ Step(t) = Steps(c)[i]
    BY RunningStep DEF Leave, Step
  <1>2. /\ i + 1 \in 1..(Len(Steps(c)) + 1)
        /\ Depth(c)[i + 1] \in Nat
    BY <1>1, CallStep
  <1>3. /\ lock = t /\ LeaveBlock /\ saves' = Pop(saves)
        /\ disk' = IF n = 1 THEN work ELSE disk
        /\ UNCHANGED <<damage, aside, work, server, bounds>>
    BY DEF Leave
  <1>4. /\ blocks' \in Seq([pc : Nat, entry : Database]) /\ saves' \in Seq(Database)
        /\ n \in Nat \ {0} /\ Len(blocks') = n - 1 /\ Len(saves') = n - 1
        /\ Len(saves) = n /\ blocks # <<>>
        /\ \A k \in 1..(n - 1) : blocks'[k] = blocks[k] /\ saves'[k] = saves[k]
        /\ lock' \in {NoThread, t}
        /\ lock' = t <=> n # 1
        /\ Locking'
    BY <1>3, LeavesBlock
  <1>5. Depth(c)[i] = n /\ Depth(c)[i] = Depth(c)[i + 1] + 1
    BY <1>1, <1>3, OpenBlocks DEF WellPlaced, Nested, Leave
  <1>6. Depth(c)[i + 1] = n - 1
    BY <1>2, <1>4, <1>5
  <1>7. /\ thread' \in [Threads -> Calling]
        /\ \A u \in Threads \ {t} : thread'[u] = thread[u]
        /\ i + 1 = Len(Steps(c)) + 1 => thread'[t] = Idle
        /\ i + 1 # Len(Steps(c)) + 1 =>
             /\ thread'[t] = [call |-> c, pc |-> i + 1, raising |-> "no"]
             /\ i + 1 \in 1..Len(Steps(c))
    BY <1>1, <1>2, Continues DEF Shape, Leave
  <1>8. TypeOK'
    BY <1>3, <1>4, <1>7 DEF Shape, TypeOK, bounds
  <1>9. Saved'
    <2>1. CASE n = 1
      <3>1. blocks' = <<>> /\ saves' = <<>>
        BY <2>1, <1>4, EmptySeq
      <3> QED
        BY <2>1, <3>1, <1>3 DEF Saved
    <2>2. CASE n # 1
      <3>1. saves[1] = disk /\ \A k \in 1..n : saves[k] = blocks[k].entry
        BY <1>4 DEF Shape, Saved
      <3>2. 1 \in 1..(n - 1) /\ \A k \in 1..(n - 1) : k \in 1..n
        BY <2>2, <1>4
      <3>3. blocks' # <<>>
        BY <3>2, <1>4, EmptySeq
      <3>4. saves'[1] = disk /\ \A k \in 1..(n - 1) : saves'[k] = blocks'[k].entry
        BY <3>1, <3>2, <1>4
      <3> QED
        BY <2>2, <3>3, <3>4, <1>3, <1>4 DEF Saved
    <2> QED
      BY <2>1, <2>2
  <1>10. Placed(t)'
    <2>1. ASSUME NEW k \in 1..(n - 1)
          PROVE  /\ blocks'[k].pc \in 1..Len(Steps(c)) /\ Steps(c)[blocks'[k].pc].op = "begin"
                 /\ Depth(c)[blocks'[k].pc] = k - 1
      <3>1. k \in 1..n /\ blocks'[k] = blocks[k]
        BY <1>4
      <3>2. /\ blocks[k].pc \in 1..Len(Steps(c)) /\ Steps(c)[blocks[k].pc].op = "begin"
            /\ Depth(c)[blocks[k].pc] = k - 1
        BY <3>1, <1>3 DEF Shape, Placed
      <3> QED
        BY <3>1, <3>2
    <2>2. lock' # t => Depth(c)[i + 1] = 0
      BY <1>4, <1>6
    <2>3. lock' = t => Depth(c)[i + 1] = Len(blocks') /\ Len(blocks') \in Nat \ {0}
      BY <1>4, <1>6
    <2>4. \A k \in 1..Len(blocks') :
            /\ blocks'[k].pc \in 1..Len(Steps(c)) /\ Steps(c)[blocks'[k].pc].op = "begin"
            /\ Depth(c)[blocks'[k].pc] = k - 1
      BY <2>1, <1>4
    <2> HIDE DEF c, i, n
    <2> QED
      BY <2>2, <2>3, <2>4, <1>1, <1>2, <1>7, GoesOn
  <1>11. \A u \in Threads : Placed(u)'
    BY <1>3, <1>4, <1>7, <1>10, OthersPlaced
  <1>12. Booting'
    BY <1>3, <1>7, GoesOnBooting DEF Leave, Running, Busy
  <1> QED
    BY <1>4, <1>8, <1>9, <1>11, <1>12 DEF Shape

LEMMA CommitRefusedShape ==
  ASSUME Shape, NEW t \in Threads, CommitRefused(t)
  PROVE  Shape'
  <1>1. /\ lock = t /\ LeaveBlock /\ Len(blocks) = 1
        /\ UNCHANGED <<file, work, saves, clients>>
        /\ faults < MaxFaults /\ faults' = faults + 1
    BY DEF CommitRefused
  <1>2. blocks' = <<>> /\ lock' = NoThread
    <2>1. blocks \in Seq([pc : Nat, entry : Database]) /\ blocks # <<>>
      BY <1>1 DEF Shape, TypeOK, Locking
    <2> QED
      BY <1>1, <2>1, Stacks DEF LeaveBlock
  <1>3. /\ thread' \in [Threads -> Calling] /\ thread'[t] = Idle
        /\ \A u \in Threads \ {t} : thread'[u] = thread[u]
        /\ server' \in {"down", "unusable", "guarded", "fresh", "seeding", "up"}
        /\ Booting'
    BY Abandons DEF CommitRefused
  <1>4. \A u \in Threads : Placed(u)'
    BY <1>1, <1>2, <1>3, OthersPlaced, IdlePlaced
  <1>5. TypeOK'
    <2>1. blocks' \in Seq([pc : Nat, entry : Database])
      BY <1>2
    <2> QED
      BY <2>1, <1>1, <1>2, <1>3 DEF Shape, TypeOK, file
  <1>6. Locking'
    BY <1>2 DEF Locking
  <1>7. Saved'
    <2>1. saves # <<>>
      BY <1>1, EmptySeq DEF Shape, Saved, Locking
    <2> QED
      BY <2>1, <1>1, <1>2 DEF Saved
  <1> QED
    BY <1>3, <1>4, <1>5, <1>6, <1>7 DEF Shape

\* The block that t leaves by an exception, and the step after it.
LEMMA CaughtAt ==
  ASSUME NEW c \in Calls \cup BootCalls, NEW b \in 1..Len(Steps(c)),
         Steps(c)[b].op = "begin", Steps(c)[b].skip > 0
  PROVE  \E k \in 1..Len(Steps(c)) :
           /\ b + Steps(c)[b].skip = k + 1 /\ Steps(c)[k].op = "end"
           /\ k + 1 \in 1..(Len(Steps(c)) + 1)
           /\ Depth(c)[k + 1] = Depth(c)[b]
  <1>1. WellPlaced(Steps(c), Depth(c), b)
    BY CallStep
  <1>2. PICK k \in 1..Len(Steps(c)) : b + Steps(c)[b].skip = k + 1 /\ Steps(c)[k].op = "end"
                                        /\ Depth(c)[k + 1] = Depth(c)[b]
    BY <1>1 DEF WellPlaced, Nested
  <1>3. k + 1 \in 1..(Len(Steps(c)) + 1)
    BY CallStep
  <1> QED
    BY <1>2, <1>3

LEMMA UnwindShape ==
  ASSUME Shape, NEW t \in Threads, Unwind(t)
  PROVE  Shape'
  <1> DEFINE c == thread[t].call
             n == Len(blocks)
             b == Top(blocks).pc
  <1>1. /\ lock = t /\ Busy(t) /\ c \in Calls \cup BootCalls
    BY DEF Unwind, Shape, Placed, Busy, Idle
  <1>2. /\ LeaveBlock /\ saves' = Pop(saves) /\ work' = Top(saves)
        /\ UNCHANGED <<file, bounds>>
    BY DEF Unwind
  <1>3. /\ blocks' \in Seq([pc : Nat, entry : Database]) /\ saves' \in Seq(Database)
        /\ n \in Nat \ {0} /\ Len(blocks') = n - 1 /\ Len(saves') = n - 1
        /\ \A k \in 1..(n - 1) : blocks'[k] = blocks[k] /\ saves'[k] = saves[k]
        /\ Len(saves) = n /\ blocks # <<>>
        /\ Top(saves) = saves[n] /\ Top(saves) \in Database
        /\ Top(blocks) = blocks[n]
        /\ lock' \in {NoThread, t}
        /\ lock' = t <=> n # 1
        /\ Locking'
    BY <1>1, <1>2, LeavesBlock
  <1>4. Saved'
    <2>1. saves[1] = disk /\ \A k \in 1..n : saves[k] = blocks[k].entry
      BY <1>3 DEF Shape, Saved
    <2>2. disk' = disk
      BY <1>2 DEF file
    <2>3. CASE n = 1
      <3>1. blocks' = <<>> /\ work' = disk
        BY <2>1, <2>3, <1>2, <1>3, EmptySeq
      <3> QED
        BY <2>2, <3>1 DEF Saved
    <2>4. CASE n # 1
      <3>1. 1 \in 1..(n - 1) /\ \A k \in 1..(n - 1) : k \in 1..n
        BY <2>4, <1>3
      <3>2. blocks' # <<>>
        BY <3>1, <1>3, EmptySeq
      <3>3. saves'[1] = disk /\ \A k \in 1..(n - 1) : saves'[k] = blocks'[k].entry
        BY <2>1, <3>1, <1>3
      <3> QED
        BY <2>2, <3>2, <3>3, <1>3 DEF Saved
    <2> QED
      BY <2>3, <2>4
  <1>5. \A k \in 1..n : /\ blocks[k].pc \in 1..Len(Steps(c))
                        /\ Steps(c)[blocks[k].pc].op = "begin"
                        /\ Depth(c)[blocks[k].pc] = k - 1
    BY <1>1 DEF Shape, Placed
  <1>6. b \in 1..Len(Steps(c)) /\ Steps(c)[b].op = "begin" /\ Depth(c)[b] = n - 1
    BY <1>3, <1>5
  <1>7. \A k \in 1..Len(blocks') :
          /\ blocks'[k].pc \in 1..Len(Steps(c)) /\ Steps(c)[blocks'[k].pc].op = "begin"
          /\ Depth(c)[blocks'[k].pc] = k - 1
    <2> SUFFICES ASSUME NEW k \in 1..(n - 1)
                 PROVE  /\ blocks'[k].pc \in 1..Len(Steps(c))
                        /\ Steps(c)[blocks'[k].pc].op = "begin"
                        /\ Depth(c)[blocks'[k].pc] = k - 1
      BY <1>3
    <2>1. k \in 1..n /\ blocks'[k] = blocks[k]
      BY <1>3
    <2> QED
      BY <2>1, <1>5
  <1>8. thread \in [Threads -> Calling]
          /\ server \in {"down", "unusable", "guarded", "fresh", "seeding", "up"}
    BY DEF Shape, TypeOK
  <1>9. /\ thread' \in [Threads -> Calling]
        /\ \A u \in Threads \ {t} : thread'[u] = thread[u]
        /\ server' \in {"down", "unusable", "guarded", "fresh", "seeding", "up"}
        /\ Booting' /\ Placed(t)'
    <2>1. CASE Steps(c)[b].skip > 0 /\ thread[t].raising = "integrity"
      <3>1. PICK k \in 1..Len(Steps(c)) :
               /\ b + Steps(c)[b].skip = k + 1 /\ k + 1 \in 1..(Len(Steps(c)) + 1)
               /\ Depth(c)[k + 1] = n - 1
        <4>1. c \in Calls \cup BootCalls /\ Steps(c)[b].skip > 0
          BY <2>1, <1>1
        <4> HIDE DEF c, b, n
        <4>2. \E k \in 1..Len(Steps(c)) :
                 /\ b + Steps(c)[b].skip = k + 1 /\ k + 1 \in 1..(Len(Steps(c)) + 1)
                 /\ Depth(c)[k + 1] = Depth(c)[b]
          BY <4>1, <1>6, CaughtAt, Zenon
        <4> QED
          BY <4>2, <1>6
      <3>2. Continue(t, k + 1) /\ server' = server
        BY <2>1, <3>1 DEF Unwind
      <3>3. /\ thread' \in [Threads -> Calling]
            /\ \A u \in Threads \ {t} : thread'[u] = thread[u]
            /\ k + 1 = Len(Steps(c)) + 1 => thread'[t] = Idle
            /\ k + 1 # Len(Steps(c)) + 1 =>
                 /\ thread'[t] = [call |-> c, pc |-> k + 1, raising |-> "no"]
                 /\ k + 1 \in 1..Len(Steps(c))
        BY <3>1, <3>2, <1>1, Continues DEF Shape
      <3>4. lock' # t => Depth(c)[k + 1] = 0
        BY <3>1, <1>3
      <3>5. lock' = t => Depth(c)[k + 1] = Len(blocks') /\ Len(blocks') \in Nat \ {0}
        BY <3>1, <1>3
      <3>6. Booting'
        BY <3>2, <3>3, <1>1, GoesOnBooting
      <3> HIDE DEF c
      <3>7. Placed(t)'
        BY <3>1, <3>3, <3>4, <3>5, <1>1, <1>7, GoesOn
      <3> QED
        BY <3>2, <3>3, <3>6, <3>7, <1>8
    <2>2. CASE ~(Steps(c)[b].skip > 0 /\ thread[t].raising = "integrity") /\ n = 1
      <3>1. Abandon(t)
        BY <2>2 DEF Unwind
      <3>2. lock' # t
        BY <2>2, <1>3
      <3> QED
        BY <3>1, <3>2, Abandons, IdlePlaced
    <2>3. CASE ~(Steps(c)[b].skip > 0 /\ thread[t].raising = "integrity") /\ n # 1
      <3>1. thread' = thread /\ server' = server
        BY <2>3 DEF Unwind
      <3>2. lock' = t /\ Placed(t) /\ thread[t].raising # "no"
        BY <2>3, <1>3 DEF Shape, Unwind
      <3>3. Placed(t)'
        BY <3>1, <3>2, <1>1, <1>7 DEF Placed, Busy
      <3>4. Booting'
        BY <3>1 DEF Shape, Booting
      <3> QED
        BY <3>1, <3>3, <3>4, <1>8
    <2> QED
      BY <2>1, <2>2, <2>3
  <1>10. TypeOK'
    BY <1>2, <1>3, <1>9 DEF Shape, TypeOK, file, bounds
  <1>11. \A u \in Threads : Placed(u)'
    BY <1>1, <1>3, <1>9, OthersPlaced
  <1> QED
    BY <1>3, <1>4, <1>9, <1>10, <1>11 DEF Shape

LEMMA EmptyTyped ==
  /\ Empty \in Database
  /\ SpoolsSound(Empty) /\ DefaultsSound(Empty) /\ PlateSound(Empty)
  <1>1. Empty \in Database
    BY DEF Empty, Database, Versions, SpoolRow, PartRow, RecipeRow
  <1>2. SpoolsSound(Empty)
    <2>1. \A s \in Spools : Empty.spools[s].status # "in_use"
      BY DEF Empty
    <2> QED
      BY <2>1 DEF SpoolsSound, Loaded, AtMostOne
  <1>3. DefaultsSound(Empty)
    <2>1. \A r \in Recipes : ~Empty.recipes[r].is_default
      BY DEF Empty
    <2> QED
      BY <2>1 DEF DefaultsSound, Defaults, AtMostOne
  <1>4. PlateSound(Empty)
    BY DEF Empty, PlateSound
  <1> QED
    BY <1>1, <1>2, <1>3, <1>4

\* Before the server is up, all threads but Main are idle, and nobody is in a block
\* if Main is idle too.
LEMMA AllIdle ==
  ASSUME Shape, server # "up", thread[Main] = Idle
  PROVE  /\ \A t \in Threads : thread[t] = Idle
         /\ lock = NoThread /\ blocks = <<>>
  <1>1. \A t \in Threads : thread[t] = Idle
    BY DEF Shape, Booting
  <1>2. \A t \in Threads : lock # t
    BY <1>1 DEF Shape, Placed, Busy, Idle
  <1>3. lock = NoThread
    BY <1>2 DEF Shape, TypeOK
  <1> QED
    BY <1>1, <1>3 DEF Shape, Locking

\* A thread begins a call.
LEMMA BeginsCall ==
  ASSUME Shape, NEW t \in Threads, NEW c \in Calls \cup BootCalls, Call(t, c),
         lock = NoThread, lock' = lock
  PROVE  /\ thread' \in [Threads -> Calling]
         /\ \A u \in Threads \ {t} : thread'[u] = thread[u]
         /\ \A u \in Threads : Placed(u)'
  <1>1. thread \in [Threads -> Calling]
    BY DEF Shape, TypeOK
  <1>2. [call |-> c, pc |-> 1, raising |-> "no"] \in Calling
    BY DEF Calling
  <1>3. /\ thread' \in [Threads -> Calling]
        /\ \A u \in Threads \ {t} : thread'[u] = thread[u]
        /\ thread'[t] = [call |-> c, pc |-> 1, raising |-> "no"]
    BY <1>1, <1>2 DEF Call
  <1>4. Placed(t)'
    <2>1. 1 \in 1..Len(Steps(c)) /\ Depth(c)[1] = 0
      BY FirstStep
    <2> QED
      BY <2>1, <1>3 DEF Placed, Busy
  <1> QED
    BY <1>3, <1>4, OthersPlaced

LEMMA IssueShape ==
  ASSUME Shape, NEW t \in Threads, NEW c \in Group[clients], Issue(t, c)
  PROVE  Shape'
  <1>1. c \in Calls
    BY GroupsAreCalls DEF Shape, TypeOK
  <1>2. /\ server = "up" /\ lock = NoThread /\ Call(t, c)
        /\ UNCHANGED <<file, conn, server, bounds>>
    BY DEF Issue
  <1>3. lock' = lock
    BY <1>2 DEF conn
  <1>4. thread' \in [Threads -> Calling] /\ \A u \in Threads : Placed(u)'
    BY <1>1, <1>2, <1>3, BeginsCall
  <1>5. TypeOK'
    BY <1>2, <1>4 DEF Shape, TypeOK, file, conn, bounds
  <1>6. Locking' /\ Saved'
    BY <1>2 DEF Shape, Locking, Saved, file, conn
  <1>7. Booting'
    BY <1>2 DEF Booting
  <1> QED
    BY <1>4, <1>5, <1>6, <1>7 DEF Shape

LEMMA OpenShape ==
  ASSUME Shape, Open
  PROVE  Shape'
  <1>1. /\ server = "down" /\ work' = disk /\ saves' = <<>>
        /\ UNCHANGED <<file, blocks, lock, thread, clients>>
        /\ server' \in {"unusable", "guarded"}
        /\ \/ faults' = faults
           \/ faults < MaxFaults /\ faults' = faults + 1
    BY DEF Open
  <1>2. thread[Main] = Idle /\ \A t \in Threads \ {Main} : thread[t] = Idle
    BY <1>1 DEF Shape, Booting
  <1>3. blocks = <<>>
    BY <1>1, <1>2, AllIdle
  <1>4. TypeOK'
    <2>1. faults' \in 0..MaxFaults
      BY <1>1 DEF Shape, TypeOK
    <2>2. saves' \in Seq(Database)
      BY <1>1
    <2> QED
      BY <2>1, <2>2, <1>1 DEF Shape, TypeOK, file
  <1>5. \A t \in Threads : Placed(t)'
    BY <1>1 DEF Shape, Placed, Busy
  <1>6. Locking' /\ Saved'
    BY <1>1, <1>3 DEF Shape, Locking, Saved, file
  <1>7. Booting'
    BY <1>1, <1>2 DEF Booting
  <1> QED
    BY <1>4, <1>5, <1>6, <1>7 DEF Shape

LEMMA QuarantineShape ==
  ASSUME Shape, Quarantine
  PROVE  Shape'
  <1>1. /\ server = "unusable" /\ disk' = Empty /\ damage' = "none" /\ work' = Empty
        /\ saves' = <<>> /\ server' = "fresh"
        /\ UNCHANGED <<blocks, lock, thread, bounds>>
    BY DEF Quarantine
  <1>2. thread[Main] = Idle /\ \A t \in Threads \ {Main} : thread[t] = Idle
    BY <1>1 DEF Shape, Booting
  <1>3. blocks = <<>>
    BY <1>1, <1>2, AllIdle
  <1>4. TypeOK'
    <2>1. saves' \in Seq(Database)
      BY <1>1
    <2> QED
      BY <2>1, <1>1, EmptyTyped DEF Shape, TypeOK, Damages, bounds
  <1>5. \A t \in Threads : Placed(t)'
    BY <1>1 DEF Shape, Placed, Busy
  <1>6. Locking' /\ Saved'
    BY <1>1, <1>3 DEF Shape, Locking, Saved
  <1>7. Booting'
    BY <1>1, <1>2 DEF Booting
  <1> QED
    BY <1>4, <1>5, <1>6, <1>7 DEF Shape

LEMMA BootShape ==
  ASSUME Shape, Boot
  PROVE  Shape'
  <1>1. thread[Main] = Idle /\ UNCHANGED <<file, conn, bounds>>
          /\ server \in {"guarded", "fresh", "seeding"}
    BY DEF Boot
  <1>2. (\A t \in Threads : thread[t] = Idle) /\ lock = NoThread
    BY <1>1, AllIdle
  <1>3. lock' = lock
    BY <1>1 DEF conn
  <1>4. Locking' /\ Saved'
    BY <1>1 DEF Shape, Locking, Saved, file, conn
  <1>5. ASSUME NEW c \in BootCalls, Call(Main, c),
               server' \in {"guarded", "fresh", "seeding"}
        PROVE  Shape'
    <2>1. /\ thread' \in [Threads -> Calling]
          /\ \A u \in Threads \ {Main} : thread'[u] = thread[u]
          /\ \A u \in Threads : Placed(u)'
      BY <1>2, <1>3, <1>5, BeginsCall
    <2>2. Booting'
      BY <2>1, <1>2, <1>5 DEF Booting
    <2>3. TypeOK'
      BY <2>1, <1>1, <1>5 DEF Shape, TypeOK, file, conn, bounds
    <2> QED
      BY <2>1, <2>2, <2>3, <1>4 DEF Shape
  <1>6. CASE server \in {"guarded", "fresh"} /\ work.version < Versions
    <2>1. server \in {"guarded", "fresh"} /\ work.version < Versions
            /\ Call(Main, [do |-> "migrate", version |-> work.version + 1]) /\ server' = server
      BY <1>6 DEF Boot, Versions
    <2>2. work.version + 1 \in 1..Versions
      BY <2>1 DEF Shape, TypeOK, Database, Versions
    <2>3. [do |-> "migrate", version |-> work.version + 1] \in BootCalls
      BY <2>2 DEF BootCalls
    <2> QED
      BY <2>1, <2>3, <1>5
  <1>7. CASE server \in {"guarded", "fresh"} /\ work.version = Versions
    <2>1. Call(Main, [do |-> "seed_badges"]) /\ server' = "seeding"
      BY <1>7 DEF Boot, Versions
    <2>2. [do |-> "seed_badges"] \in BootCalls
      BY DEF BootCalls
    <2> QED
      BY <2>1, <2>2, <1>5
  <1>8. CASE server = "seeding"
    <2>1. thread' = thread /\ server' = "up"
      BY <1>8 DEF Boot
    <2>2. TypeOK'
      BY <2>1, <1>1 DEF Shape, TypeOK, file, conn, bounds
    <2>3. \A t \in Threads : Placed(t)'
      BY <2>1, <1>1 DEF Shape, Placed, Busy, conn
    <2>4. Booting'
      BY <2>1 DEF Booting
    <2> QED
      BY <2>2, <2>3, <2>4, <1>4 DEF Shape
  <1> QED
    BY <1>6, <1>7, <1>8 DEF Boot

LEMMA CrashShape ==
  ASSUME Shape, Crash
  PROVE  Shape'
  <1>1. /\ work' = disk /\ saves' = <<>> /\ blocks' = <<>> /\ lock' = NoThread
        /\ thread' = [t \in Threads |-> Idle] /\ server' = "down"
        /\ faults < MaxFaults /\ faults' = faults + 1
        /\ UNCHANGED <<file, clients>>
    BY DEF Crash
  <1>2. Idle \in Calling
    BY DEF Idle, Calling
  <1>3. TypeOK'
    <2>1. saves' \in Seq(Database) /\ blocks' \in Seq([pc : Nat, entry : Database])
      BY <1>1
    <2>2. faults' \in 0..MaxFaults
      BY <1>1 DEF Shape, TypeOK
    <2> QED
      BY <2>1, <2>2, <1>1, <1>2 DEF Shape, TypeOK, file
  <1>4. \A t \in Threads : Placed(t)'
    BY <1>1, IdlePlaced
  <1>5. Locking' /\ Saved'
    BY <1>1 DEF Locking, Saved, file
  <1>6. Booting'
    BY <1>1 DEF Booting
  <1> QED
    BY <1>3, <1>4, <1>5, <1>6 DEF Shape

LEMMA InitShape ==
  ASSUME Init
  PROVE  Shape
  <1>1. PICK s \in Scenarios : disk = s.file /\ damage = s.damage /\ clients = s.calls
    BY DEF Init
  <1>2. /\ work = disk /\ saves = <<>> /\ blocks = <<>> /\ lock = NoThread
        /\ thread = [t \in Threads |-> Idle] /\ server = "down" /\ faults = 0
    BY DEF Init
  <1>3. Idle \in Calling
    BY DEF Idle, Calling
  <1>4. TypeOK
    <2>1. saves \in Seq(Database) /\ blocks \in Seq([pc : Nat, entry : Database])
      BY <1>2
    <2>2. disk \in Database /\ damage \in Damages /\ clients \in DOMAIN Group
      BY <1>1, LedgerAssumption
    <2> QED
      BY <2>1, <2>2, <1>2, <1>3 DEF TypeOK
  <1>5. \A t \in Threads : Placed(t)
    BY <1>2 DEF Placed, Busy, Idle
  <1>6. Locking /\ Saved /\ Booting
    BY <1>2 DEF Locking, Saved, Booting
  <1> QED
    BY <1>4, <1>5, <1>6 DEF Shape

LEMMA NextShape ==
  ASSUME Shape, [Next]_vars
  PROVE  Shape'
  <1>1. ASSUME NEW t \in Threads, NEW c \in Group[clients], Issue(t, c)
        PROVE  Shape'
    BY <1>1, IssueShape
  <1>2. ASSUME NEW t \in Threads, Query(t) PROVE Shape'
    BY <1>2, QueryShape
  <1>3. ASSUME NEW t \in Threads, Enter(t) PROVE Shape'
    BY <1>3, EnterShape
  <1>4. ASSUME NEW t \in Threads, EnterRefused(t) PROVE Shape'
    BY <1>4, EnterRefusedShape
  <1>5. ASSUME NEW t \in Threads, Execute(t) PROVE Shape'
    BY <1>5, ExecuteShape
  <1>6. ASSUME NEW t \in Threads, StatementFails(t) PROVE Shape'
    BY <1>6, StatementFailsShape
  <1>7. ASSUME NEW t \in Threads, Leave(t) PROVE Shape'
    BY <1>7, LeaveShape
  <1>8. ASSUME NEW t \in Threads, CommitRefused(t) PROVE Shape'
    BY <1>8, CommitRefusedShape
  <1>9. ASSUME NEW t \in Threads, Unwind(t) PROVE Shape'
    BY <1>9, UnwindShape
  <1>10. CASE Open \/ Quarantine \/ Boot \/ Crash
    BY <1>10, OpenShape, QuarantineShape, BootShape, CrashShape
  <1>11. CASE UNCHANGED vars
    BY <1>11 DEF vars, file, conn, bounds, Shape, TypeOK, Placed, Busy, Locking, Saved, Booting
  <1> QED
    BY <1>1, <1>2, <1>3, <1>4, <1>5, <1>6, <1>7, <1>8, <1>9, <1>10, <1>11 DEF Next

\* The ledger's variables keep their types: a transaction that a refused COMMIT left
\* open, a crash and a quarantine included.
THEOREM Typing == Spec => []TypeOK
  <1>1. Init => Shape
    BY InitShape
  <1>2. Shape /\ [Next]_vars => Shape'
    BY NextShape
  <1>3. Shape => TypeOK
    BY DEF Shape
  <1> QED
    BY <1>1, <1>2, <1>3, PTL DEF Spec

\* transaction(): a block that is left by an exception gives the data back that it
\* found, at every depth, whether the exception is caught around it or ends the call.
THEOREM Restores == Spec => RaiseRestores
  <1>1. Init => Shape
    BY InitShape
  <1>2. Shape /\ [Next]_vars => Shape'
    BY NextShape
  <1> DEFINE Restored == \A t \in Threads :
               thread[t].raising # "no" /\ Len(blocks') < Len(blocks) /\ server' # "down"
                 => work' = Top(blocks).entry
  <1>3. Shape /\ [Next]_vars => [Restored]_vars
    <2> SUFFICES ASSUME Shape, Next, NEW t \in Threads,
                        thread[t].raising # "no", Len(blocks') < Len(blocks), server' # "down"
                 PROVE  work' = Top(blocks).entry
      OBVIOUS
    <2>1. lock = t
      BY DEF Shape, Placed
    <2>2. \A u \in Threads : lock = u /\ Running(u) => FALSE
      BY <2>1 DEF Running
    <2>3. Len(blocks) \in Nat
      BY LenProperties DEF Shape, TypeOK
    <2>4. ASSUME NEW u \in Threads, Unwind(u)
          PROVE  work' = Top(blocks).entry
      <3>1. lock = u
        BY <2>4 DEF Unwind, Shape, Placed
      <3> QED
        BY <2>4, <3>1, LeavesBlock DEF Unwind
    <2>5. ASSUME NEW u \in Threads, Enter(u)
          PROVE  FALSE
      BY <2>1, <2>2, <2>5 DEF Enter, MayLock, Shape, TypeOK
    <2>6. ASSUME NEW u \in Threads, Leave(u) \/ CommitRefused(u)
          PROVE  FALSE
      BY <2>2, <2>6 DEF Leave, CommitRefused
    <2>7. ASSUME blocks' = blocks
          PROVE  FALSE
      BY <2>3, <2>7
    <2>8. ASSUME NEW u \in Threads,
                 \/ \E c \in Group[clients] : Issue(u, c)
                 \/ Query(u) \/ EnterRefused(u) \/ Execute(u) \/ StatementFails(u)
          PROVE  FALSE
      BY <2>7, <2>8 DEF Issue, Query, EnterRefused, Execute, StatementFails, conn
    <2>9. ~Open /\ ~Quarantine /\ ~Boot
      BY <2>7 DEF Open, Quarantine, Boot, conn
    <2>10. ~Crash
      BY DEF Crash
    <2> QED
      BY <2>4, <2>5, <2>6, <2>8, <2>9, <2>10 DEF Next
  <1> QED
    BY <1>1, <1>2, <1>3, PTL DEF Spec, RaiseRestores

---------------------------------------------------------------------------
(* What is committed is sound.                                             *)

Sound(db) == SpoolsSound(db) /\ DefaultsSound(db)

\* Whatever a rollback may bring back, and whatever may be committed, is sound.
DataSound ==
  /\ Sound(disk) /\ PlateSound(disk) /\ Sound(work)
  /\ \A k \in 1..Len(saves) : Sound(saves[k]) /\ PlateSound(saves[k])
  /\ lock = NoThread => PlateSound(work)

\* The data are ready for the statement t is about to execute.
Ready(t) ==
  lock = t /\ thread[t].raising = "no" =>
    /\ Step(t).op = "load" => Loaded(work, Step(t).printer) = {}
    /\ Step(t).op = "set_default" =>
         Defaults(work, Steps(thread[t].call)[thread[t].pc - 1].part) = {}
    /\ IF Step(t).op = "piece" THEN PlatePartial(work, Step(t).copy) ELSE PlateSound(work)

\* Recipe r belongs to part a, whatever is rolled back.
OwnerKnown(a, r) ==
  /\ Owner(work, r) = a
  /\ blocks # <<>> => \A k \in 1..Len(saves) : Owner(saves[k], r) = a

\* t knows the owner of the recipe that it is about to make a default.
OwnerChecked(t) ==
  LET s == Steps(thread[t].call)
   IN Busy(t) /\ thread[t].raising = "no" =>
        \A j \in 1..Len(s) :
          s[j].op = "set_default" /\ thread[t].pc \in {j - 2, j - 1, j} =>
            OwnerKnown(s[j - 3].part, s[j].recipe)

IInv ==
  /\ Shape /\ DataSound
  /\ \A t \in Threads : Ready(t) /\ OwnerChecked(t)

KeepsOwners ==
  \A a \in Parts, r \in Recipes : OwnerKnown(a, r) => OwnerKnown(a, r)'

LEMMA DefaultAt ==
  ASSUME NEW c \in Calls \cup BootCalls, NEW j \in 1..Len(Steps(c)),
         Steps(c)[j].op = "set_default"
  PROVE  /\ j \in Nat /\ j > 3
         /\ Steps(c)[j].recipe \in Recipes
         /\ Steps(c)[j - 3].part \in Parts
         /\ Steps(c)[j - 3].op = "owns_recipe" /\ Steps(c)[j - 3].recipe = Steps(c)[j].recipe
         /\ Steps(c)[j - 3].part = Steps(c)[j - 1].part
         /\ Steps(c)[j - 2].op = "begin" /\ Steps(c)[j - 1].op = "clear_default"
  <1>1. /\ WellPlaced(Steps(c), Depth(c), j) /\ Steps(c)[j] \in Instructions /\ j \in Nat
        /\ Len(Steps(c)) \in Nat
    BY CallStep
  <1>2. /\ j > 3 /\ Steps(c)[j - 3].op = "owns_recipe"
        /\ Steps(c)[j - 3].recipe = Steps(c)[j].recipe
        /\ Steps(c)[j - 3].part = Steps(c)[j - 1].part
        /\ Steps(c)[j - 2].op = "begin" /\ Steps(c)[j - 1].op = "clear_default"
    BY <1>1 DEF WellPlaced, DefaultPlaced
  <1>3. Steps(c)[j].recipe \in Recipes
    BY <1>1 DEF Instructions
  <1>4. j - 3 \in 1..Len(Steps(c))
    BY <1>1, <1>2
  <1>5. Steps(c)[j - 3] \in Instructions
    BY <1>4, CallStep
  <1>6. Steps(c)[j - 3].part \in Parts
    BY <1>2, <1>5 DEF Instructions
  <1> QED
    BY <1>1, <1>2, <1>3, <1>6

\* What may follow step j of a call.
LEMMA Follows ==
  ASSUME NEW c \in Calls \cup BootCalls, NEW j \in 1..Len(Steps(c)),
         j + 1 \in 1..Len(Steps(c))
  PROVE  LET x == Steps(c)[j]
             y == Steps(c)[j + 1]
         IN /\ y.op = "load" => x.op = "clear" /\ x.printer = y.printer
            /\ y.op = "set_default" => x.op = "clear_default"
            /\ y.op = "piece" => \/ y.copy = 1
                                 \/ x.op = "piece" /\ x.copy = y.copy - 1
  <1>1. WellPlaced(Steps(c), Depth(c), j + 1) /\ j \in Nat
    BY CallStep
  <1>2. (j + 1) - 1 = j
    BY <1>1
  <1> QED
    BY <1>1, <1>2 DEF WellPlaced, LoadPlaced, DefaultPlaced, PiecePlaced

LEMMA PartialFromOne ==
  ASSUME NEW db
  PROVE  PlateSound(db) <=> PlatePartial(db, 1)
  BY DEF PlateSound, PlatePartial

\* t is at the step after a step j that leaves the data as sound as a commit does.
LEMMA ReadyNext ==
  ASSUME NEW t \in Threads, NEW c \in Calls \cup BootCalls, NEW j \in 1..Len(Steps(c)),
         Steps(c)[j].op \notin {"clear", "clear_default", "piece"},
         j + 1 = Len(Steps(c)) + 1 => lock' # t,
         j + 1 # Len(Steps(c)) + 1 =>
           /\ thread'[t] = [call |-> c, pc |-> j + 1, raising |-> "no"]
           /\ j + 1 \in 1..Len(Steps(c)),
         PlateSound(work')
  PROVE  Ready(t)'
  <1>1. CASE j + 1 = Len(Steps(c)) + 1
    BY <1>1 DEF Ready
  <1>2. CASE j + 1 # Len(Steps(c)) + 1
    <2>1. Step(t)' = Steps(c)[j + 1]
      BY <1>2 DEF Step
    <2>2. /\ Steps(c)[j + 1].op \notin {"load", "set_default"}
          /\ Steps(c)[j + 1].op = "piece" => Steps(c)[j + 1].copy = 1
      BY <1>2, Follows
    <2> QED
      BY <2>1, <2>2, PartialFromOne DEF Ready
  <1> QED
    BY <1>1, <1>2

\* Nobody else has the lock.
LEMMA OthersReady ==
  ASSUME NEW t, lock' \in {NoThread, t}
  PROVE  \A u \in Threads \ {t} : Ready(u)'
  BY DEF Ready

\* Other threads know what they knew.
LEMMA OthersChecked ==
  ASSUME IInv, NEW t \in Threads, KeepsOwners,
         \A u \in Threads \ {t} : thread'[u] = thread[u]
  PROVE  \A u \in Threads \ {t} : OwnerChecked(u)'
  <1> SUFFICES ASSUME NEW u \in Threads \ {t}, Busy(u), thread[u].raising = "no",
                      NEW s, s = Steps(thread[u].call),
                      NEW j \in 1..Len(s), s[j].op = "set_default",
                      thread[u].pc \in {j - 2, j - 1, j},
                      NEW a, a = s[j - 3].part, NEW r, r = s[j].recipe
               PROVE  OwnerKnown(a, r)'
    BY DEF OwnerChecked, Busy
  <1>1. thread[u].call \in Calls \cup BootCalls
    BY DEF IInv, Shape, Placed, Busy, Idle
  <1>2. OwnerKnown(a, r)
    BY DEF IInv, OwnerChecked
  <1>3. a \in Parts /\ r \in Recipes
    BY <1>1, DefaultAt
  <1> QED
    BY <1>2, <1>3 DEF KeepsOwners

\* t went on to the next step, and if it asked for the owner of a recipe, the answer
\* was yes.
LEMMA CheckedNext ==
  ASSUME IInv, NEW t \in Threads, Running(t), KeepsOwners,
         thread[t].pc + 1 = Len(Steps(thread[t].call)) + 1 => thread'[t] = Idle,
         thread[t].pc + 1 # Len(Steps(thread[t].call)) + 1 =>
           thread'[t] = [call |-> thread[t].call, pc |-> thread[t].pc + 1, raising |-> "no"],
         \A a \in Parts, r \in Recipes :
           Step(t).op = "owns_recipe" /\ a = Step(t).part /\ r = Step(t).recipe
             => OwnerKnown(a, r)'
  PROVE  OwnerChecked(t)'
  <1>1. PICK c \in Calls \cup BootCalls, i \in Nat :
          c = thread[t].call /\ i = thread[t].pc /\ i \in 1..Len(Steps(c))
    BY RunningStep, CallStep DEF IInv
  <1>2. PICK s : s = Steps(c)
    OBVIOUS
  <1>3. CASE i + 1 = Len(s) + 1
    BY <1>1, <1>2, <1>3 DEF OwnerChecked, Busy, Idle
  <1>4. CASE i + 1 # Len(s) + 1
    <2>1. thread'[t] = [call |-> c, pc |-> i + 1, raising |-> "no"]
      BY <1>1, <1>2, <1>4
    <2> SUFFICES ASSUME NEW j \in 1..Len(s), s[j].op = "set_default", i + 1 \in {j - 2, j - 1, j},
                        NEW a, a = s[j - 3].part, NEW r, r = s[j].recipe
                 PROVE  OwnerKnown(a, r)'
      BY <2>1, <1>2 DEF OwnerChecked
    <2>2. /\ j \in Nat /\ r \in Recipes /\ a \in Parts
          /\ s[j - 3].op = "owns_recipe" /\ s[j - 3].recipe = r
      BY <1>2, DefaultAt
    <2>3. CASE i + 1 = j - 2
      <3>1. i = j - 3
        BY <2>2, <2>3
      <3>2. Step(t) = s[j - 3]
        BY <3>1, <1>1, <1>2 DEF Step
      <3> QED
        BY <3>2, <2>2
    <2>4. CASE i + 1 \in {j - 1, j}
      <3>1. i \in {j - 2, j - 1, j}
        BY <2>2, <2>4
      <3>2. Busy(t) /\ thread[t].raising = "no" /\ OwnerChecked(t)
        BY DEF IInv, Running, Busy
      <3>3. OwnerKnown(a, r)
        BY <3>1, <3>2, <1>1, <1>2 DEF OwnerChecked
      <3> QED
        BY <3>3, <2>2 DEF KeepsOwners
    <2> QED
      BY <2>3, <2>4
  <1> QED
    BY <1>3, <1>4

\* A step outside of blocks that leaves the data alone.
LEMMA DataKept ==
  ASSUME IInv, UNCHANGED <<disk, work, saves, blocks, lock>>, lock = NoThread
  PROVE  DataSound' /\ KeepsOwners /\ \A u \in Threads : Ready(u)'
  <1>1. DataSound'
    BY DEF IInv, DataSound
  <1>2. KeepsOwners
    BY DEF KeepsOwners, OwnerKnown
  <1>3. \A u \in Threads : Ready(u)'
    BY DEF Ready
  <1> QED
    BY <1>1, <1>2, <1>3

LEMMA QueryIInv ==
  ASSUME IInv, NEW t \in Threads, Query(t)
  PROVE  IInv'
  <1>1. Shape'
    BY QueryShape DEF IInv
  <1>2. /\ thread[t].call \in Calls \cup BootCalls
        /\ thread[t].pc \in 1..Len(Steps(thread[t].call))
        /\ Step(t) \in Instructions
        /\ WellPlaced(Steps(thread[t].call), Depth(thread[t].call), thread[t].pc)
    BY RunningStep DEF IInv, Query
  <1>3. lock = NoThread /\ blocks = <<>>
    <2>1. Depth(thread[t].call)[thread[t].pc] = 0
      BY <1>2 DEF WellPlaced, Nested, Query, Step
    <2>2. Len(blocks) = 0
      BY <2>1, OpenBlocks DEF IInv, Query, MayLock
    <2>3. blocks = <<>>
      BY <2>2, EmptySeq DEF IInv, Shape, TypeOK
    <2> QED
      BY <2>3 DEF IInv, Shape, Locking
  <1>4. UNCHANGED <<disk, work, saves, blocks, lock>>
    BY DEF Query, file, conn
  <1>5. DataSound' /\ KeepsOwners /\ \A u \in Threads : Ready(u)'
    BY <1>3, <1>4, DataKept
  <1>6. OwnerChecked(t)' /\ \A u \in Threads \ {t} : thread'[u] = thread[u]
    <2>1. CASE Answer(Step(t), work)
      <3>1. Continue(t, thread[t].pc + 1)
        BY <2>1 DEF Query
      <3>2. thread[t].pc + 1 \in 1..(Len(Steps(thread[t].call)) + 1)
        BY <1>2, CallStep
      <3>3. /\ \A u \in Threads \ {t} : thread'[u] = thread[u]
            /\ thread[t].pc + 1 = Len(Steps(thread[t].call)) + 1 => thread'[t] = Idle
            /\ thread[t].pc + 1 # Len(Steps(thread[t].call)) + 1 =>
                 thread'[t] = [call |-> thread[t].call, pc |-> thread[t].pc + 1, raising |-> "no"]
        BY <3>1, <3>2, <1>2, Continues DEF IInv, Shape
      <3>4. ASSUME NEW a \in Parts, NEW r \in Recipes, Step(t).op = "owns_recipe",
                   a = Step(t).part, r = Step(t).recipe
            PROVE  OwnerKnown(a, r)'
        BY <2>1, <3>4, <1>3, <1>4 DEF Answer, OwnerKnown, Owner
      <3>5. OwnerChecked(t)'
        BY <3>3, <3>4, <1>5, CheckedNext DEF Query
      <3> QED
        BY <3>3, <3>5
    <2>2. CASE ~Answer(Step(t), work)
      <3>1. thread'[t] = Idle /\ \A u \in Threads \ {t} : thread'[u] = thread[u]
        BY <2>2, Abandons DEF IInv, Query
      <3> QED
        BY <3>1 DEF OwnerChecked, Busy, Idle
    <2> QED
      BY <2>1, <2>2
  <1>7. \A u \in Threads : OwnerChecked(u)'
    BY <1>5, <1>6, OthersChecked
  <1> QED
    BY <1>1, <1>5, <1>7 DEF IInv

LEMMA EnterRefusedIInv ==
  ASSUME IInv, NEW t \in Threads, EnterRefused(t)
  PROVE  IInv'
  <1>1. Shape'
    BY EnterRefusedShape DEF IInv
  <1>2. lock = NoThread
    BY DEF EnterRefused, IInv, Shape, Locking
  <1>3. UNCHANGED <<disk, work, saves, blocks, lock>>
    BY DEF EnterRefused, file, conn
  <1>4. DataSound' /\ KeepsOwners /\ \A u \in Threads : Ready(u)'
    BY <1>2, <1>3, DataKept
  <1>5. thread'[t] = Idle /\ \A u \in Threads \ {t} : thread'[u] = thread[u]
    BY Abandons DEF IInv, EnterRefused
  <1>6. OwnerChecked(t)'
    BY <1>5 DEF OwnerChecked, Busy, Idle
  <1>7. \A u \in Threads : OwnerChecked(u)'
    BY <1>4, <1>5, <1>6, OthersChecked
  <1> QED
    BY <1>1, <1>4, <1>7 DEF IInv

\* A call begins with no recipe's owner checked.
LEMMA CallChecked ==
  ASSUME IInv, NEW t \in Threads, NEW c \in Calls \cup BootCalls, Call(t, c), KeepsOwners
  PROVE  \A u \in Threads : OwnerChecked(u)'
  <1>1. /\ \A u \in Threads \ {t} : thread'[u] = thread[u]
        /\ thread'[t] = [call |-> c, pc |-> 1, raising |-> "no"]
    BY DEF Call, IInv, Shape, TypeOK
  <1>2. OwnerChecked(t)'
    <2> SUFFICES ASSUME NEW j \in 1..Len(Steps(c)), Steps(c)[j].op = "set_default"
                 PROVE  1 \notin {j - 2, j - 1, j}
      BY <1>1 DEF OwnerChecked
    <2> QED
      BY DefaultAt
  <1> QED
    BY <1>1, <1>2, OthersChecked

LEMMA IssueIInv ==
  ASSUME IInv, NEW t \in Threads, NEW c \in Group[clients], Issue(t, c)
  PROVE  IInv'
  <1>1. Shape'
    BY IssueShape DEF IInv
  <1>2. lock = NoThread /\ UNCHANGED <<disk, work, saves, blocks, lock>>
    BY DEF Issue, file, conn
  <1>3. DataSound' /\ KeepsOwners /\ \A u \in Threads : Ready(u)'
    BY <1>2, DataKept
  <1>4. c \in Calls
    BY GroupsAreCalls DEF IInv, Shape, TypeOK
  <1>5. \A u \in Threads : OwnerChecked(u)'
    BY <1>3, <1>4, CallChecked DEF Issue
  <1> QED
    BY <1>1, <1>3, <1>5 DEF IInv

LEMMA BootIInv ==
  ASSUME IInv, Boot
  PROVE  IInv'
  <1>1. Shape'
    BY BootShape DEF IInv
  <1>2. lock = NoThread
    BY AllIdle DEF IInv, Boot
  <1>3. UNCHANGED <<disk, work, saves, blocks, lock>>
    BY DEF Boot, file, conn
  <1>4. DataSound' /\ KeepsOwners /\ \A u \in Threads : Ready(u)'
    BY <1>2, <1>3, DataKept
  <1>5. ASSUME NEW c \in BootCalls, Call(Main, c)
        PROVE  IInv'
    <2>1. \A u \in Threads : OwnerChecked(u)'
      BY <1>4, <1>5, CallChecked
    <2> QED
      BY <2>1, <1>1, <1>4 DEF IInv
  <1>6. CASE thread' = thread
    <2>1. Main \in Threads /\ \A u \in Threads \ {Main} : OwnerChecked(u)'
      BY <1>4, <1>6, OthersChecked
    <2>2. OwnerChecked(Main)'
      <3>1. thread'[Main] = Idle
        BY <1>6 DEF Boot
      <3> QED
        BY <3>1 DEF OwnerChecked, Busy, Idle
    <2> QED
      BY <1>1, <1>4, <2>1, <2>2 DEF IInv
  <1>7. (\E c \in BootCalls : Call(Main, c)) \/ thread' = thread
    <2>1. ASSUME work.version < Versions
          PROVE  [do |-> "migrate", version |-> work.version + 1] \in BootCalls
      <3>1. work.version + 1 \in 1..Versions
        BY <2>1 DEF IInv, Shape, TypeOK, Database, Versions
      <3> QED
        BY <3>1 DEF BootCalls
    <2>2. [do |-> "seed_badges"] \in BootCalls
      BY DEF BootCalls
    <2> QED
      BY <2>1, <2>2 DEF Boot
  <1> QED
    BY <1>5, <1>6, <1>7

LEMMA EnterIInv ==
  ASSUME IInv, NEW t \in Threads, Enter(t)
  PROVE  IInv'
  <1>1. Shape'
    BY EnterShape DEF IInv
  <1>2. PICK c \in Calls \cup BootCalls, i \in Nat :
          /\ c = thread[t].call /\ i = thread[t].pc /\ i \in 1..Len(Steps(c))
          /\ i + 1 \in 1..(Len(Steps(c)) + 1)
    BY RunningStep, CallStep DEF IInv, Enter
  <1>3. Steps(c)[i].op = "begin"
    BY <1>2 DEF Enter, Step
  <1>4. /\ lock' = t /\ saves' = Append(saves, work) /\ disk' = disk /\ work' = work
        /\ blocks = <<>> => saves = <<>>
        /\ Continue(t, i + 1) /\ Running(t) /\ lock \in {NoThread, t}
    BY <1>2 DEF Enter, file, MayLock
  <1>5. /\ \A u \in Threads \ {t} : thread'[u] = thread[u]
        /\ i + 1 = Len(Steps(c)) + 1 => thread'[t] = Idle
        /\ i + 1 # Len(Steps(c)) + 1 =>
             /\ thread'[t] = [call |-> c, pc |-> i + 1, raising |-> "no"]
             /\ i + 1 \in 1..Len(Steps(c))
    BY <1>2, <1>4, Continues DEF IInv, Shape
  <1>6. /\ Len(saves) \in Nat /\ Len(saves') = Len(saves) + 1
        /\ saves'[Len(saves) + 1] = work
        /\ \A k \in 1..Len(saves) : saves'[k] = saves[k]
    BY <1>4, Growth DEF IInv, Shape, TypeOK
  <1>7. PlateSound(work)
    <2>1. CASE lock = NoThread
      BY <2>1 DEF IInv, DataSound
    <2>2. CASE lock = t
      <3>1. Ready(t) /\ Step(t).op # "piece"
        BY DEF IInv, Enter
      <3> QED
        BY <2>2, <3>1, <1>4 DEF Ready, Running
    <2> QED
      BY <2>1, <2>2, <1>4
  <1>8. DataSound'
    <2>1. ASSUME NEW k \in 1..Len(saves')
          PROVE  Sound(saves'[k]) /\ PlateSound(saves'[k])
      <3>1. CASE k = Len(saves) + 1
        BY <3>1, <1>6, <1>7 DEF IInv, DataSound
      <3>2. CASE k # Len(saves) + 1
        <4>1. k \in 1..Len(saves) /\ saves'[k] = saves[k]
          BY <3>2, <1>6
        <4> QED
          BY <4>1 DEF IInv, DataSound
      <3> QED
        BY <3>1, <3>2
    <2> QED
      BY <2>1, <1>4 DEF IInv, DataSound
  <1>9. KeepsOwners
    <2> SUFFICES ASSUME NEW a \in Parts, NEW r \in Recipes, OwnerKnown(a, r)
                 PROVE  OwnerKnown(a, r)'
      BY DEF KeepsOwners
    <2>1. ASSUME NEW k \in 1..Len(saves')
          PROVE  Owner(saves'[k], r) = a
      <3>1. CASE k = Len(saves) + 1
        BY <3>1, <1>6 DEF OwnerKnown
      <3>2. CASE k # Len(saves) + 1
        <4>1. k \in 1..Len(saves) /\ saves'[k] = saves[k]
          BY <3>2, <1>6
        <4>2. saves # <<>>
          BY <4>1
        <4> QED
          BY <4>1, <4>2, <1>4 DEF OwnerKnown
      <3> QED
        BY <3>1, <3>2
    <2> QED
      BY <2>1, <1>4 DEF OwnerKnown
  <1>10. Ready(t)'
    <2>1. i + 1 # Len(Steps(c)) + 1
      BY <1>1, <1>4, <1>5 DEF Shape, Placed, Busy, Idle
    <2> QED
      BY <2>1, <1>2, <1>3, <1>4, <1>5, <1>7, ReadyNext
  <1>11. \A u \in Threads : Ready(u)'
    BY <1>4, <1>10, OthersReady
  <1>12. OwnerChecked(t)'
    <2>1. Step(t).op # "owns_recipe"
      BY DEF Enter
    <2> QED
      BY <2>1, <1>2, <1>4, <1>5, <1>9, CheckedNext
  <1>13. \A u \in Threads : OwnerChecked(u)'
    BY <1>5, <1>9, <1>12, OthersChecked
  <1> QED
    BY <1>1, <1>8, <1>11, <1>13 DEF IInv

\* A statement of t raises: nothing is ready, nothing needs to be.
LEMMA RaisesIInv ==
  ASSUME IInv, Shape', NEW t \in Threads, Running(t), lock = t,
         NEW x \in {"integrity", "operational"}, Raise(t, x),
         UNCHANGED <<disk, work, saves, blocks, lock>>
  PROVE  IInv'
  <1>1. /\ \A u \in Threads \ {t} : thread'[u] = thread[u]
        /\ thread'[t].raising = x /\ x # "no"
    BY DEF Raise, IInv, Shape, TypeOK, Calling
  <1>2. DataSound'
    BY DEF IInv, DataSound
  <1>3. KeepsOwners
    BY DEF KeepsOwners, OwnerKnown
  <1>4. Ready(t)' /\ OwnerChecked(t)'
    BY <1>1 DEF Ready, OwnerChecked
  <1>5. \A u \in Threads : Ready(u)'
    BY <1>4, OthersReady
  <1>6. \A u \in Threads : OwnerChecked(u)'
    BY <1>1, <1>3, <1>4, OthersChecked
  <1> QED
    BY <1>2, <1>5, <1>6 DEF IInv

LEMMA StatementFailsIInv ==
  ASSUME IInv, NEW t \in Threads, StatementFails(t)
  PROVE  IInv'
  <1>1. Shape'
    BY StatementFailsShape DEF IInv
  <1>2. /\ Running(t) /\ lock = t /\ Raise(t, "operational")
        /\ UNCHANGED <<disk, work, saves, blocks, lock>>
    BY DEF StatementFails, InBlock, file, conn
  <1> QED
    BY <1>1, <1>2, RaisesIInv

\* The data after a statement of t, ready for the next one.
LEMMA ExecuteReady ==
  ASSUME IInv, NEW t \in Threads, Execute(t), ~Violates(Step(t), work)
  PROVE  /\ Sound(work') /\ Ready(t)' /\ KeepsOwners
         /\ \A u \in Threads \ {t} : thread'[u] = thread[u]
         /\ thread[t].pc + 1 = Len(Steps(thread[t].call)) + 1 => thread'[t] = Idle
         /\ thread[t].pc + 1 # Len(Steps(thread[t].call)) + 1 =>
              thread'[t] = [call |-> thread[t].call, pc |-> thread[t].pc + 1, raising |-> "no"]
  <1>1. /\ Running(t) /\ lock = t /\ blocks # <<>>
        /\ Step(t) \in Instructions /\ Statement(Step(t))
        /\ Shape /\ Ready(t) /\ DataSound /\ work \in Database
    BY InOpenBlock DEF Execute, IInv, Shape, TypeOK
  <1>2. PICK c \in Calls \cup BootCalls, i \in Nat :
          /\ c = thread[t].call /\ i = thread[t].pc /\ i \in 1..Len(Steps(c))
          /\ i + 1 \in 1..(Len(Steps(c)) + 1)
          /\ WellPlaced(Steps(c), Depth(c), i)
    BY <1>1, RunningStep, CallStep
  <1>3. PICK x \in Instructions : x = Step(t) /\ Statement(x) /\ x = Steps(c)[i]
    BY <1>1, <1>2 DEF Step
  <1>4. /\ work' = Effect(x, work) /\ Continue(t, i + 1) /\ lock' = t
        /\ UNCHANGED <<saves, blocks>>
    BY <1>1, <1>2, <1>3 DEF Execute
  <1>5. /\ \A u \in Threads \ {t} : thread'[u] = thread[u]
        /\ i + 1 = Len(Steps(c)) + 1 => thread'[t] = Idle
        /\ i + 1 # Len(Steps(c)) + 1 =>
             /\ thread'[t] = [call |-> c, pc |-> i + 1, raising |-> "no"]
             /\ i + 1 \in 1..Len(Steps(c))
    BY <1>1, <1>2, <1>4, Continues DEF Shape
  <1>6. /\ SpoolsSound(work')
        /\ x.op = "clear" => Loaded(work', x.printer) = {}
    <2>1. x.op = "load" => Loaded(work, x.printer) = {}
      BY <1>1, <1>3 DEF Ready, Running
    <2> QED
      BY <2>1, <1>1, <1>3, <1>4, EffectSpools DEF DataSound, Sound
  <1>7. /\ DefaultsSound(work')
        /\ x.op = "clear_default" => Defaults(work', x.part) = {}
        /\ \A r \in Recipes : Owner(work, r) # None => Owner(work', r) = Owner(work, r)
    <2>1. ASSUME x.op = "set_default"
          PROVE  Owner(work, x.recipe) \in Parts /\ Defaults(work, Owner(work, x.recipe)) = {}
      <3>1. /\ i > 3 /\ Steps(c)[i - 3].part \in Parts /\ x.recipe \in Recipes
            /\ Steps(c)[i - 3].part = Steps(c)[i - 1].part
        <4>1. Steps(c)[i].op = "set_default" /\ i \in 1..Len(Steps(c))
          BY <2>1, <1>2, <1>3
        <4>2. /\ i > 3 /\ Steps(c)[i - 3].part \in Parts /\ Steps(c)[i].recipe \in Recipes
              /\ Steps(c)[i - 3].part = Steps(c)[i - 1].part
          BY <4>1, DefaultAt
        <4> QED
          BY <4>2, <1>3
      <3>2. Defaults(work, Steps(c)[i - 1].part) = {}
        BY <2>1, <1>1, <1>2, <1>3 DEF Ready, Running
      <3>3. OwnerKnown(Steps(c)[i - 3].part, x.recipe)
        <4>1. OwnerChecked(t) /\ Busy(t) /\ thread[t].raising = "no"
          BY <1>1 DEF IInv, Running, Busy
        <4>2. i \in {i - 2, i - 1, i} /\ Steps(c)[i].op = "set_default"
          BY <2>1, <1>3
        <4>3. \A j \in 1..Len(Steps(c)) :
                Steps(c)[j].op = "set_default" /\ i \in {j - 2, j - 1, j} =>
                  OwnerKnown(Steps(c)[j - 3].part, Steps(c)[j].recipe)
          BY <4>1, <1>2 DEF OwnerChecked
        <4>4. OwnerKnown(Steps(c)[i - 3].part, Steps(c)[i].recipe)
          BY <4>2, <4>3, <1>2
        <4> QED
          BY <4>4, <1>3
      <3> QED
        BY <3>1, <3>2, <3>3 DEF OwnerKnown
    <2>2. ~Violates(x, work)
      BY <1>3
    <2> QED
      BY <2>1, <2>2, <1>1, <1>3, <1>4, EffectDefaults DEF DataSound, Sound
  <1>8. KeepsOwners
    <2> SUFFICES ASSUME NEW a \in Parts, NEW r \in Recipes, OwnerKnown(a, r)
                 PROVE  OwnerKnown(a, r)'
      BY DEF KeepsOwners
    <2>1. Owner(work, r) # None
      BY RowsAssumption DEF OwnerKnown
    <2> QED
      BY <2>1, <1>4, <1>7 DEF OwnerKnown
  <1>9. i + 1 \in 1..Len(Steps(c)) /\ thread'[t] = [call |-> c, pc |-> i + 1, raising |-> "no"]
    <2>1. Shape'
      BY <1>1, ExecuteShape
    <2>2. Placed(t)'
      BY <2>1 DEF Shape
    <2>3. Busy(t)'
      BY <2>2, <1>4 DEF Placed
    <2>4. thread'[t] # Idle
      BY <2>3 DEF Busy, Idle
    <2> QED
      BY <2>4, <1>5
  <1>10. PICK y : y = Steps(c)[i + 1]
    OBVIOUS
  <1>11. /\ y.op = "load" => x.op = "clear" /\ x.printer = y.printer
         /\ y.op = "set_default" => x.op = "clear_default"
         /\ y.op = "piece" => \/ y.copy = 1
                              \/ x.op = "piece" /\ x.copy = y.copy - 1
    BY <1>2, <1>3, <1>9, <1>10, Follows
  <1>12. Step(t)' = y /\ (i + 1) - 1 = i
    BY <1>9, <1>10 DEF Step
  <1>13. IF y.op = "piece" THEN PlatePartial(work', y.copy) ELSE PlateSound(work')
    <2>1. CASE x.op # "piece"
      <3>1. PlateSound(work)
        BY <2>1, <1>1, <1>3 DEF Ready, Running
      <3>2. PlateSound(work')
        BY <2>1, <3>1, <1>1, <1>3, <1>4, EffectPlate
      <3> QED
        BY <2>1, <3>2, <1>11, PartialFromOne
    <2>2. CASE x.op = "piece"
      <3>1. PlatePartial(work, x.copy)
        BY <2>2, <1>1, <1>3 DEF Ready, Running
      <3>2. PlatePartial(work', x.copy + 1) /\ x.copy \in 1..Copies
        BY <2>2, <3>1, <1>1, <1>3, <1>4, EffectPlate, Fields
      <3>3. /\ x.copy < Copies => y.op = "piece" /\ y.copy = x.copy + 1
            /\ x.copy = Copies => y.op = "end"
        BY <2>2, <1>2, <1>3, <1>10 DEF WellPlaced, PiecePlaced
      <3>4. CASE x.copy < Copies
        BY <3>2, <3>3, <3>4
      <3>5. CASE x.copy = Copies
        <4>1. \A j \in 1..Copies : work'.pieces[j] # "none"
          BY <3>2, <3>5 DEF PlatePartial
        <4> QED
          BY <4>1, <3>3, <3>5 DEF PlateSound
      <3> QED
        BY <3>2, <3>4, <3>5, RowsAssumption
    <2> QED
      BY <2>1, <2>2
  <1>14. Ready(t)'
    <2>1. y.op = "load" => Loaded(work', y.printer) = {}
      BY <1>6, <1>11
    <2>2. y.op = "set_default" => Defaults(work', Steps(c)[i].part) = {}
      BY <1>3, <1>7, <1>11
    <2> QED
      BY <2>1, <2>2, <1>9, <1>12, <1>13 DEF Ready
  <1> QED
    BY <1>2, <1>5, <1>6, <1>7, <1>8, <1>14 DEF Sound

LEMMA ExecuteIInv ==
  ASSUME IInv, NEW t \in Threads, Execute(t)
  PROVE  IInv'
  <1>1. Shape'
    BY ExecuteShape DEF IInv
  <1>2. /\ Running(t) /\ lock = t /\ UNCHANGED <<disk, saves, blocks, lock>>
        /\ Statement(Step(t))
    BY InOpenBlock DEF IInv, Execute, file
  <1>3. CASE Violates(Step(t), work)
    <2>1. work' = work /\ \E x \in {"integrity", "operational"} : Raise(t, x)
      BY <1>3 DEF Execute
    <2> QED
      BY <2>1, <1>1, <1>2, RaisesIInv
  <1>4. CASE ~Violates(Step(t), work)
    <2>1. /\ Sound(work') /\ Ready(t)' /\ KeepsOwners
          /\ \A u \in Threads \ {t} : thread'[u] = thread[u]
          /\ thread[t].pc + 1 = Len(Steps(thread[t].call)) + 1 => thread'[t] = Idle
          /\ thread[t].pc + 1 # Len(Steps(thread[t].call)) + 1 =>
               thread'[t] = [call |-> thread[t].call, pc |-> thread[t].pc + 1, raising |-> "no"]
      BY <1>4, ExecuteReady
    <2>2. DataSound'
      BY <2>1, <1>2 DEF IInv, DataSound
    <2>3. \A u \in Threads : Ready(u)'
      BY <2>1, <1>2, OthersReady
    <2>4. OwnerChecked(t)'
      <3>1. Step(t).op # "owns_recipe"
        BY <1>2 DEF Statement, Queries
      <3> QED
        BY <2>1, <3>1, <1>2, CheckedNext
    <2>5. \A u \in Threads : OwnerChecked(u)'
      BY <2>1, <2>4, OthersChecked
    <2> QED
      BY <1>1, <2>2, <2>3, <2>5 DEF IInv
  <1> QED
    BY <1>3, <1>4

\* t is at the end of a block: its plate is whole.
LEMMA AtEnd ==
  ASSUME IInv, NEW t \in Threads, Running(t), lock = t, Step(t).op = "end"
  PROVE  PlateSound(work)
  <1>1. Ready(t)
    BY DEF IInv
  <1> QED
    BY <1>1 DEF Ready, Running

\* Fewer savepoints know what more of them knew.
LEMMA FewerSaves ==
  ASSUME blocks # <<>>, NEW n \in Nat, Len(saves) = n + 1, Len(saves') = n,
         \A k \in 1..n : saves'[k] = saves[k],
         work' = work \/ work' = saves[n + 1]
  PROVE  KeepsOwners
  <1> SUFFICES ASSUME NEW a \in Parts, NEW r \in Recipes, OwnerKnown(a, r)
               PROVE  OwnerKnown(a, r)'
    BY DEF KeepsOwners
  <1>1. \A k \in 1..(n + 1) : Owner(saves[k], r) = a
    BY DEF OwnerKnown
  <1>2. Owner(work, r) = a
    BY DEF OwnerKnown
  <1>3. n + 1 \in 1..(n + 1)
    OBVIOUS
  <1>4. Owner(work', r) = a
    BY <1>1, <1>2, <1>3
  <1>5. \A k \in 1..n : k \in 1..(n + 1)
    OBVIOUS
  <1>6. \A k \in 1..n : Owner(saves'[k], r) = a
    BY <1>1, <1>5
  <1> QED
    BY <1>4, <1>6 DEF OwnerKnown

LEMMA LeaveIInv ==
  ASSUME IInv, NEW t \in Threads, Leave(t)
  PROVE  IInv'
  <1>1. Shape' /\ Shape
    BY LeaveShape DEF IInv
  <1>2. PICK c \in Calls \cup BootCalls, i \in Nat :
          /\ c = thread[t].call /\ i = thread[t].pc /\ i \in 1..Len(Steps(c))
          /\ i + 1 \in 1..(Len(Steps(c)) + 1)
    BY <1>1, RunningStep, CallStep DEF Leave
  <1>3. /\ Running(t) /\ lock = t /\ LeaveBlock /\ saves' = Pop(saves)
        /\ disk' \in {work, disk} /\ work' = work /\ Continue(t, i + 1)
        /\ Step(t).op = "end" /\ Steps(c)[i].op = "end"
    BY <1>2 DEF Leave, Step
  <1>4. PICK n \in Nat :
          /\ blocks # <<>> /\ Len(saves) = n + 1 /\ Len(saves') = n
          /\ \A k \in 1..n : saves'[k] = saves[k]
          /\ lock' \in {NoThread, t}
    <2>1. /\ Len(blocks) \in Nat \ {0} /\ Len(saves) = Len(blocks) /\ blocks # <<>>
          /\ Len(saves') = Len(blocks) - 1
          /\ \A k \in 1..(Len(blocks) - 1) : saves'[k] = saves[k]
          /\ lock' \in {NoThread, t}
      BY <1>1, <1>3, LeavesBlock
    <2>2. PICK n \in Nat : Len(blocks) = n + 1 /\ Len(blocks) - 1 = n
      BY <2>1
    <2> QED
      BY <2>1, <2>2
  <1>5. PlateSound(work)
    BY <1>3, AtEnd
  <1>6. DataSound'
    <2>1. DataSound
      BY DEF IInv
    <2>2. \A k \in 1..n : k \in 1..(n + 1)
      OBVIOUS
    <2>3. \A k \in 1..n : Sound(saves'[k]) /\ PlateSound(saves'[k])
      BY <2>1, <2>2, <1>4 DEF DataSound
    <2> QED
      BY <2>1, <2>3, <1>3, <1>4, <1>5 DEF DataSound
  <1>7. KeepsOwners
    BY <1>3, <1>4, FewerSaves
  <1>8. /\ \A u \in Threads \ {t} : thread'[u] = thread[u]
        /\ i + 1 = Len(Steps(c)) + 1 => thread'[t] = Idle
        /\ i + 1 # Len(Steps(c)) + 1 =>
             /\ thread'[t] = [call |-> c, pc |-> i + 1, raising |-> "no"]
             /\ i + 1 \in 1..Len(Steps(c))
    BY <1>1, <1>2, <1>3, Continues DEF Shape
  <1>9. i + 1 = Len(Steps(c)) + 1 => lock' # t
    <2>1. Placed(t)'
      BY <1>1 DEF Shape
    <2> QED
      BY <2>1, <1>8 DEF Placed, Busy, Idle
  <1>10. Ready(t)'
    BY <1>2, <1>3, <1>5, <1>8, <1>9, ReadyNext
  <1>11. \A u \in Threads : Ready(u)'
    <2>1. lock' \in {NoThread, t}
      BY <1>4
    <2>2. \A u \in Threads \ {t} : Ready(u)'
      BY <2>1 DEF Ready
    <2> QED
      BY <2>2, <1>10
  <1>12. OwnerChecked(t)'
    BY <1>2, <1>3, <1>7, <1>8, CheckedNext
  <1>13. \A u \in Threads : OwnerChecked(u)'
    BY <1>7, <1>8, <1>12, OthersChecked
  <1> QED
    BY <1>1, <1>6, <1>11, <1>13 DEF IInv

LEMMA CommitRefusedIInv ==
  ASSUME IInv, NEW t \in Threads, CommitRefused(t)
  PROVE  IInv'
  <1>1. Shape' /\ Shape
    BY CommitRefusedShape DEF IInv
  <1>2. /\ Running(t) /\ lock = t /\ Step(t).op = "end" /\ Abandon(t)
        /\ LeaveBlock /\ Len(blocks) = 1
        /\ UNCHANGED <<disk, work, saves>>
    BY DEF CommitRefused, file
  <1>3. blocks' = <<>> /\ lock' = NoThread
    <2>1. blocks \in Seq([pc : Nat, entry : Database]) /\ blocks # <<>>
      BY <1>1, <1>2 DEF Shape, TypeOK, Locking
    <2> QED
      BY <1>2, <2>1, Stacks DEF LeaveBlock
  <1>4. DataSound'
    <2>1. PlateSound(work)
      BY <1>2, AtEnd
    <2> QED
      BY <2>1, <1>2 DEF IInv, DataSound
  <1>5. KeepsOwners
    BY <1>2, <1>3 DEF KeepsOwners, OwnerKnown
  <1>6. \A u \in Threads : Ready(u)'
    BY <1>3 DEF Ready
  <1>7. thread'[t] = Idle /\ \A u \in Threads \ {t} : thread'[u] = thread[u]
    BY <1>1, <1>2, Abandons
  <1>8. OwnerChecked(t)'
    BY <1>7 DEF OwnerChecked, Busy, Idle
  <1>9. \A u \in Threads : OwnerChecked(u)'
    BY <1>5, <1>7, <1>8, OthersChecked
  <1> QED
    BY <1>1, <1>4, <1>6, <1>9 DEF IInv

\* After the end of a block no recipe is about to be made a default.
LEMMA CheckedAfterEnd ==
  ASSUME NEW t \in Threads, NEW c \in Calls \cup BootCalls, NEW k \in 1..Len(Steps(c)),
         Steps(c)[k].op = "end",
         thread'[t] = [call |-> c, pc |-> k + 1, raising |-> "no"]
  PROVE  OwnerChecked(t)'
  <1> SUFFICES ASSUME NEW j \in 1..Len(Steps(c)), Steps(c)[j].op = "set_default",
                      k + 1 \in {j - 2, j - 1, j}
               PROVE  FALSE
    BY DEF OwnerChecked
  <1>1. /\ j \in Nat /\ k \in Nat /\ Steps(c)[j - 3].op = "owns_recipe"
        /\ Steps(c)[j - 2].op = "begin" /\ Steps(c)[j - 1].op = "clear_default"
    BY DefaultAt, CallStep
  <1>2. k = j - 3 \/ k = j - 2 \/ k = j - 1
    BY <1>1, SMTT(40)
  <1> QED
    BY <1>1, <1>2

LEMMA UnwindIInv ==
  ASSUME IInv, NEW t \in Threads, Unwind(t)
  PROVE  IInv'
  <1>1. Shape' /\ Shape /\ DataSound
    BY UnwindShape DEF IInv
  <1>2. /\ lock = t /\ Busy(t) /\ thread[t].raising # "no"
        /\ thread[t].call \in Calls \cup BootCalls
        /\ LeaveBlock /\ saves' = Pop(saves) /\ work' = Top(saves) /\ disk' = disk
    BY <1>1 DEF Unwind, Shape, Placed, Busy, Idle, file
  <1>3. PICK n \in Nat :
          /\ Len(blocks) = n + 1
          /\ blocks # <<>> /\ Len(saves) = n + 1 /\ Len(saves') = n
          /\ \A k \in 1..n : saves'[k] = saves[k]
          /\ work' = saves[n + 1] /\ Top(blocks) = blocks[n + 1]
          /\ lock' \in {NoThread, t}
    <2>1. /\ Len(blocks) \in Nat \ {0} /\ Len(saves) = Len(blocks) /\ blocks # <<>>
          /\ Len(saves') = Len(blocks) - 1
          /\ \A k \in 1..(Len(blocks) - 1) : saves'[k] = saves[k]
          /\ Top(saves) = saves[Len(blocks)] /\ Top(blocks) = blocks[Len(blocks)]
          /\ lock' \in {NoThread, t}
      BY <1>1, <1>2, LeavesBlock
    <2>2. PICK n \in Nat : Len(blocks) = n + 1 /\ Len(blocks) - 1 = n
      BY <2>1
    <2> QED
      BY <2>1, <2>2, <1>2
  <1>4. n + 1 \in 1..(n + 1) /\ \A k \in 1..n : k \in 1..(n + 1)
    OBVIOUS
  <1>5. Sound(work') /\ PlateSound(work')
    BY <1>1, <1>3, <1>4 DEF DataSound
  <1>6. DataSound'
    <2>1. \A k \in 1..n : Sound(saves'[k]) /\ PlateSound(saves'[k])
      BY <1>1, <1>3, <1>4 DEF DataSound
    <2> QED
      BY <2>1, <1>1, <1>2, <1>3, <1>5 DEF DataSound
  <1>7. KeepsOwners
    BY <1>3, FewerSaves
  <1>8. PICK c \in Calls \cup BootCalls, b \in Nat :
          c = thread[t].call /\ b = Top(blocks).pc /\ b \in 1..Len(Steps(c))
            /\ Steps(c)[b].op = "begin"
    <2>1. Placed(t)
      BY <1>1 DEF Shape
    <2>2. blocks[n + 1].pc \in 1..Len(Steps(thread[t].call))
            /\ Steps(thread[t].call)[blocks[n + 1].pc].op = "begin"
      BY <2>1, <1>2, <1>3, <1>4 DEF Placed
    <2> QED
      BY <2>2, <1>2, <1>3, CallStep
  <1>9. /\ \A u \in Threads \ {t} : thread'[u] = thread[u]
        /\ Ready(t)' /\ OwnerChecked(t)'
    <2>1. CASE Steps(c)[b].skip > 0 /\ thread[t].raising = "integrity"
      <3>1. PICK k \in 1..Len(Steps(c)) :
              /\ b + Steps(c)[b].skip = k + 1 /\ Steps(c)[k].op = "end"
              /\ k + 1 \in 1..(Len(Steps(c)) + 1)
        BY <2>1, <1>8, CaughtAt
      <3>2. Continue(t, k + 1)
        BY <2>1, <3>1, <1>8 DEF Unwind
      <3>3. /\ \A u \in Threads \ {t} : thread'[u] = thread[u]
            /\ k + 1 = Len(Steps(c)) + 1 => thread'[t] = Idle
            /\ k + 1 # Len(Steps(c)) + 1 =>
                 /\ thread'[t] = [call |-> c, pc |-> k + 1, raising |-> "no"]
                 /\ k + 1 \in 1..Len(Steps(c))
        BY <1>1, <1>8, <3>1, <3>2, Continues DEF Shape
      <3>4. k + 1 = Len(Steps(c)) + 1 => lock' # t
        <4>1. Placed(t)'
          BY <1>1 DEF Shape
        <4> QED
          BY <4>1, <3>3 DEF Placed, Busy, Idle
      <3>5. Ready(t)'
        BY <1>5, <3>1, <3>3, <3>4, ReadyNext
      <3>6. CASE k + 1 = Len(Steps(c)) + 1
        <4>1. OwnerChecked(t)'
          BY <3>3, <3>6 DEF OwnerChecked, Busy, Idle
        <4> QED
          BY <4>1, <3>3, <3>5
      <3>7. CASE k + 1 # Len(Steps(c)) + 1
        <4>1. OwnerChecked(t)'
          BY <3>1, <3>3, <3>7, CheckedAfterEnd
        <4> QED
          BY <4>1, <3>3, <3>5
      <3> QED
        BY <3>6, <3>7
    <2>2. CASE ~(Steps(c)[b].skip > 0 /\ thread[t].raising = "integrity") /\ Len(blocks) = 1
      <3>1. Abandon(t)
        BY <2>2, <1>8 DEF Unwind
      <3>2. thread'[t] = Idle /\ \A u \in Threads \ {t} : thread'[u] = thread[u]
        BY <1>1, <3>1, Abandons
      <3>3. OwnerChecked(t)'
        BY <3>2 DEF OwnerChecked, Busy, Idle
      <3>4. lock' # t
        BY <1>2, <2>2 DEF LeaveBlock
      <3> QED
        BY <3>2, <3>3, <3>4 DEF Ready
    <2>3. CASE ~(Steps(c)[b].skip > 0 /\ thread[t].raising = "integrity") /\ Len(blocks) # 1
      <3>1. thread' = thread
        BY <2>3, <1>8 DEF Unwind
      <3>2. Ready(t)' /\ OwnerChecked(t)'
        BY <3>1, <1>2 DEF Ready, OwnerChecked
      <3> QED
        BY <3>1, <3>2
    <2> QED
      BY <2>1, <2>2, <2>3
  <1>10. \A u \in Threads : Ready(u)'
    <2>1. lock' \in {NoThread, t}
      BY <1>3
    <2>2. \A u \in Threads \ {t} : Ready(u)'
      BY <2>1 DEF Ready
    <2> QED
      BY <2>2, <1>9
  <1>11. \A u \in Threads : OwnerChecked(u)'
    BY <1>7, <1>9, OthersChecked
  <1> QED
    BY <1>1, <1>6, <1>10, <1>11 DEF IInv

\* Nobody is in a call.
LEMMA IdleIInv ==
  ASSUME Shape', DataSound', lock' = NoThread, \A t \in Threads : thread'[t] = Idle
  PROVE  IInv'
  <1>1. \A t \in Threads : Ready(t)'
    BY DEF Ready
  <1>2. \A t \in Threads : OwnerChecked(t)'
    BY DEF OwnerChecked, Busy, Idle
  <1> QED
    BY <1>1, <1>2 DEF IInv

LEMMA OpenIInv ==
  ASSUME IInv, Open
  PROVE  IInv'
  <1>1. Shape' /\ Shape /\ DataSound
    BY OpenShape DEF IInv
  <1>2. /\ server = "down" /\ work' = disk /\ saves' = <<>>
        /\ disk' = disk /\ lock' = lock /\ thread' = thread
    BY DEF Open, file
  <1>3. lock = NoThread /\ \A t \in Threads : thread[t] = Idle
    BY <1>1, <1>2, AllIdle DEF Shape, Booting
  <1>4. DataSound'
    BY <1>1, <1>2 DEF DataSound
  <1> QED
    BY <1>1, <1>2, <1>3, <1>4, IdleIInv

LEMMA QuarantineIInv ==
  ASSUME IInv, Quarantine
  PROVE  IInv'
  <1>1. Shape' /\ Shape
    BY QuarantineShape DEF IInv
  <1>2. /\ server = "unusable" /\ work' = Empty /\ disk' = Empty /\ saves' = <<>>
        /\ lock' = lock /\ thread' = thread
    BY DEF Quarantine
  <1>3. lock = NoThread /\ \A t \in Threads : thread[t] = Idle
    BY <1>1, <1>2, AllIdle DEF Shape, Booting
  <1>4. DataSound'
    BY <1>2, EmptyTyped DEF DataSound, Sound
  <1> QED
    BY <1>1, <1>2, <1>3, <1>4, IdleIInv

LEMMA CrashIInv ==
  ASSUME IInv, Crash
  PROVE  IInv'
  <1>1. Shape' /\ DataSound
    BY CrashShape DEF IInv
  <1>2. /\ work' = disk /\ saves' = <<>> /\ lock' = NoThread /\ disk' = disk
        /\ thread' = [t \in Threads |-> Idle]
    BY DEF Crash, file
  <1>3. DataSound'
    BY <1>1, <1>2 DEF DataSound
  <1> QED
    BY <1>1, <1>2, <1>3, IdleIInv

LEMMA InitIInv ==
  ASSUME Init
  PROVE  IInv
  <1>1. Shape
    BY InitShape
  <1>2. PICK s \in Scenarios : disk = s.file
    BY DEF Init
  <1>3. /\ work = disk /\ saves = <<>> /\ lock = NoThread
        /\ thread = [t \in Threads |-> Idle]
    BY DEF Init
  <1>4. DataSound
    BY <1>2, <1>3, LedgerAssumption DEF DataSound, Sound
  <1>5. \A t \in Threads : Ready(t) /\ OwnerChecked(t)
    BY <1>3 DEF Ready, OwnerChecked, Busy, Idle
  <1> QED
    BY <1>1, <1>4, <1>5 DEF IInv

LEMMA NextIInv ==
  ASSUME IInv, [Next]_vars
  PROVE  IInv'
  <1>1. ASSUME NEW t \in Threads, NEW c \in Group[clients], Issue(t, c)
        PROVE  IInv'
    BY <1>1, IssueIInv
  <1>2. ASSUME NEW t \in Threads, Query(t) PROVE IInv'
    BY <1>2, QueryIInv
  <1>3. ASSUME NEW t \in Threads, Enter(t) PROVE IInv'
    BY <1>3, EnterIInv
  <1>4. ASSUME NEW t \in Threads, EnterRefused(t) PROVE IInv'
    BY <1>4, EnterRefusedIInv
  <1>5. ASSUME NEW t \in Threads, Execute(t) PROVE IInv'
    BY <1>5, ExecuteIInv
  <1>6. ASSUME NEW t \in Threads, StatementFails(t) PROVE IInv'
    BY <1>6, StatementFailsIInv
  <1>7. ASSUME NEW t \in Threads, Leave(t) PROVE IInv'
    BY <1>7, LeaveIInv
  <1>8. ASSUME NEW t \in Threads, CommitRefused(t) PROVE IInv'
    BY <1>8, CommitRefusedIInv
  <1>9. ASSUME NEW t \in Threads, Unwind(t) PROVE IInv'
    BY <1>9, UnwindIInv
  <1>10. CASE Open \/ Quarantine \/ Boot \/ Crash
    BY <1>10, OpenIInv, QuarantineIInv, BootIInv, CrashIInv
  <1>11. CASE UNCHANGED vars
    <2>1. Shape'
      BY <1>11, NextShape DEF IInv
    <2>2. UNCHANGED <<disk, work, saves, blocks, lock, thread>>
      BY <1>11 DEF vars, file, conn
    <2>3. DataSound'
      BY <2>2 DEF IInv, DataSound
    <2>4. \A t \in Threads : Ready(t)'
      BY <2>2 DEF IInv, Ready, Step
    <2>5. \A t \in Threads : OwnerChecked(t)'
      BY <2>2 DEF IInv, OwnerChecked, OwnerKnown, Busy
    <2> QED
      BY <2>1, <2>3, <2>4, <2>5 DEF IInv
  <1> QED
    BY <1>1, <1>2, <1>3, <1>4, <1>5, <1>6, <1>7, <1>8, <1>9, <1>10, <1>11 DEF Next

\* ledger.db: whichever calls run at once, whichever statement or COMMIT fails and
\* wherever the server dies, a printer has one spool in use, a part one default
\* recipe, and a plate all of its pieces or none.
THEOREM Committed == Spec => []CommittedSound
  <1>1. Init => IInv
    BY InitIInv
  <1>2. IInv /\ [Next]_vars => IInv'
    BY NextIInv
  <1>3. IInv => CommittedSound
    BY DEF IInv, DataSound, Sound, CommittedSound
  <1> QED
    BY <1>1, <1>2, <1>3, PTL DEF Spec

---------------------------------------------------------------------------
(* What is committed is changed by whole methods.                          *)
USE RowsAssumption

\* Only the boot's statements write the schema's version and tables.
LEMMA EffectStamp ==
  ASSUME NEW db \in Database, NEW i \in Instructions, Statement(i),
         i.op \notin {"create", "stamp"}
  PROVE  /\ Effect(i, db).tables = db.tables /\ Effect(i, db).version = db.version
         /\ i.op # "seed" => Effect(i, db).seeded = db.seeded
         /\ i.op = "seed" => Effect(i, db).seeded
  <1>1. CASE i.op \in {"insert_spool", "status", "clear", "load", "archive_spool"}
    <2>1. PICK f : Effect(i, db) = [db EXCEPT !.spools = f]
      BY <1>1, SpoolStatements
    <2> QED
      BY <1>1, <2>1 DEF Database
  <1>2. CASE i.op \in {"insert_part", "revision", "archive_part"}
    <2>1. PICK f : Effect(i, db) = [db EXCEPT !.parts = f]
      BY <1>2, PartStatements
    <2> QED
      BY <1>2, <2>1 DEF Database
  <1>3. CASE i.op \in {"insert_recipe", "clear_default", "set_default", "archive_recipe"}
    <2>1. PICK f : Effect(i, db) = [db EXCEPT !.recipes = f]
      BY <1>3, RecipeStatements
    <2> QED
      BY <1>3, <2>1 DEF Database
  <1>4. CASE i.op \in {"piece", "write_piece", "plate"}
    <2>1. PICK f : Effect(i, db) = [db EXCEPT !.pieces = f]
      BY <1>4, PlateStatements
    <2> QED
      BY <1>4, <2>1 DEF Database
  <1>5. CASE i.op \in {"close", "verdict"}
    BY <1>5, ZenonT(60) DEF Effect, CloseRun, WriteVerdict, Database
  <1>6. CASE i.op \in {"event", "badge", "unbadge", "seed"}
    BY <1>6, ZenonT(60) DEF Effect, InsertEvent, InsertBadge, DeleteBadge, Database
  <1> QED
    BY <1>1, <1>2, <1>3, <1>4, <1>5, <1>6, StatementOps

LEMMA OtherParts ==
  ASSUME NEW db \in Database, NEW i \in Instructions, Statement(i),
         i.op \notin {"insert_part", "revision", "archive_part"}
  PROVE  Effect(i, db).parts = db.parts
  <1>1. CASE i.op \in {"insert_spool", "status", "clear", "load", "archive_spool"}
    <2>1. PICK f : Effect(i, db) = [db EXCEPT !.spools = f]
      BY <1>1, SpoolStatements
    <2> QED
      BY <2>1 DEF Database
  <1>3. CASE i.op \in {"insert_recipe", "clear_default", "set_default", "archive_recipe"}
    <2>1. PICK f : Effect(i, db) = [db EXCEPT !.recipes = f]
      BY <1>3, RecipeStatements
    <2> QED
      BY <2>1 DEF Database
  <1>4. CASE i.op \in {"piece", "write_piece", "plate"}
    <2>1. PICK f : Effect(i, db) = [db EXCEPT !.pieces = f]
      BY <1>4, PlateStatements
    <2> QED
      BY <2>1 DEF Database
  <1>5. CASE i.op \in {"close", "verdict"}
    BY <1>5, ZenonT(60) DEF Effect, CloseRun, WriteVerdict, Database
  <1>6. CASE i.op \in {"event", "badge", "unbadge", "seed", "create", "stamp"}
    BY <1>6, ZenonT(60) DEF Effect, InsertEvent, InsertBadge, DeleteBadge, Database
  <1> QED
    BY <1>1, <1>3, <1>4, <1>5, <1>6, StatementOps

\* No statement makes a spool's row go away.
LEMMA SpoolsStay ==
  ASSUME NEW db \in Database, NEW i \in Instructions, Statement(i),
         NEW s \in Spools, db.spools[s].status # "none"
  PROVE  Effect(i, db).spools[s].status # "none"
  <1>1. PICK f : f = db.spools /\ f \in [Spools -> SpoolRow]
    BY DEF Database
  <1>2. "none" \notin SPOOL_FREE_STATUSES \cup {"in_use", "sealed"}
    BY DEF SPOOL_FREE_STATUSES
  <1>3. PICK row \in SpoolRow : row = f[s]
    BY <1>1
  <1>4. CASE i.op = "insert_spool"
    <2>1. i.spool \in Spools /\ i.status \in SPOOL_FREE_STATUSES
      BY <1>4 DEF Instructions
    <2>2. Effect(i, db).spools = [f EXCEPT ![i.spool] =
            [status |-> i.status, printer_serial |-> NoPrinter, archived |-> FALSE]]
      BY <1>1, <1>4 DEF Effect, InsertSpool, Database
    <2> QED
      BY <2>1, <2>2, <1>1, <1>2
  <1>5. CASE i.op = "status"
    <2>1. i.spool \in Spools /\ i.status \in SPOOL_FREE_STATUSES
      BY <1>5 DEF Instructions
    <2>2. Effect(i, db).spools = [f EXCEPT ![i.spool] = [@ EXCEPT !.status = i.status]]
      BY <1>1, <1>5 DEF Effect, WriteStatus, Database
    <2>3. [row EXCEPT !.status = i.status].status = i.status
      BY DEF SpoolRow
    <2> QED
      BY <2>1, <2>2, <2>3, <1>1, <1>2, <1>3
  <1>6. CASE i.op = "clear"
    <2>1. Effect(i, db).spools[s] \in
            {row, [row EXCEPT !.status = "sealed", !.printer_serial = NoPrinter]}
      BY <1>1, <1>3, <1>6, ZenonT(60) DEF Effect, ClearSpool, Database
    <2>2. [row EXCEPT !.status = "sealed", !.printer_serial = NoPrinter].status = "sealed"
      BY DEF SpoolRow
    <2> QED
      BY <2>1, <2>2, <1>1, <1>3
  <1>7. CASE i.op = "load"
    <2>1. i.spool \in Spools
      BY <1>7 DEF Instructions
    <2>2. Effect(i, db).spools = [f EXCEPT ![i.spool] =
            [[@ EXCEPT !.status = "in_use"] EXCEPT !.printer_serial = i.printer]]
      BY <2>1, <1>1, <1>7, ZenonT(60) DEF Effect, LoadSpool, Database
    <2>3. [[row EXCEPT !.status = "in_use"] EXCEPT !.printer_serial = i.printer].status = "in_use"
      BY DEF SpoolRow
    <2> QED
      BY <2>1, <2>2, <2>3, <1>1, <1>3
  <1>8. CASE i.op = "archive_spool"
    <2>1. i.spool \in Spools
      BY <1>8 DEF Instructions
    <2>2. Effect(i, db).spools \in {f, [f EXCEPT ![i.spool] = [@ EXCEPT !.archived = TRUE]]}
      BY <1>1, <1>8 DEF Effect, ArchiveSpool, Database
    <2>3. [row EXCEPT !.archived = TRUE].status = row.status
      BY DEF SpoolRow
    <2> QED
      BY <2>1, <2>2, <2>3, <1>1, <1>3, ZenonT(60)
  <1>9. CASE i.op \notin {"insert_spool", "status", "clear", "load", "archive_spool"}
    BY <1>9, OtherSpools
  <1> QED
    BY <1>4, <1>5, <1>6, <1>7, <1>8, <1>9

\* Nor a part's.
LEMMA PartsStay ==
  ASSUME NEW db \in Database, NEW i \in Instructions, Statement(i),
         NEW a \in Parts, db.parts[a].revision # None
  PROVE  Effect(i, db).parts[a].revision # None
  <1>1. PICK f : f = db.parts /\ f \in [Parts -> PartRow]
    BY DEF Database
  <1>2. PICK row \in PartRow : row = f[a]
    BY <1>1
  <1>3. CASE i.op = "insert_part"
    <2>1. i.part \in Parts /\ i.revision \in Revisions
      BY <1>3 DEF Instructions
    <2>2. Effect(i, db).parts = [f EXCEPT ![i.part] = [revision |-> i.revision, archived |-> FALSE]]
      BY <1>1, <1>3 DEF Effect, InsertPart, Database
    <2> QED
      BY <2>1, <2>2, <1>1
  <1>4. CASE i.op = "revision"
    <2>1. i.part \in Parts /\ i.revision \in Revisions
      BY <1>4 DEF Instructions
    <2>2. Effect(i, db).parts = [f EXCEPT ![i.part] = [@ EXCEPT !.revision = i.revision]]
      BY <1>1, <1>4 DEF Effect, WriteRevision, Database
    <2>3. [row EXCEPT !.revision = i.revision].revision = i.revision
      BY DEF PartRow
    <2> QED
      BY <2>1, <2>2, <2>3, <1>1, <1>2
  <1>5. CASE i.op = "archive_part"
    <2>1. i.part \in Parts
      BY <1>5 DEF Instructions
    <2>2. Effect(i, db).parts \in {f, [f EXCEPT ![i.part] = [@ EXCEPT !.archived = TRUE]]}
      BY <1>1, <1>5 DEF Effect, ArchivePart, Database
    <2>3. [row EXCEPT !.archived = TRUE].revision = row.revision
      BY DEF PartRow
    <2> QED
      BY <2>1, <2>2, <2>3, <1>1, <1>2
  <1>6. CASE i.op \notin {"insert_part", "revision", "archive_part"}
    BY <1>6, OtherParts
  <1> QED
    BY <1>3, <1>4, <1>5, <1>6

\* And a recipe's part is for good.
LEMMA OwnersStay ==
  ASSUME NEW db \in Database, NEW i \in Instructions, Statement(i), ~Violates(i, db),
         NEW r \in Recipes, Owner(db, r) # None
  PROVE  Owner(Effect(i, db), r) = Owner(db, r)
  <1>1. PICK f : f = db.recipes /\ f \in [Recipes -> RecipeRow]
    BY DEF Database
  <1>2. PICK row \in RecipeRow : row = f[r]
    BY <1>1
  <1>3. CASE i.op = "insert_recipe"
    <2>1. i.recipe \in Recipes /\ i.recipe # r
      BY <1>3 DEF Instructions, Violates, Owner
    <2>2. Effect(i, db).recipes = [f EXCEPT ![i.recipe] =
            [part_id |-> i.part, is_default |-> FALSE, archived |-> FALSE]]
      BY <1>1, <1>3 DEF Effect, InsertRecipe, Database
    <2> QED
      BY <2>1, <2>2, <1>1 DEF Owner
  <1>4. CASE i.op = "clear_default"
    <2>1. Effect(i, db).recipes[r] \in {row, [row EXCEPT !.is_default = FALSE]}
      BY <1>1, <1>2, <1>4 DEF Effect, ClearDefault, Database
    <2>2. [row EXCEPT !.is_default = FALSE].part_id = row.part_id
      BY DEF RecipeRow
    <2> QED
      BY <2>1, <2>2, <1>1, <1>2 DEF Owner
  <1>5. CASE i.op = "set_default"
    <2>1. i.recipe \in Recipes
      BY <1>5 DEF Instructions
    <2>2. Effect(i, db).recipes = [f EXCEPT ![i.recipe] = [@ EXCEPT !.is_default = TRUE]]
      BY <1>1, <1>5 DEF Effect, SetDefault, Database
    <2>3. [row EXCEPT !.is_default = TRUE].part_id = row.part_id
      BY DEF RecipeRow
    <2> QED
      BY <2>1, <2>2, <2>3, <1>1, <1>2 DEF Owner
  <1>6. CASE i.op = "archive_recipe"
    <2>1. i.recipe \in Recipes
      BY <1>6 DEF Instructions
    <2>2. Effect(i, db).recipes = [f EXCEPT ![i.recipe] = [@ EXCEPT !.archived = TRUE]]
      BY <1>1, <1>6 DEF Effect, ArchiveRecipe, Database
    <2>3. [row EXCEPT !.archived = TRUE].part_id = row.part_id
      BY DEF RecipeRow
    <2> QED
      BY <2>1, <2>2, <2>3, <1>1, <1>2 DEF Owner
  <1>7. CASE i.op \notin {"insert_recipe", "clear_default", "set_default", "archive_recipe"}
    BY <1>7, OtherRecipes DEF Owner
  <1> QED
    BY <1>3, <1>4, <1>5, <1>6, <1>7

\* A query that was answered with yes would be again after any statement.
LEMMA AnswerKept ==
  ASSUME NEW db \in Database, NEW i \in Instructions, Statement(i), ~Violates(i, db),
         NEW q \in Instructions, q.op \in Queries, Answer(q, db)
  PROVE  Answer(q, Effect(i, db))
  <1>1. CASE q.op = "get_spool"
    <2>1. q.spool \in Spools
      BY <1>1 DEF Instructions
    <2> QED
      BY <1>1, <2>1, SpoolsStay DEF Answer
  <1>2. CASE q.op = "get_part"
    <2>1. q.part \in Parts
      BY <1>2 DEF Instructions
    <2> QED
      BY <1>2, <2>1, PartsStay DEF Answer
  <1>3. CASE q.op = "owns_recipe"
    <2>1. q.recipe \in Recipes /\ q.part \in Parts
      BY <1>3 DEF Instructions
    <2>2. Owner(db, q.recipe) = q.part /\ q.part # None
      BY <1>3, <2>1 DEF Answer, Owner
    <2>3. Owner(Effect(i, db), q.recipe) = q.part
      BY <2>1, <2>2, OwnersStay
    <2> QED
      BY <1>3, <2>3 DEF Answer, Owner
  <1>4. CASE q.op = "may_badge"
    BY <1>4 DEF Answer
  <1> QED
    BY <1>1, <1>2, <1>3, <1>4 DEF Queries

---------------------------------------------------------------------------
(* Where a thread is in the window w of its outermost block, when step k   *)
(* is next, n blocks are open, db is committed and wk is what it sees.     *)

AtLone(w, k, n, db, wk) ==
  /\ IsLone(w) /\ n = 1
  /\ \/ k = 2 /\ wk = db
     \/ k = 3 /\ ~Violates(w[2], db) /\ wk = Effect(w[2], db)

AtAsked(w, k, n, db, wk) ==
  /\ IsAsked(w) /\ n = 1 /\ Answer(w[1], db)
  /\ \/ k = 3 /\ wk = db
     \/ k = 4 /\ ~Violates(w[3], db) /\ wk = Effect(w[3], db)

AtPair(w, k, n, db, wk) ==
  /\ IsPair(w) /\ n = 1
  /\ \/ k = 2 /\ wk = db
     \/ k = 3 /\ wk = Effect(w[2], db)
     \/ k = 4 /\ wk = Effect(w[3], Effect(w[2], db))

AtAskedPair(w, k, n, db, wk) ==
  /\ IsAskedPair(w) /\ n = 1 /\ Answer(w[1], db)
  /\ \/ k = 3 /\ wk = db
     \/ k = 4 /\ wk = Effect(w[3], db)
     \/ k = 5 /\ wk = Effect(w[4], Effect(w[3], db))

\* The run is closed, and then noted, unless the inner block was rolled back.
AtClosing(w, k, n, db, wk) ==
  LET closed == Effect(w[2], db)
      noted == Effect(w[5], Effect(w[4], closed))
   IN /\ IsClosing(w)
      /\ \/ k = 2 /\ n = 1 /\ wk = db
         \/ k = 3 /\ n = 1 /\ wk = closed
         \/ k = 4 /\ n = 2 /\ wk = closed
         \/ k = 5 /\ n = 2 /\ wk = Effect(w[4], closed)
         \/ k = 6 /\ n = 2 /\ wk = noted
         \/ k = 7 /\ n = 1 /\ wk \in {closed, noted}

\* The first i copies have their pieces.
Filled(db, i) ==
  [db EXCEPT !.pieces = [j \in 1..Copies |->
     IF j <= i /\ db.pieces[j] = "none" THEN "pending_inspection" ELSE db.pieces[j]]]

AtPlate(w, k, n, db, wk) ==
  IsPlate(w) /\ n = 1 /\ k \in 2..(Copies + 2) /\ wk = Filled(db, k - 2)

\* The version's first i tables are made: there was none of them.
Made(c, i, db) == [db EXCEPT !.tables = Statements * (c.version - 1) + i]

AtMigration(c, w, k, n, db, wk) ==
  /\ IsMigration(w, c) /\ n = 1
  /\ \/ k = 2 /\ wk = db
     \/ /\ db.tables <= Statements * (c.version - 1)
        /\ \/ k \in 3..(Statements + 2) /\ wk = Made(c, k - 2, db)
           \/ k = Statements + 3
                /\ wk = [Made(c, Statements, db) EXCEPT !.version = c.version]

Reached(c, w, k, n, db, wk) ==
  IF c.do = "migrate"
    THEN AtMigration(c, w, k, n, db, wk)
    ELSE \/ AtLone(w, k, n, db, wk) \/ AtAsked(w, k, n, db, wk)
         \/ AtPair(w, k, n, db, wk) \/ AtAskedPair(w, k, n, db, wk)
         \/ AtClosing(w, k, n, db, wk) \/ AtPlate(w, k, n, db, wk)

\* A window that call c may have.
WindowOf(c, w) ==
  w \in Seq(Instructions) /\ IF c.do = "migrate" THEN IsMigration(w, c) ELSE Ordinary(w)

---------------------------------------------------------------------------
LEMMA FilledNone ==
  ASSUME NEW db \in Database
  PROVE  Filled(db, 0) = db
  <1>1. db.pieces \in [1..Copies -> PIECE_STATUSES \cup {"none"}]
    BY DEF Database
  <1>2. [j \in 1..Copies |-> IF j <= 0 /\ db.pieces[j] = "none" THEN "pending_inspection"
                                                                 ELSE db.pieces[j]] = db.pieces
    BY <1>1
  <1>3. [db EXCEPT !.pieces = db.pieces] = db
    BY DEF Database
  <1> QED
    BY <1>2, <1>3 DEF Filled

LEMMA MigrationOps ==
  ASSUME NEW c, NEW w, IsMigration(w, c), NEW k \in 2..(Statements + 3)
  PROVE  /\ k \in 2..(Statements + 1) =>
              w[k].op = "create" /\ w[k].table = Statements * (c.version - 1) + (k - 1)
         /\ k = Statements + 2 => w[k].op = "stamp" /\ w[k].version = c.version
         /\ k = Statements + 3 => w[k].op = "end"
         /\ w[k].op \in {"create", "stamp", "end"}
  <1>1. ASSUME k \in 2..(Statements + 1)
        PROVE  w[k].op = "create" /\ w[k].table = Statements * (c.version - 1) + (k - 1)
    <2>1. k - 1 \in 1..Statements /\ (k - 1) + 1 = k
      BY <1>1
    <2>2. /\ w[(k - 1) + 1].op = "create"
          /\ w[(k - 1) + 1].table = Statements * (c.version - 1) + (k - 1)
      BY <2>1 DEF IsMigration
    <2> QED
      BY <2>1, <2>2
  <1>2. /\ k = Statements + 2 => w[k].op = "stamp" /\ w[k].version = c.version
        /\ k = Statements + 3 => w[k].op = "end"
    BY DEF IsMigration
  <1>3. k \in 2..(Statements + 1) \/ k = Statements + 2 \/ k = Statements + 3
    OBVIOUS
  <1> QED
    BY <1>1, <1>2, <1>3

LEMMA PlateOps ==
  ASSUME NEW w, IsPlate(w), NEW k \in 2..(Copies + 2)
  PROVE  /\ k # Copies + 2 => w[k].op = "piece" /\ w[k].copy = k - 1 /\ k - 1 \in 1..Copies
         /\ k = Copies + 2 => w[k].op = "end"
  <1>1. CASE k = Copies + 2
    BY <1>1 DEF IsPlate
  <1>2. CASE k # Copies + 2
    <2>1. k - 1 \in 1..Copies /\ (k - 1) + 1 = k
      BY <1>2
    <2>2. w[(k - 1) + 1].op = "piece" /\ w[(k - 1) + 1].copy = k - 1
      BY <2>1 DEF IsPlate
    <2> QED
      BY <2>1, <2>2, <1>2
  <1> QED
    BY <1>1, <1>2

\* The outermost block begins.
LEMMA WindowBegins ==
  ASSUME NEW c, NEW w, WindowOf(c, w), NEW k \in 1..Len(w), w[k].op = "begin",
         NEW db \in Database,
         k > 1 /\ w[k - 1].op \in Queries => Answer(w[k - 1], db),
         ~(IsClosing(w) /\ k = 3)
  PROVE  k + 1 \in 1..Len(w) /\ Reached(c, w, k + 1, 1, db, db)
  <1>1. CASE c.do = "migrate"
    <2>1. IsMigration(w, c) /\ Len(w) \in Nat
      BY <1>1, LenProperties DEF WindowOf
    <2>2. k = 1
      <3>1. ASSUME k # 1, k \in 2..(Statements + 1) PROVE FALSE
        <4>1. k - 1 \in 1..Statements /\ (k - 1) + 1 = k
          BY <3>1
        <4> QED
          BY <2>1, <4>1 DEF IsMigration
      <3> QED
        BY <3>1, <2>1 DEF IsMigration
    <2> QED
      BY <1>1, <2>1, <2>2 DEF Reached, AtMigration, IsMigration
  <1>2. CASE c.do # "migrate"
    <2>1. Ordinary(w) /\ Len(w) \in Nat /\ k \in Nat
      BY <1>2, LenProperties DEF WindowOf
    <2>2. CASE IsLone(w)
      <3>1. k = 1
        BY <2>2 DEF IsLone, Lone
      <3> QED
        BY <1>2, <2>2, <3>1 DEF Reached, AtLone, IsLone
    <2>3. CASE IsAsked(w)
      <3>1. w[1].op \in Queries
        BY <2>3 DEF IsAsked, Asks, Queries
      <3>2. k = 2
        BY <2>3, <3>1 DEF IsAsked, Asks, Queries
      <3> QED
        BY <1>2, <2>3, <3>1, <3>2 DEF Reached, AtAsked, IsAsked
    <2>4. CASE IsPair(w)
      <3>1. k = 1
        BY <2>4 DEF IsPair
      <3> QED
        BY <1>2, <2>4, <3>1 DEF Reached, AtPair, IsPair
    <2>5. CASE IsAskedPair(w)
      <3>1. w[1].op \in Queries
        BY <2>5 DEF IsAskedPair, AsksPair, Queries
      <3>2. k = 2
        BY <2>5, <3>1 DEF IsAskedPair, AsksPair, Queries
      <3> QED
        BY <1>2, <2>5, <3>1, <3>2 DEF Reached, AtAskedPair, IsAskedPair
    <2>6. CASE IsClosing(w)
      <3>1. k = 1
        BY <2>6 DEF IsClosing
      <3> QED
        BY <1>2, <2>6, <3>1 DEF Reached, AtClosing, IsClosing
    <2>7. CASE IsPlate(w)
      <3>1. k = 1
        <4>1. ASSUME k # 1, k \in 2..(Copies + 1) PROVE FALSE
          <5>1. k - 1 \in 1..Copies /\ (k - 1) + 1 = k
            BY <4>1
          <5> QED
            BY <2>7, <5>1 DEF IsPlate
        <4> QED
          BY <2>7, <4>1 DEF IsPlate
      <3>2. 1 + 1 \in 2..(Copies + 2) /\ (1 + 1) - 2 = 0 /\ 1 + 1 \in 1..Len(w)
        BY <2>7 DEF IsPlate
      <3>3. AtPlate(w, 1 + 1, 1, db, db)
        BY <2>7, <3>2, FilledNone DEF AtPlate
      <3> QED
        BY <1>2, <3>1, <3>2, <3>3 DEF Reached
    <2> QED
      BY <2>1, <2>2, <2>3, <2>4, <2>5, <2>6, <2>7 DEF Ordinary
  <1> QED
    BY <1>1, <1>2

\* A block begins inside another: close_with_event's.
LEMMA InnerBegins ==
  ASSUME NEW c, NEW w \in Seq(Instructions), NEW k \in 1..Len(w), w[k].op = "begin",
         NEW db, NEW wk, NEW n, Reached(c, w, k, n, db, wk)
  PROVE  /\ c.do # "migrate" /\ IsClosing(w) /\ k = 3 /\ n = 1
         /\ wk = Effect(w[2], db) /\ Reached(c, w, 4, 2, db, wk)
  <1>1. c.do # "migrate"
    <2> SUFFICES ASSUME c.do = "migrate" PROVE FALSE
      OBVIOUS
    <2>1. IsMigration(w, c) /\ k \in 2..(Statements + 3)
      BY DEF Reached, AtMigration
    <2>2. w[k].op \in {"create", "stamp", "end"}
      BY <2>1, MigrationOps
    <2> QED
      BY <2>2
  <1>2. ~AtLone(w, k, n, db, wk) /\ ~AtPair(w, k, n, db, wk)
    BY DEF AtLone, AtPair, IsLone, IsPair, Lone
  <1>3. ~AtAsked(w, k, n, db, wk) /\ ~AtAskedPair(w, k, n, db, wk)
    BY DEF AtAsked, AtAskedPair, IsAsked, IsAskedPair, Asks, AsksPair
  <1>4. ~AtPlate(w, k, n, db, wk)
    <2> SUFFICES ASSUME AtPlate(w, k, n, db, wk) PROVE FALSE
      OBVIOUS
    <2>1. IsPlate(w) /\ k \in 2..(Copies + 2)
      BY DEF AtPlate
    <2>2. w[k].op \in {"piece", "end"}
      BY <2>1, PlateOps
    <2> QED
      BY <2>2
  <1>5. AtClosing(w, k, n, db, wk)
    BY <1>1, <1>2, <1>3, <1>4 DEF Reached
  <1>6. IsClosing(w) /\ k = 3 /\ n = 1 /\ wk = Effect(w[2], db)
    BY <1>5 DEF AtClosing, IsClosing
  <1> QED
    BY <1>1, <1>6 DEF Reached, AtClosing

LEMMA InnerEnds ==
  ASSUME NEW c, NEW w, NEW k, w[k].op = "end",
         NEW db, NEW wk, Reached(c, w, k, 2, db, wk)
  PROVE  Len(w) = 7 /\ k = 6 /\ Reached(c, w, 7, 1, db, wk)
  <1>1. c.do # "migrate" /\ AtClosing(w, k, 2, db, wk)
    BY DEF Reached, AtMigration, AtLone, AtAsked, AtPair, AtAskedPair, AtPlate
  <1>2. IsClosing(w) /\ k = 6 /\ wk = Effect(w[5], Effect(w[4], Effect(w[2], db)))
    BY <1>1 DEF AtClosing, IsClosing
  <1> QED
    BY <1>1, <1>2 DEF Reached, AtClosing, IsClosing

LEMMA InnerCaught ==
  ASSUME NEW c, c.do # "migrate", NEW w, IsClosing(w), NEW db
  PROVE  Reached(c, w, 7, 1, db, Effect(w[2], db))
  BY DEF Reached, AtClosing

---------------------------------------------------------------------------
LEMMA MigrationExecutes ==
  ASSUME NEW c \in BootCalls, c.do = "migrate", NEW w, IsMigration(w, c), NEW k,
         NEW db \in Database, NEW wk, AtMigration(c, w, k, 1, db, wk),
         Statement(w[k]), ~Violates(w[k], wk)
  PROVE  k + 1 \in 1..Len(w) /\ AtMigration(c, w, k + 1, 1, db, Effect(w[k], wk))
  <1>1. c.version \in 1..Versions
    BY BootsAlone
  <1>2. PICK base \in Nat : base = Statements * (c.version - 1)
    BY <1>1 DEF Versions
  <1>3. k \in 2..(Statements + 3) /\ Len(w) = Statements + 3
    BY DEF AtMigration, IsMigration
  <1>4. k # Statements + 3
    BY <1>3, MigrationOps DEF Statement
  <1>5. db.tables \in Nat
    BY DEF Database
  <1>6. CASE k \in 2..(Statements + 1)
    <2>1. w[k].op = "create" /\ w[k].table = base + (k - 1)
      BY <1>2, <1>3, <1>6, MigrationOps
    <2>2. wk.tables < base + (k - 1) /\ wk.tables \in Nat
      <3>1. wk.tables \in Nat
        <4>1. k = 2 => wk = db
          BY DEF AtMigration
        <4>2. k # 2 => wk = [db EXCEPT !.tables = base + (k - 2)] /\ base + (k - 2) \in Nat
          BY <1>2, <1>6 DEF AtMigration, Made
        <4> QED
          BY <4>1, <4>2, <1>5 DEF Database
      <3>2. ~(wk.tables >= base + (k - 1))
        BY <2>1 DEF Violates
      <3> QED
        BY <3>1, <3>2, <1>6
    <2>3. Effect(w[k], wk) = [wk EXCEPT !.tables = base + (k - 1)]
      BY <2>1 DEF Effect
    <2>4. Effect(w[k], wk) = Made(c, k - 1, db)
      <3>1. CASE k = 2
        BY <3>1, <2>3, <1>2 DEF AtMigration, Made
      <3>2. CASE k # 2
        <4>1. wk = [db EXCEPT !.tables = base + (k - 2)]
          BY <3>2, <1>2, <1>6 DEF AtMigration, Made
        <4>2. [wk EXCEPT !.tables = base + (k - 1)] = [db EXCEPT !.tables = base + (k - 1)]
          BY <4>1 DEF Database
        <4> QED
          BY <4>2, <2>3, <1>2 DEF Made
      <3> QED
        BY <3>1, <3>2
    <2>5. db.tables <= base
      <3>1. CASE k = 2
        BY <3>1, <2>2, <1>5 DEF AtMigration
      <3>2. CASE k # 2
        BY <3>2, <1>2, <1>6 DEF AtMigration
      <3> QED
        BY <3>1, <3>2
    <2>6. k + 1 \in 3..(Statements + 2) /\ (k + 1) - 2 = k - 1 /\ k + 1 \in 1..Len(w)
      BY <1>3, <1>6
    <2> QED
      BY <2>4, <2>5, <2>6, <1>2 DEF AtMigration
  <1>7. CASE k = Statements + 2
    <2>1. w[k].op = "stamp" /\ w[k].version = c.version
      BY <1>3, <1>7, MigrationOps
    <2>2. wk = Made(c, Statements, db) /\ db.tables <= Statements * (c.version - 1)
      BY <1>7 DEF AtMigration
    <2>3. k + 1 = Statements + 3 /\ k + 1 \in 1..Len(w)
      BY <1>3, <1>7
    <2>4. Effect(w[k], wk) = [Made(c, Statements, db) EXCEPT !.version = c.version]
      BY <2>1, <2>2 DEF Effect
    <2> QED
      BY <2>2, <2>3, <2>4 DEF AtMigration
  <1> QED
    BY <1>3, <1>4, <1>6, <1>7

LEMMA PlateExecutes ==
  ASSUME NEW w, NEW k, NEW db \in Database, NEW wk, AtPlate(w, k, 1, db, wk), Statement(w[k])
  PROVE  k + 1 \in 1..Len(w) /\ AtPlate(w, k + 1, 1, db, Effect(w[k], wk))
  <1>1. IsPlate(w) /\ k \in 2..(Copies + 2) /\ wk = Filled(db, k - 2)
    BY DEF AtPlate
  <1>2. PICK i \in 1..Copies : i = k - 1 /\ w[k].op = "piece" /\ w[k].copy = i
    BY <1>1, PlateOps DEF Statement
  <1>3. /\ k + 1 \in 2..(Copies + 2) /\ k + 1 \in 1..Len(w) /\ (k + 1) - 2 = i /\ k - 2 = i - 1
        /\ i \in Nat
    BY <1>1, <1>2 DEF IsPlate
  <1>4. PICK f : f = db.pieces /\ f \in [1..Copies -> PIECE_STATUSES \cup {"none"}]
    BY DEF Database
  <1> DEFINE g == [j \in 1..Copies |-> IF j <= i - 1 /\ f[j] = "none" THEN "pending_inspection" ELSE f[j]]
             h == [j \in 1..Copies |-> IF j <= i /\ f[j] = "none" THEN "pending_inspection" ELSE f[j]]
  <1>5. wk = [db EXCEPT !.pieces = g] /\ Filled(db, i) = [db EXCEPT !.pieces = h]
    BY <1>1, <1>3, <1>4 DEF Filled
  <1>6. g[i] = f[i]
    BY <1>3
  <1>7. IF g[i] = "none" THEN h = [g EXCEPT ![i] = "pending_inspection"] ELSE h = g
    <2>1. ASSUME NEW j \in 1..Copies, j # i
          PROVE  h[j] = g[j]
      <3>1. j <= i <=> j <= i - 1
        BY <2>1, <1>3, SMTT(40)
      <3> QED
        BY <3>1
    <2>2. h[i] = IF f[i] = "none" THEN "pending_inspection" ELSE f[i]
      BY <1>3
    <2>3. /\ h = [j \in 1..Copies |-> h[j]] /\ g = [j \in 1..Copies |-> g[j]]
          /\ DOMAIN g = 1..Copies
      OBVIOUS
    <2> HIDE DEF g, h
    <2> QED
      BY <2>1, <2>2, <2>3, <1>6
  <1> HIDE DEF g, h
  <1>8. wk.pieces = g /\ [wk EXCEPT !.pieces = h] = [db EXCEPT !.pieces = h]
    BY <1>5, ZenonT(60) DEF Database
  <1>9. Effect(w[k], wk) = IF g[i] = "none" THEN [wk EXCEPT !.pieces[i] = "pending_inspection"]
                                            ELSE wk
    BY <1>2, <1>8 DEF Effect, InsertPiece
  <1>10. Effect(w[k], wk) = [db EXCEPT !.pieces = h]
    <2>1. CASE g[i] = "none"
      <3>1. [wk EXCEPT !.pieces[i] = "pending_inspection"]
              = [wk EXCEPT !.pieces = [g EXCEPT ![i] = "pending_inspection"]]
        BY <1>5, <1>8 DEF Database
      <3> QED
        BY <2>1, <3>1, <1>7, <1>8, <1>9
    <2>2. CASE g[i] # "none"
      BY <2>2, <1>5, <1>7, <1>9
    <2> QED
      BY <2>1, <2>2
  <1>11. Effect(w[k], wk) = Filled(db, (k + 1) - 2)
    BY <1>3, <1>5, <1>10
  <1> QED
    BY <1>1, <1>3, <1>11 DEF AtPlate

\* A statement is executed.
LEMMA WindowExecutes ==
  ASSUME NEW c \in Calls \cup BootCalls, NEW w \in Seq(Instructions), NEW k, NEW n,
         NEW db \in Database, NEW wk, Reached(c, w, k, n, db, wk),
         Statement(w[k]), ~Violates(w[k], wk)
  PROVE  k + 1 \in 1..Len(w) /\ Reached(c, w, k + 1, n, db, Effect(w[k], wk))
  <1> DEFINE e == Effect(w[k], wk)
  <1>1. CASE c.do = "migrate"
    <2>1. c \in BootCalls
      BY <1>1 DEF Calls, SpoolCalls, PartCalls, RecipeCalls, PlateCalls, RunCalls
    <2>2. AtMigration(c, w, k, 1, db, wk) /\ IsMigration(w, c) /\ n = 1
      BY <1>1 DEF Reached, AtMigration
    <2> QED
      BY <1>1, <2>1, <2>2, MigrationExecutes DEF Reached
  <1>2. CASE AtLone(w, k, n, db, wk)
    <2>1. k + 1 \in 1..Len(w) /\ AtLone(w, k + 1, n, db, e)
      BY <1>2 DEF AtLone, IsLone, Statement
    <2> QED
      BY <2>1, <1>1 DEF Reached
  <1>3. CASE AtAsked(w, k, n, db, wk)
    <2>1. k + 1 \in 1..Len(w) /\ AtAsked(w, k + 1, n, db, e)
      BY <1>3 DEF AtAsked, IsAsked, Statement
    <2> QED
      BY <2>1, <1>1 DEF Reached
  <1>4. CASE AtPair(w, k, n, db, wk)
    <2>1. k + 1 \in 1..Len(w) /\ AtPair(w, k + 1, n, db, e)
      BY <1>4 DEF AtPair, IsPair, Statement
    <2> QED
      BY <2>1, <1>1 DEF Reached
  <1>5. CASE AtAskedPair(w, k, n, db, wk)
    <2>1. k + 1 \in 1..Len(w) /\ AtAskedPair(w, k + 1, n, db, e)
      BY <1>5 DEF AtAskedPair, IsAskedPair, Statement
    <2> QED
      BY <2>1, <1>1 DEF Reached
  <1>6. CASE AtClosing(w, k, n, db, wk)
    <2>1. k + 1 \in 1..Len(w) /\ AtClosing(w, k + 1, n, db, e)
      BY <1>6 DEF AtClosing, IsClosing, Statement
    <2> QED
      BY <2>1, <1>1 DEF Reached
  <1>7. CASE AtPlate(w, k, n, db, wk)
    <2>1. k + 1 \in 1..Len(w) /\ AtPlate(w, k + 1, n, db, e)
      BY <1>7, PlateExecutes DEF AtPlate
    <2> QED
      BY <2>1, <1>1 DEF Reached
  <1> QED
    BY <1>1, <1>2, <1>3, <1>4, <1>5, <1>6, <1>7 DEF Reached

---------------------------------------------------------------------------
(* What a window has done when its outermost block ends.                   *)

Ended(w, db, wk) ==
  \/ IsLone(w) /\ ~Violates(w[2], db) /\ wk = Effect(w[2], db)
  \/ IsAsked(w) /\ Answer(w[1], db) /\ ~Violates(w[3], db) /\ wk = Effect(w[3], db)
  \/ IsPair(w) /\ wk = Effect(w[3], Effect(w[2], db))
  \/ IsAskedPair(w) /\ Answer(w[1], db) /\ wk = Effect(w[4], Effect(w[3], db))
  \/ IsClosing(w) /\ wk \in {Effect(w[2], db),
                             Effect(w[5], Effect(w[4], Effect(w[2], db)))}
  \/ IsPlate(w) /\ wk = Filled(db, Copies)

LEMMA WindowEnds ==
  ASSUME NEW c, c.do # "migrate", NEW w, NEW k, w[k].op = "end",
         NEW db, NEW wk, Reached(c, w, k, 1, db, wk)
  PROVE  Ended(w, db, wk)
  <1>1. CASE AtLone(w, k, 1, db, wk)
    BY <1>1 DEF AtLone, IsLone, Lone, Ended
  <1>2. CASE AtAsked(w, k, 1, db, wk)
    BY <1>2 DEF AtAsked, IsAsked, Asks, Ended
  <1>3. CASE AtPair(w, k, 1, db, wk)
    BY <1>3 DEF AtPair, IsPair, Ended
  <1>4. CASE AtAskedPair(w, k, 1, db, wk)
    BY <1>4 DEF AtAskedPair, IsAskedPair, AsksPair, Ended
  <1>5. CASE AtClosing(w, k, 1, db, wk)
    BY <1>5 DEF AtClosing, IsClosing, Ended
  <1>6. CASE AtPlate(w, k, 1, db, wk)
    <2>1. IsPlate(w) /\ k \in 2..(Copies + 2) /\ wk = Filled(db, k - 2)
      BY <1>6 DEF AtPlate
    <2>2. k = Copies + 2
      BY <2>1, PlateOps
    <2> QED
      BY <2>1, <2>2 DEF Ended
  <1> QED
    BY <1>1, <1>2, <1>3, <1>4, <1>5, <1>6 DEF Reached

LEMMA MigrationEnds ==
  ASSUME NEW c, c.do = "migrate", NEW w, NEW k, w[k].op = "end",
         NEW db, NEW wk, Reached(c, w, k, 1, db, wk)
  PROVE  /\ db.tables <= Statements * (c.version - 1)
         /\ wk = [Made(c, Statements, db) EXCEPT !.version = c.version]
  <1>1. AtMigration(c, w, k, 1, db, wk)
    BY DEF Reached
  <1>2. IsMigration(w, c) /\ k \in 2..(Statements + 3)
    BY <1>1 DEF AtMigration
  <1>3. k = Statements + 3
    BY <1>2, MigrationOps
  <1> QED
    BY <1>1, <1>3 DEF AtMigration

---------------------------------------------------------------------------
\* The columns that only the boot writes.
SameStamp(db, wk) ==
  wk.tables = db.tables /\ wk.version = db.version /\ (db.seeded => wk.seeded)

LEMMA SameStampTwice ==
  ASSUME NEW db \in Database, NEW x \in Instructions, Statement(x), x.op \notin {"create", "stamp"},
         NEW y \in Instructions, Statement(y), y.op \notin {"create", "stamp"}
  PROVE  /\ Effect(x, db) \in Database /\ SameStamp(db, Effect(x, db))
         /\ Effect(y, Effect(x, db)) \in Database
         /\ SameStamp(db, Effect(y, Effect(x, db)))
  <1>1. Effect(x, db) \in Database /\ SameStamp(db, Effect(x, db))
    BY EffectTyped, EffectStamp DEF SameStamp
  <1>2. Effect(y, Effect(x, db)) \in Database
          /\ SameStamp(Effect(x, db), Effect(y, Effect(x, db)))
    BY <1>1, EffectTyped, EffectStamp DEF SameStamp
  <1> QED
    BY <1>1, <1>2 DEF SameStamp

\* The steps of a window are instructions.
LEMMA WindowSteps ==
  ASSUME NEW w \in Seq(Instructions)
  PROVE  /\ IsLone(w) => w[2] \in Instructions
         /\ IsAsked(w) => w[1] \in Instructions /\ w[3] \in Instructions
         /\ IsPair(w) => w[2] \in Instructions /\ w[3] \in Instructions
         /\ IsAskedPair(w) =>
              w[1] \in Instructions /\ w[3] \in Instructions /\ w[4] \in Instructions
         /\ IsClosing(w) =>
              w[2] \in Instructions /\ w[4] \in Instructions /\ w[5] \in Instructions
  <1>1. PICK n \in Nat : n = Len(w)
    BY LenProperties
  <1>2. \A k \in 1..n : w[k] \in Instructions
    BY <1>1, ElementOfSeq
  <1>3. /\ n \in {3, 4} => 1 \in 1..n /\ 2 \in 1..n /\ 3 \in 1..n
        /\ n \in {5, 7} => 1 \in 1..n /\ 2 \in 1..n /\ 3 \in 1..n /\ 4 \in 1..n /\ 5 \in 1..n
    OBVIOUS
  <1>4. /\ n \in {3, 4} => w[1] \in Instructions /\ w[2] \in Instructions /\ w[3] \in Instructions
        /\ n \in {5, 7} =>
             /\ w[1] \in Instructions /\ w[2] \in Instructions /\ w[3] \in Instructions
             /\ w[4] \in Instructions /\ w[5] \in Instructions
    BY <1>2, <1>3
  <1>5. /\ IsLone(w) \/ IsAsked(w) \/ IsPair(w) => n \in {3, 4}
        /\ IsAskedPair(w) \/ IsClosing(w) => n \in {5, 7}
    BY <1>1 DEF IsLone, IsAsked, IsPair, IsAskedPair, IsClosing
  <1> QED
    BY <1>4, <1>5

LEMMA EndedStamp ==
  ASSUME NEW w \in Seq(Instructions), NEW db \in Database, NEW wk, Ended(w, db, wk)
  PROVE  SameStamp(db, wk)
  <1>1. CASE IsLone(w) /\ wk = Effect(w[2], db)
    <2>1. w[2] \in Instructions
      BY <1>1, WindowSteps
    <2>2. Statement(w[2]) /\ w[2].op \notin {"create", "stamp"}
      BY <1>1 DEF IsLone, Lone, Statement, Queries
    <2> QED
      BY <1>1, <2>1, <2>2, SameStampTwice
  <1>2. CASE IsAsked(w) /\ wk = Effect(w[3], db)
    <2>1. w[3] \in Instructions
      BY <1>2, WindowSteps
    <2>2. Statement(w[3]) /\ w[3].op \notin {"create", "stamp"}
      BY <1>2 DEF IsAsked, Asks, Statement, Queries
    <2> QED
      BY <1>2, <2>1, <2>2, SameStampTwice
  <1>3. CASE IsPair(w) /\ wk = Effect(w[3], Effect(w[2], db))
    <2>1. w[2] \in Instructions /\ w[3] \in Instructions
      BY <1>3, WindowSteps
    <2>2. /\ Statement(w[2]) /\ w[2].op \notin {"create", "stamp"}
          /\ Statement(w[3]) /\ w[3].op \notin {"create", "stamp"}
      BY <1>3 DEF IsPair, Statement, Queries
    <2> QED
      BY <1>3, <2>1, <2>2, SameStampTwice
  <1>4. CASE IsAskedPair(w) /\ wk = Effect(w[4], Effect(w[3], db))
    <2>1. w[3] \in Instructions /\ w[4] \in Instructions
      BY <1>4, WindowSteps
    <2>2. /\ Statement(w[3]) /\ w[3].op \notin {"create", "stamp"}
          /\ Statement(w[4]) /\ w[4].op \notin {"create", "stamp"}
      BY <1>4 DEF IsAskedPair, AsksPair, Statement, Queries
    <2> QED
      BY <1>4, <2>1, <2>2, SameStampTwice
  <1>5. CASE IsClosing(w) /\ wk \in {Effect(w[2], db),
                                    Effect(w[5], Effect(w[4], Effect(w[2], db)))}
    <2>1. w[2] \in Instructions /\ w[4] \in Instructions /\ w[5] \in Instructions
      BY <1>5, WindowSteps
    <2>2. /\ Statement(w[2]) /\ w[2].op \notin {"create", "stamp"}
          /\ Statement(w[4]) /\ w[4].op \notin {"create", "stamp"}
          /\ Statement(w[5]) /\ w[5].op \notin {"create", "stamp"}
      BY <1>5 DEF IsClosing, Statement, Queries
    <2>3. Effect(w[2], db) \in Database /\ SameStamp(db, Effect(w[2], db))
      BY <2>1, <2>2, SameStampTwice
    <2>4. SameStamp(Effect(w[2], db), Effect(w[5], Effect(w[4], Effect(w[2], db))))
      BY <2>1, <2>2, <2>3, SameStampTwice
    <2> QED
      BY <1>5, <2>3, <2>4 DEF SameStamp
  <1>6. CASE IsPlate(w) /\ wk = Filled(db, Copies)
    BY <1>6 DEF Filled, Database, SameStamp
  <1> QED
    BY <1>1, <1>2, <1>3, <1>4, <1>5, <1>6 DEF Ended

\* A number bounded by another from both sides is that number.
LEMMA SqueezedBetween ==
  ASSUME NEW a \in Nat, NEW b \in Nat, a <= b, b <= a
  PROVE  b = a
OBVIOUS

\* The schema before and after a version is applied to a file that is at the one
\* before.
LEMMA MigrationStamp ==
  ASSUME NEW c \in BootCalls, c.do = "migrate", NEW db \in Database, StampedAfter(db),
         c.version = db.version + 1, db.tables <= Statements * (c.version - 1),
         NEW wk, wk = [Made(c, Statements, db) EXCEPT !.version = c.version]
  PROVE  /\ StampSound(db) /\ db.version < Versions
         /\ wk = [db EXCEPT !.tables = @ + Statements, !.version = @ + 1]
         /\ StampSound(wk) /\ StampedAfter(wk) /\ wk.version = c.version
  <1>1. db.tables \in Nat /\ db.version \in 0..Versions /\ c.version \in 1..Versions
    BY BootsAlone DEF Database
  <1>2. PICK v \in 0..2 : v = db.version /\ c.version = v + 1 /\ c.version - 1 = v
    BY <1>1 DEF Versions
  <1>3. PICK base \in Nat : base = Statements * v /\ Statements * (v + 1) = base + Statements
    <2>1. PICK n \in Nat : n = Statements
      OBVIOUS
    <2>2. CASE v = 0
      <3>1. n * 0 = 0 /\ n * (0 + 1) = 0 + n
        OBVIOUS
      <3> QED
        BY <2>1, <2>2, <3>1
    <2>3. CASE v = 1
      <3>1. n * 1 = n /\ n * (1 + 1) = n + n
        OBVIOUS
      <3> QED
        BY <2>1, <2>3, <3>1
    <2>4. CASE v = 2
      <3>1. n * 2 = n + n /\ n * (2 + 1) = (n + n) + n /\ n + n \in Nat
        OBVIOUS
      <3> QED
        BY <2>1, <2>4, <3>1
    <2> QED
      BY <2>2, <2>3, <2>4
  <1>4. db.tables = base
    <2>1. Statements * db.version = base /\ Statements * (c.version - 1) = base
      BY <1>2, <1>3
    <2>2. base <= db.tables /\ db.tables <= base
      BY <2>1 DEF StampedAfter
    <2> QED
      BY <2>2, <1>1, SqueezedBetween
  <1>5. StampSound(db) /\ db.version < Versions
    BY <1>2, <1>3, <1>4 DEF StampSound, Versions
  <1>6. Made(c, Statements, db) = [db EXCEPT !.tables = base + Statements]
    BY <1>2, <1>3 DEF Made
  <1>7. wk = [db EXCEPT !.tables = @ + Statements, !.version = @ + 1]
    BY <1>2, <1>4, <1>6 DEF Database
  <1>8. wk.tables = base + Statements /\ wk.version = v + 1
    BY <1>2, <1>4, <1>7 DEF Database
  <1>9. StampSound(wk)
    BY <1>3, <1>8 DEF StampSound
  <1>10. Statements * (v + 1) <= Statements * Versions
    <2>1. v \in {0, 1, 2}
      OBVIOUS
    <2> QED
      BY <2>1 DEF Versions
  <1>11. StampedAfter(wk)
    BY <1>3, <1>8, <1>10 DEF StampedAfter
  <1> QED
    BY <1>2, <1>5, <1>7, <1>8, <1>9, <1>11

---------------------------------------------------------------------------
(* What a window has done is one change of AtomicLedger.                   *)

\* The abstract ledger writes its rows by the same statements.
LEMMA SameStatements ==
  ASSUME NEW i, NEW db
  PROVE  /\ i.op = "insert_spool" => Effect(i, db) = Atomic!InsertSpool(db, i.spool, i.status)
         /\ i.op = "status" => Effect(i, db) = Atomic!WriteStatus(db, i.spool, i.status)
         /\ i.op = "clear" => Effect(i, db) = Atomic!ClearSpool(db, i.printer)
         /\ i.op = "load" => Effect(i, db) = Atomic!LoadSpool(db, i.printer, i.spool)
         /\ i.op = "archive_spool" => Effect(i, db) = Atomic!ArchiveSpool(db, i.spool)
         /\ i.op = "insert_part" => Effect(i, db) = Atomic!InsertPart(db, i.part, i.revision)
         /\ i.op = "revision" => Effect(i, db) = Atomic!WriteRevision(db, i.part, i.revision)
         /\ i.op = "archive_part" => Effect(i, db) = Atomic!ArchivePart(db, i.part)
         /\ i.op = "insert_recipe" => Effect(i, db) = Atomic!InsertRecipe(db, i.part, i.recipe)
         /\ i.op = "clear_default" => Effect(i, db) = Atomic!ClearDefault(db, i.part)
         /\ i.op = "set_default" => Effect(i, db) = Atomic!SetDefault(db, i.recipe)
         /\ i.op = "archive_recipe" => Effect(i, db) = Atomic!ArchiveRecipe(db, i.recipe)
         /\ i.op = "close" => Effect(i, db) = Atomic!CloseRun(db, i.verdict)
         /\ i.op = "verdict" => Effect(i, db) = Atomic!WriteVerdict(db, i.verdict)
         /\ i.op = "event" => Effect(i, db) = Atomic!InsertEvent(db, i.uuid)
         /\ i.op = "badge" => Effect(i, db) = Atomic!InsertBadge(db, i.badge)
         /\ i.op = "unbadge" => Effect(i, db) = Atomic!DeleteBadge(db, i.badge)
         /\ i.op = "write_piece" => Effect(i, db) = Atomic!WritePiece(db, i.copy, i.status)
         /\ i.op = "plate" => Effect(i, db) = Atomic!WritePlate(db, i.status)
  <1>1. PICK e : e = Effect(i, db)
    OBVIOUS
  <1>2. /\ i.op = "insert_spool" => e = InsertSpool(db, i.spool, i.status)
        /\ i.op = "status" => e = WriteStatus(db, i.spool, i.status)
        /\ i.op = "clear" => e = ClearSpool(db, i.printer)
        /\ i.op = "load" => e = LoadSpool(db, i.printer, i.spool)
        /\ i.op = "archive_spool" => e = ArchiveSpool(db, i.spool)
        /\ i.op = "insert_part" => e = InsertPart(db, i.part, i.revision)
        /\ i.op = "revision" => e = WriteRevision(db, i.part, i.revision)
        /\ i.op = "archive_part" => e = ArchivePart(db, i.part)
        /\ i.op = "insert_recipe" => e = InsertRecipe(db, i.part, i.recipe)
        /\ i.op = "clear_default" => e = ClearDefault(db, i.part)
        /\ i.op = "set_default" => e = SetDefault(db, i.recipe)
        /\ i.op = "archive_recipe" => e = ArchiveRecipe(db, i.recipe)
        /\ i.op = "close" => e = CloseRun(db, i.verdict)
        /\ i.op = "verdict" => e = WriteVerdict(db, i.verdict)
        /\ i.op = "event" => e = InsertEvent(db, i.uuid)
        /\ i.op = "badge" => e = InsertBadge(db, i.badge)
        /\ i.op = "unbadge" => e = DeleteBadge(db, i.badge)
        /\ i.op = "write_piece" => e = WritePiece(db, i.copy, i.status)
        /\ i.op = "plate" => e = WritePlate(db, i.status)
    BY <1>1, ZenonT(60) DEF Effect
  <1>3. /\ Atomic!InsertSpool(db, i.spool, i.status) = InsertSpool(db, i.spool, i.status)
        /\ Atomic!WriteStatus(db, i.spool, i.status) = WriteStatus(db, i.spool, i.status)
        /\ Atomic!ClearSpool(db, i.printer) = ClearSpool(db, i.printer)
        /\ Atomic!LoadSpool(db, i.printer, i.spool) = LoadSpool(db, i.printer, i.spool)
        /\ Atomic!ArchiveSpool(db, i.spool) = ArchiveSpool(db, i.spool)
    BY Zenon DEF Atomic!InsertSpool, InsertSpool,
           Atomic!WriteStatus, WriteStatus,
           Atomic!ClearSpool, ClearSpool,
           Atomic!LoadSpool, LoadSpool,
           Atomic!ArchiveSpool, ArchiveSpool
  <1>4. /\ Atomic!InsertPart(db, i.part, i.revision) = InsertPart(db, i.part, i.revision)
        /\ Atomic!WriteRevision(db, i.part, i.revision) = WriteRevision(db, i.part, i.revision)
        /\ Atomic!ArchivePart(db, i.part) = ArchivePart(db, i.part)
    BY Zenon DEF Atomic!InsertPart, InsertPart,
           Atomic!WriteRevision, WriteRevision,
           Atomic!ArchivePart, ArchivePart
  <1>5. /\ Atomic!InsertRecipe(db, i.part, i.recipe) = InsertRecipe(db, i.part, i.recipe)
        /\ Atomic!ClearDefault(db, i.part) = ClearDefault(db, i.part)
        /\ Atomic!SetDefault(db, i.recipe) = SetDefault(db, i.recipe)
        /\ Atomic!ArchiveRecipe(db, i.recipe) = ArchiveRecipe(db, i.recipe)
    BY Zenon DEF Atomic!InsertRecipe, InsertRecipe,
           Atomic!ClearDefault, ClearDefault,
           Atomic!SetDefault, SetDefault,
           Atomic!ArchiveRecipe, ArchiveRecipe
  <1>6. /\ Atomic!CloseRun(db, i.verdict) = CloseRun(db, i.verdict)
        /\ Atomic!WriteVerdict(db, i.verdict) = WriteVerdict(db, i.verdict)
        /\ Atomic!InsertEvent(db, i.uuid) = InsertEvent(db, i.uuid)
        /\ Atomic!InsertBadge(db, i.badge) = InsertBadge(db, i.badge)
        /\ Atomic!DeleteBadge(db, i.badge) = DeleteBadge(db, i.badge)
    BY Zenon DEF Atomic!CloseRun, CloseRun,
           Atomic!WriteVerdict, WriteVerdict,
           Atomic!InsertEvent, InsertEvent,
           Atomic!InsertBadge, InsertBadge,
           Atomic!DeleteBadge, DeleteBadge
  <1>7. /\ Atomic!WritePiece(db, i.copy, i.status) = WritePiece(db, i.copy, i.status)
        /\ Atomic!WritePlate(db, i.status) = WritePlate(db, i.status)
    BY Zenon DEF Atomic!WritePiece, WritePiece,
           Atomic!WritePlate, WritePlate
  <1> QED
    BY <1>1, <1>2, <1>3, <1>4, <1>5, <1>6, <1>7

Change == Atomic!SpoolChange \/ Atomic!PartChange \/ Atomic!RunChange \/ Atomic!BootChange

\* A statement that is a change by itself.
LEMMA LoneChange ==
  ASSUME NEW i \in Instructions, i.op \in Lone, disk \in Database, ~Violates(i, disk),
         disk' = Effect(i, disk)
  PROVE  Change
  <1>1. CASE i.op = "insert_spool"
    <2>1. i.spool \in Spools /\ i.status \in Atomic!SPOOL_FREE_STATUSES
      BY <1>1 DEF Instructions, SPOOL_FREE_STATUSES, Atomic!SPOOL_FREE_STATUSES
    <2>2. Atomic!CreateSpool(i.spool, i.status)
      BY <1>1, SameStatements DEF Violates, Atomic!CreateSpool
    <2> QED
      BY <2>1, <2>2 DEF Change, Atomic!SpoolChange
  <1>2. CASE i.op = "clear"
    <2>1. i.printer \in Printers /\ Atomic!UnloadSpool(i.printer)
      BY <1>2, SameStatements DEF Instructions, Atomic!UnloadSpool
    <2> QED
      BY <2>1 DEF Change, Atomic!SpoolChange
  <1>3. CASE i.op = "archive_spool"
    <2>1. i.spool \in Spools /\ disk' = Atomic!ArchiveSpool(disk, i.spool)
      BY <1>3, SameStatements DEF Instructions
    <2> QED
      BY <2>1 DEF Change, Atomic!SpoolChange
  <1>4. CASE i.op = "insert_part"
    <2>1. i.part \in Parts /\ i.revision \in Revisions
      BY <1>4 DEF Instructions
    <2>2. disk.parts[i.part].revision = None /\ Atomic!Unused(i.revision, i.part)
      BY <1>4 DEF Violates, Taken, Atomic!Unused
    <2>3. disk' = Atomic!InsertPart(disk, i.part, i.revision)
      BY <1>4, SameStatements
    <2> QED
      BY <2>1, <2>2, <2>3 DEF Change, Atomic!PartChange
  <1>5. CASE i.op = "archive_part"
    <2>1. i.part \in Parts /\ disk' = Atomic!ArchivePart(disk, i.part)
      BY <1>5, SameStatements DEF Instructions
    <2> QED
      BY <2>1 DEF Change, Atomic!PartChange
  <1>6. CASE i.op \in {"close", "verdict"}
    <2>1. /\ i.verdict \in Atomic!END_STATES
          /\ disk' = Atomic!CloseRun(disk, i.verdict) \/ disk' = Atomic!WriteVerdict(disk, i.verdict)
      BY <1>6, SameStatements DEF Instructions, END_STATES, Atomic!END_STATES
    <2> QED
      BY <2>1 DEF Change, Atomic!RunChange
  <1>7. CASE i.op = "write_piece"
    <2>1. /\ i.copy \in 1..Copies /\ i.status \in Atomic!PIECE_STATUSES
          /\ disk' = Atomic!WritePiece(disk, i.copy, i.status)
      BY <1>7, SameStatements DEF Instructions, PIECE_STATUSES, Atomic!PIECE_STATUSES
    <2> QED
      BY <2>1 DEF Change, Atomic!RunChange
  <1>8. CASE i.op = "event"
    <2>1. i.uuid \in Uuids /\ disk' = Atomic!InsertEvent(disk, i.uuid)
      BY <1>8, SameStatements DEF Instructions
    <2> QED
      BY <2>1 DEF Change, Atomic!RunChange
  <1>9. CASE i.op \in {"badge", "unbadge"}
    <2>1. /\ i.badge \in Badges
          /\ disk' \in {Atomic!InsertBadge(disk, i.badge), Atomic!DeleteBadge(disk, i.badge)}
      BY <1>9, SameStatements DEF Instructions
    <2> QED
      BY <2>1 DEF Change, Atomic!RunChange
  <1>10. CASE i.op = "seed"
    <2>1. disk' = [disk EXCEPT !.seeded = TRUE]
      BY <1>10 DEF Effect
    <2> QED
      BY <2>1 DEF Change, Atomic!BootChange
  <1> QED
    BY <1>1, <1>2, <1>3, <1>4, <1>5, <1>6, <1>7, <1>8, <1>9, <1>10 DEF Lone

\* A statement that relies on a query.
LEMMA AskedChange ==
  ASSUME NEW q \in Instructions, NEW i \in Instructions, Asks(q, i), disk \in Database,
         Answer(q, disk), ~Violates(i, disk), disk' = Effect(i, disk)
  PROVE  Change
  <1>1. CASE q.op = "get_spool"
    <2>1. /\ i.op = "status" /\ i.spool = q.spool /\ i.spool \in Spools
          /\ i.status \in Atomic!SPOOL_FREE_STATUSES
      BY <1>1 DEF Asks, Instructions, SPOOL_FREE_STATUSES, Atomic!SPOOL_FREE_STATUSES
    <2>2. Atomic!UpdateSpool(i.spool, i.status)
      BY <1>1, <2>1, SameStatements DEF Answer, Atomic!UpdateSpool
    <2> QED
      BY <2>1, <2>2 DEF Change, Atomic!SpoolChange
  <1>2. CASE q.op = "get_part" /\ i.op = "revision"
    <2>1. i.part = q.part /\ i.part \in Parts /\ i.revision \in Revisions
      BY <1>2 DEF Asks, Instructions
    <2>2. disk.parts[i.part].revision # None /\ Atomic!Unused(i.revision, i.part)
      BY <1>2, <2>1 DEF Answer, Violates, Taken, Atomic!Unused
    <2>3. disk' = Atomic!WriteRevision(disk, i.part, i.revision)
      BY <1>2, SameStatements
    <2> QED
      BY <2>1, <2>2, <2>3 DEF Change, Atomic!PartChange
  <1>3. CASE q.op = "get_part" /\ i.op = "insert_recipe"
    <2>1. i.part \in Parts /\ i.recipe \in Recipes
      BY <1>3 DEF Instructions
    <2>2. disk.recipes[i.recipe].part_id = None
            /\ disk' = Atomic!InsertRecipe(disk, i.part, i.recipe)
      BY <1>3, SameStatements DEF Violates
    <2> QED
      BY <2>1, <2>2 DEF Change, Atomic!PartChange
  <1>4. CASE q.op = "owns_recipe"
    <2>1. i.op = "archive_recipe" /\ i.recipe \in Recipes /\ q.part \in Parts
      BY <1>4 DEF Asks, Instructions
    <2>2. disk' = Atomic!ArchiveRecipe(disk, i.recipe)
      BY <2>1, SameStatements
    <2> QED
      BY <2>1, <2>2 DEF Change, Atomic!PartChange
  <1>5. CASE q.op = "may_badge"
    <2>1. i.op = "badge" /\ i.badge \in Badges
      BY <1>5 DEF Asks, Instructions
    <2>2. disk' = Atomic!InsertBadge(disk, i.badge)
      BY <2>1, SameStatements
    <2> QED
      BY <2>1, <2>2 DEF Change, Atomic!RunChange
  <1> QED
    BY <1>1, <1>2, <1>3, <1>4, <1>5 DEF Asks

LEMMA AskedPairChange ==
  ASSUME NEW q \in Instructions, NEW x \in Instructions, NEW y \in Instructions,
         AsksPair(q, x, y), Answer(q, disk), disk' = Effect(y, Effect(x, disk))
  PROVE  Change
  <1>1. CASE q.op = "get_spool"
    <2>1. /\ x.op = "clear" /\ y.op = "load" /\ y.spool = q.spool /\ y.printer = x.printer
          /\ y.spool \in Spools /\ y.printer \in Printers
      BY <1>1 DEF AsksPair, Instructions
    <2>2. Atomic!SetLoadedSpool(y.printer, y.spool)
      BY <1>1, <2>1, SameStatements DEF Answer, Atomic!SetLoadedSpool
    <2> QED
      BY <2>1, <2>2 DEF Change, Atomic!SpoolChange
  <1>2. CASE q.op = "owns_recipe"
    <2>1. /\ x.op = "clear_default" /\ y.op = "set_default" /\ x.part = q.part
          /\ y.recipe = q.recipe /\ x.part \in Parts /\ y.recipe \in Recipes
      BY <1>2 DEF AsksPair, Instructions
    <2>2. Atomic!SetDefaultRecipe(x.part, y.recipe)
      BY <1>2, <2>1, SameStatements DEF Answer, Atomic!SetDefaultRecipe
    <2> QED
      BY <2>1, <2>2 DEF Change, Atomic!PartChange
  <1> QED
    BY <1>1, <1>2 DEF AsksPair

\* A window that has ended made one change.
LEMMA EndedChange ==
  ASSUME NEW w \in Seq(Instructions), disk \in Database, Ended(w, disk, disk')
  PROVE  Change
  <1>1. CASE IsLone(w) /\ ~Violates(w[2], disk) /\ disk' = Effect(w[2], disk)
    <2>1. w[2] \in Instructions /\ w[2].op \in Lone
      BY <1>1, WindowSteps DEF IsLone
    <2> QED
      BY <1>1, <2>1, LoneChange
  <1>2. CASE /\ IsAsked(w) /\ Answer(w[1], disk) /\ ~Violates(w[3], disk)
             /\ disk' = Effect(w[3], disk)
    <2>1. w[1] \in Instructions /\ w[3] \in Instructions /\ Asks(w[1], w[3])
      BY <1>2, WindowSteps DEF IsAsked
    <2> QED
      BY <1>2, <2>1, AskedChange
  <1>3. CASE IsPair(w) /\ disk' = Effect(w[3], Effect(w[2], disk))
    <2>1. w[2] \in Instructions /\ w[3] \in Instructions
      BY <1>3, WindowSteps
    <2>2. /\ w[2].op = "plate" /\ w[2].status \in Atomic!PIECE_STATUSES
          /\ w[3].op = "write_piece" /\ w[3].copy \in 1..Copies
          /\ w[3].status \in Atomic!PIECE_STATUSES
      BY <1>3, <2>1 DEF IsPair, Instructions, PIECE_STATUSES, Atomic!PIECE_STATUSES
    <2>3. disk' = Atomic!WritePiece(Atomic!WritePlate(disk, w[2].status), w[3].copy, w[3].status)
      BY <1>3, <2>2, SameStatements
    <2> QED
      BY <2>2, <2>3 DEF Change, Atomic!RunChange
  <1>4. CASE /\ IsAskedPair(w) /\ Answer(w[1], disk)
             /\ disk' = Effect(w[4], Effect(w[3], disk))
    <2>1. /\ w[1] \in Instructions /\ w[3] \in Instructions /\ w[4] \in Instructions
          /\ AsksPair(w[1], w[3], w[4])
      BY <1>4, WindowSteps DEF IsAskedPair
    <2> QED
      BY <1>4, <2>1, AskedPairChange
  <1>5. CASE IsClosing(w) /\ disk' \in {Effect(w[2], disk),
                                      Effect(w[5], Effect(w[4], Effect(w[2], disk)))}
    <2>1. w[2] \in Instructions /\ w[4] \in Instructions /\ w[5] \in Instructions
      BY <1>5, WindowSteps
    <2>2. /\ w[2].op = "close" /\ w[2].verdict \in Atomic!END_STATES
          /\ w[4].op = "badge" /\ w[4].badge \in Badges
          /\ w[5].op = "event" /\ w[5].uuid \in Uuids
      BY <1>5, <2>1 DEF IsClosing, Instructions, END_STATES, Atomic!END_STATES
    <2>3. /\ Effect(w[2], disk) = Atomic!CloseRun(disk, w[2].verdict)
          /\ \A db : Effect(w[4], db) = Atomic!InsertBadge(db, w[4].badge)
          /\ \A db : Effect(w[5], db) = Atomic!InsertEvent(db, w[5].uuid)
      BY <2>2, SameStatements
    <2>4. \/ disk' = Atomic!CloseRun(disk, w[2].verdict)
          \/ disk' = Atomic!InsertEvent(
                       Atomic!InsertBadge(Atomic!CloseRun(disk, w[2].verdict), w[4].badge),
                       w[5].uuid)
      BY <1>5, <2>3
    <2> QED
      BY <2>2, <2>4 DEF Change, Atomic!RunChange
  <1>6. CASE IsPlate(w) /\ disk' = Filled(disk, Copies)
    <2>1. disk' = Atomic!Plate
      <3>1. [j \in 1..Copies |-> IF j <= Copies /\ disk.pieces[j] = "none"
                                   THEN "pending_inspection" ELSE disk.pieces[j]]
              = [j \in 1..Copies |-> IF disk.pieces[j] = "none"
                                       THEN "pending_inspection" ELSE disk.pieces[j]]
        OBVIOUS
      <3> QED
        BY <1>6, <3>1 DEF Filled, Atomic!Plate
    <2> QED
      BY <2>1 DEF Change, Atomic!RunChange
  <1> QED
    BY <1>1, <1>2, <1>3, <1>4, <1>5, <1>6 DEF Ended

LEMMA MigrationChange ==
  ASSUME StampSound(disk), disk.version < Versions,
         disk' = [disk EXCEPT !.tables = @ + Statements, !.version = @ + 1]
  PROVE  Change
  BY DEF Change, Atomic!BootChange, StampSound, Atomic!StampSound, Versions, Atomic!Versions

---------------------------------------------------------------------------
(* The windows of the boot's calls.                                        *)

\* A body between the two ends of its block.
LEMMA BetweenEnds ==
  ASSUME NEW S, NEW b \in S, NEW e \in S, NEW y \in Seq(S), NEW m \in Nat, Len(y) = m,
         NEW w, w = <<b>> \o y \o <<e>>
  PROVE  /\ w \in Seq(S) /\ Len(w) = m + 2 /\ w[1] = b /\ w[m + 2] = e
         /\ \A n \in 1..m : w[n + 1] = y[n]
  <1>1. <<b>> \in Seq(S) /\ Len(<<b>>) = 1 /\ <<b>>[1] = b
    OBVIOUS
  <1>2. <<e>> \in Seq(S) /\ Len(<<e>>) = 1 /\ <<e>>[1] = e
    OBVIOUS
  <1> DEFINE x == <<b>> \o y
  <1>3. /\ x \in Seq(S) /\ Len(x) = 1 + m /\ x[1] = b
        /\ \A n \in 1..m : x[n + 1] = y[n]
    BY <1>1, ConcatProperties, Z3
  <1>5. w = x \o <<e>>
    OBVIOUS
  <1> HIDE DEF x
  <1>4. /\ w \in Seq(S) /\ Len(w) = m + 2 /\ w[1] = b /\ w[m + 2] = e
        /\ \A n \in 1..m : w[n + 1] = y[n]
    BY <1>2, <1>3, <1>5, ConcatProperties, Z3T(60)
  <1> QED
    BY <1>4

LEMMA MigrationWindow ==
  ASSUME NEW c \in BootCalls, c.do = "migrate"
  PROVE  WindowOf(c, Steps(c)) /\ Steps(c)[1].skip = 0
  <1> DEFINE v == c.version
             Table(n) == Statements * (v - 1) + n
             b == [op |-> "begin", skip |-> 0]
             create == [n \in 1..Statements |-> [op |-> "create", table |-> Table(n)]]
             x == [op |-> "stamp", version |-> v]
             e == [op |-> "end"]
             w == <<b>> \o (create \o <<x>>) \o <<e>>
  <1>1. v \in 1..Versions /\ Steps(c) = MigrateTo(v)
    BY BootsAlone DEF BootSteps
  <1>2. Steps(c) = w
    BY <1>1 DEF MigrateTo, Block
  <1>3. /\ b \in Instructions /\ b.op = "begin" /\ e \in Instructions /\ e.op = "end"
        /\ x \in Instructions /\ x.op = "stamp" /\ x.version = v /\ b.skip = 0
    BY <1>1 DEF Instructions
  <1>4. /\ create \in Seq(Instructions) /\ Len(create) = Statements
        /\ \A n \in 1..Statements : create[n].op = "create" /\ create[n].table = Table(n)
    <2>1. Statements * (v - 1) \in Nat
      <3>1. v \in {1, 2, 3}
        BY <1>1 DEF Versions
      <3> QED
        BY <3>1
    <2>2. \A n \in 1..Statements : Table(n) \in Nat
      BY <2>1
    <2> HIDE DEF Table
    <2>3. \A n \in 1..Statements : [op |-> "create", table |-> Table(n)] \in Instructions
      BY <2>2 DEF Instructions
    <2> QED
      BY <2>3
  <1> HIDE DEF b, create, x, e
  <1>5. /\ create \o <<x>> \in Seq(Instructions) /\ Len(create \o <<x>>) = Statements + 1
        /\ \A n \in 1..Statements : (create \o <<x>>)[n] = create[n]
        /\ (create \o <<x>>)[Statements + 1] = x
    <2>1. <<x>> \in Seq(Instructions) /\ Len(<<x>>) = 1 /\ <<x>>[1] = x
      BY <1>3
    <2> QED
      BY <2>1, <1>4, ConcatProperties, Z3
  <1> DEFINE y == create \o <<x>>
  <1> HIDE DEF y
  <1>6. /\ y \in Seq(Instructions) /\ Len(y) = Statements + 1
        /\ \A n \in 1..Statements : y[n] = create[n]
        /\ y[Statements + 1] = x
        /\ w = <<b>> \o y \o <<e>>
    BY <1>5 DEF y
  <1>7. /\ w \in Seq(Instructions) /\ Len(w) = Statements + 3
        /\ w[1] = b /\ w[Statements + 3] = e
        /\ \A n \in 1..(Statements + 1) : w[n + 1] = y[n]
    <2>1. PICK m \in Nat : m = Statements + 1 /\ m + 2 = Statements + 3
      OBVIOUS
    <2>2. Len(y) = m /\ y \in Seq(Instructions) /\ w = <<b>> \o y \o <<e>>
      BY <1>6, <2>1, Zenon
    <2> HIDE DEF w
    <2>3. /\ w \in Seq(Instructions) /\ Len(w) = m + 2
          /\ w[1] = b /\ w[m + 2] = e
          /\ \A n \in 1..m : w[n + 1] = y[n]
      BY <1>3, <2>2, BetweenEnds
    <2> QED
      BY <2>1, <2>3
  <1> HIDE DEF w
  <1>8. \A n \in 1..Statements : w[n + 1] = create[n]
    <2>1. \A n \in 1..Statements : n \in 1..(Statements + 1)
      OBVIOUS
    <2>2. \A n \in 1..Statements : y[n] = create[n]
      BY <1>6
    <2>3. \A n \in 1..(Statements + 1) : w[n + 1] = y[n]
      BY <1>7
    <2> QED
      BY <2>1, <2>2, <2>3
  <1>9. w[Statements + 2] = x
    <2>1. Statements + 1 \in 1..(Statements + 1) /\ (Statements + 1) + 1 = Statements + 2
      OBVIOUS
    <2> QED
      BY <2>1, <1>6, <1>7
  <1>10. IsMigration(w, c)
    BY <1>3, <1>4, <1>7, <1>8, <1>9 DEF IsMigration
  <1> QED
    BY <1>2, <1>3, <1>7, <1>10 DEF WindowOf

LEMMA SeedSteps ==
  ASSUME NEW c \in BootCalls, c.do = "seed_badges"
  PROVE  /\ Len(Steps(c)) = 3 /\ Shaped(Steps(c))
         /\ Steps(c)[1].op = "begin" /\ Steps(c)[2].op = "seed" /\ Steps(c)[3].op = "end"
         /\ Steps(c)[1].skip = 0
  <1> DEFINE x == [op |-> "seed"]
             b == [op |-> "begin", skip |-> 0]
             e == [op |-> "end"]
  <1>1. x \in Instructions /\ b \in Instructions /\ e \in Instructions
    BY DEF Instructions
  <1>2. Steps(c) = Block(<<x>>) /\ Shaped(Steps(c))
    BY BootsAlone, SeedShaped DEF BootSteps
  <1>3. x.op = "seed" /\ b.op = "begin" /\ e.op = "end" /\ b.skip = 0
    OBVIOUS
  <1>4. Steps(c) = <<b>> \o <<x>> \o <<e>>
    BY <1>2 DEF Block
  <1> HIDE DEF x, b, e
  <1>5. Len(Steps(c)) = 3 /\ Steps(c)[1] = b /\ Steps(c)[2] = x /\ Steps(c)[3] = e
    <2> DEFINE y == <<x>>
    <2>1. y \in Seq(Instructions) /\ Len(y) = 1 /\ y[1] = x
      BY <1>1
    <2>2. Steps(c) = <<b>> \o y \o <<e>>
      BY <1>4
    <2> HIDE DEF y
    <2>3. PICK m \in Nat : m = 1
      OBVIOUS
    <2>4. PICK s : s = Steps(c) /\ Len(y) = m /\ s = <<b>> \o y \o <<e>>
      BY <2>1, <2>2, <2>3
    <2>5. /\ Len(s) = m + 2 /\ s[1] = b /\ s[m + 2] = e
          /\ \A n \in 1..m : s[n + 1] = y[n]
      BY <1>1, <2>1, <2>4, BetweenEnds
    <2> QED
      BY <2>1, <2>3, <2>4, <2>5
  <1> QED
    BY <1>2, <1>3, <1>5

\* Every outermost or inner block of a call is in a window that the call may have.
LEMMA HasWindow ==
  ASSUME NEW c \in Calls \cup BootCalls, NEW p \in 1..Len(Steps(c)), Steps(c)[p].op = "begin"
  PROVE  \E a \in Nat, w \in Seq(Instructions) : WindowOf(c, w) /\ Covers(Steps(c), a, w, p)
  <1>1. CASE c.do = "migrate"
    <2>1. c \in BootCalls
      BY <1>1 DEF Calls, SpoolCalls, PartCalls, RecipeCalls, PlateCalls, RunCalls
    <2>2. PICK w \in Seq(Instructions) : w = Steps(c) /\ WindowOf(c, w)
      BY <1>1, <2>1, MigrationWindow DEF WindowOf
    <2>3. PICK n \in Nat : n = Len(w)
      BY LenProperties
    <2>4. \A k \in 1..n : 0 + k = k
      OBVIOUS
    <2>5. Covers(Steps(c), 0, w, p)
      BY <2>2, <2>3, <2>4 DEF Covers, Within
    <2> QED
      BY <2>2, <2>5
  <1>2. CASE c.do # "migrate"
    <2>1. Shaped(Steps(c))
      BY <1>2, StepsProper, SeedSteps, BootsAlone DEF Proper
    <2> QED
      BY <1>2, <2>1 DEF Shaped, WindowOf
  <1> QED
    BY <1>1, <1>2

\* The inner block of a closing window is never the outermost one.
LEMMA InnerIsDeep ==
  ASSUME NEW c \in Calls \cup BootCalls, NEW a \in Nat, NEW w \in Seq(Instructions),
         IsClosing(w), Within(Steps(c), a, w)
  PROVE  Depth(c)[a + 3] # 0
  <1>1. Len(w) = 7 /\ a + 7 <= Len(Steps(c)) /\ Len(Steps(c)) \in Nat
    BY FirstStep DEF IsClosing, Within
  <1>2. a + 1 \in 1..Len(Steps(c)) /\ a + 2 \in 1..Len(Steps(c))
    BY <1>1
  <1>3. Steps(c)[a + 1].op = "begin" /\ Steps(c)[a + 2].op = "close"
    BY <1>1, SMTT(40) DEF IsClosing, Within
  <1>4. /\ Depth(c)[a + 1] \in Nat
        /\ Nested(Steps(c), Depth(c), a + 1) /\ Nested(Steps(c), Depth(c), a + 2)
    BY <1>2, CallStep DEF WellPlaced
  <1>5. (a + 1) + 1 = a + 2 /\ (a + 2) + 1 = a + 3
    OBVIOUS
  <1>6. Depth(c)[(a + 1) + 1] = Depth(c)[a + 1] + 1
    BY <1>3, <1>4 DEF Nested
  <1>7. Depth(c)[(a + 2) + 1] = Depth(c)[a + 2]
    BY <1>3, <1>4 DEF Nested, Statement, Queries
  <1> QED
    BY <1>4, <1>5, <1>6, <1>7

---------------------------------------------------------------------------
(* A thread with the lock is in the window of its outermost block.         *)

\* t is in window w, which its call has after step a.
Inside(t, a, w) ==
  LET c == thread[t].call
      n == Len(blocks)
   IN /\ Within(Steps(c), a, w)
      /\ n \in {1, 2}
      /\ n = 2 => /\ c.do # "migrate" /\ IsClosing(w)
                  /\ blocks[2].pc = a + 3 /\ saves[2] = Effect(w[2], disk)
      /\ thread[t].raising = "no" =>
           \E k \in 1..Len(w) : thread[t].pc = a + k /\ Reached(c, w, k, n, disk, work)

Progress(t) == lock = t => \E a \in Nat, w \in Seq(Instructions) : Inside(t, a, w)

\* The answer to query q is yes, whatever is rolled back.
Known(q) ==
  /\ Answer(q, work)
  /\ blocks # <<>> => \A k \in 1..Len(saves) : Answer(q, saves[k])

\* What t asked last is still so.
Asked(t) ==
  LET q == Steps(thread[t].call)[thread[t].pc - 1]
   IN Busy(t) /\ thread[t].raising = "no" /\ thread[t].pc > 1 /\ q.op \in Queries => Known(q)

KeepsAnswers == \A q \in Instructions : q.op \in Queries /\ Known(q) => Known(q)'

---------------------------------------------------------------------------
\* t keeps the lock, and is at the next step.
LEMMA NextIn ==
  ASSUME Shape, Shape', NEW t \in Threads, Running(t), lock' = t,
         Continue(t, thread[t].pc + 1)
  PROVE  /\ thread'[t] = [call |-> thread[t].call, pc |-> thread[t].pc + 1, raising |-> "no"]
         /\ \A u \in Threads \ {t} : thread'[u] = thread[u]
  <1>1. PICK c \in Calls \cup BootCalls, i \in Nat :
          /\ c = thread[t].call /\ i = thread[t].pc /\ i \in 1..Len(Steps(c))
          /\ i + 1 \in 1..(Len(Steps(c)) + 1)
    BY RunningStep, CallStep
  <1>2. /\ \A u \in Threads \ {t} : thread'[u] = thread[u]
        /\ i + 1 = Len(Steps(c)) + 1 => thread'[t] = Idle
        /\ i + 1 # Len(Steps(c)) + 1 =>
             thread'[t] = [call |-> c, pc |-> i + 1, raising |-> "no"]
    BY <1>1, Continues DEF Shape
  <1>3. thread'[t] # Idle
    BY DEF Shape, Placed, Busy, Idle
  <1> QED
    BY <1>1, <1>2, <1>3

LEMMA EnterProgress ==
  ASSUME IInv, Shape', NEW t \in Threads, Progress(t), Asked(t), Enter(t)
  PROVE  Progress(t)'
  <1>1. PICK c \in Calls \cup BootCalls, i \in Nat :
          /\ c = thread[t].call /\ i = thread[t].pc /\ i \in 1..Len(Steps(c))
          /\ Steps(c)[i].op = "begin"
    BY RunningStep, CallStep DEF IInv, Enter, Step
  <1>2. /\ Shape /\ Running(t) /\ Busy(t) /\ thread[t].raising = "no" /\ lock \in {NoThread, t}
        /\ lock' = t /\ disk' = disk /\ work' = work
        /\ saves' = Append(saves, work)
        /\ blocks' = Append(blocks, [pc |-> i, entry |-> work])
        /\ blocks = <<>> => saves = <<>>
    BY <1>1 DEF IInv, Enter, file, MayLock, Running, Busy
  <1>3. thread'[t] = [call |-> c, pc |-> i + 1, raising |-> "no"]
    BY <1>1, <1>2, NextIn DEF Enter
  <1>4. PICK n \in Nat :
          /\ n = Len(blocks) /\ Len(blocks') = n + 1 /\ blocks'[n + 1].pc = i
          /\ saves'[Len(saves) + 1] = work
    <2>1. /\ blocks \in Seq([pc : Nat, entry : Database]) /\ saves \in Seq(Database)
          /\ work \in Database /\ [pc |-> i, entry |-> work] \in [pc : Nat, entry : Database]
      BY <1>2 DEF Shape, TypeOK
    <2>2. Len(blocks) \in Nat /\ Len(blocks') = Len(blocks) + 1
            /\ blocks'[Len(blocks) + 1] = [pc |-> i, entry |-> work]
      BY <2>1, <1>2, Growth
    <2>3. saves'[Len(saves) + 1] = work
      BY <2>1, <1>2, Growth
    <2> QED
      BY <2>2, <2>3
  <1>5. CASE blocks = <<>>
    <2>1. n = 0 /\ work = disk /\ disk \in Database
      BY <1>2, <1>4, <1>5, EmptySeq DEF Shape, Saved, TypeOK
    <2>2. PICK a \in Nat, w \in Seq(Instructions) : WindowOf(c, w) /\ Covers(Steps(c), a, w, i)
      BY <1>1, HasWindow
    <2>3. PICK k \in 1..Len(w) : i = a + k
      <3>1. a < i /\ i <= a + Len(w) /\ Len(w) \in Nat
        BY <2>2, LenProperties DEF Covers
      <3>2. i - a \in 1..Len(w) /\ i = a + (i - a)
        BY <3>1
      <3> QED
        BY <3>2
    <2>4. Within(Steps(c), a, w) /\ w[k] = Steps(c)[i]
      BY <2>2, <2>3 DEF Covers, Within
    <2>5. ASSUME k > 1, w[k - 1].op \in Queries
          PROVE  Answer(w[k - 1], disk)
      <3>1. k - 1 \in 1..Len(w) /\ a + (k - 1) = i - 1 /\ i > 1
        BY <2>3, <2>5, LenProperties
      <3>2. w[k - 1] = Steps(c)[i - 1]
        BY <3>1, <2>4 DEF Within
      <3>3. Known(Steps(c)[i - 1])
        BY <3>1, <3>2, <2>5, <1>1, <1>2 DEF Asked
      <3> QED
        BY <3>2, <3>3, <2>1 DEF Known
    <2>6. ~(IsClosing(w) /\ k = 3)
      <3>1. Depth(c)[i] = 0
        BY <1>1, <1>2, <1>4, <2>1, OpenBlocks
      <3> QED
        BY <3>1, <2>3, <2>4, InnerIsDeep
    <2>7. k + 1 \in 1..Len(w) /\ Reached(c, w, k + 1, 1, disk, disk)
      BY <1>1, <2>1, <2>2, <2>4, <2>5, <2>6, WindowBegins
    <2>8. i + 1 = a + (k + 1) /\ Len(blocks') = 1
      BY <2>1, <2>3, <1>4
    <2>9. Inside(t, a, w)'
      BY <2>1, <2>4, <2>7, <2>8, <1>2, <1>3 DEF Inside
    <2> QED
      BY <2>9 DEF Progress
  <1>6. CASE blocks # <<>>
    <2>1. lock = t
      BY <1>2, <1>6 DEF Shape, Locking
    <2>2. PICK a \in Nat, w \in Seq(Instructions) : Inside(t, a, w)
      BY <2>1 DEF Progress
    <2>3. PICK k \in 1..Len(w) :
            i = a + k /\ Reached(c, w, k, n, disk, work) /\ Within(Steps(c), a, w)
      BY <2>2, <1>1, <1>2, <1>4 DEF Inside
    <2>4. w[k].op = "begin"
      BY <2>3, <1>1 DEF Within
    <2>5. /\ c.do # "migrate" /\ IsClosing(w) /\ k = 3 /\ n = 1
          /\ work = Effect(w[2], disk) /\ Reached(c, w, 4, 2, disk, work)
      <3>1. disk \in Database
        BY <1>2 DEF Shape, TypeOK
      <3> QED
        BY <3>1, <2>3, <2>4, InnerBegins
    <2>6. /\ Len(blocks') = 2 /\ blocks'[2].pc = a + 3 /\ saves'[2] = work
          /\ i + 1 = a + 4 /\ 4 \in 1..Len(w)
      <3>1. Len(saves) = 1
        BY <2>5, <1>2, <1>4, <1>6 DEF Shape, Saved
      <3>2. Len(w) = 7 /\ 4 \in 1..7
        BY <2>5 DEF IsClosing
      <3>3. 1 + 1 = 2 /\ (a + 3) + 1 = a + 4
        OBVIOUS
      <3>4. n = 1 /\ i = a + 3
        BY <2>3, <2>5
      <3> QED
        BY <3>1, <3>2, <3>3, <3>4, <1>4
    <2>7. Inside(t, a, w)'
      BY <2>3, <2>5, <2>6, <1>2, <1>3 DEF Inside
    <2> QED
      BY <2>7 DEF Progress
  <1> QED
    BY <1>5, <1>6

LEMMA ExecuteProgress ==
  ASSUME IInv, Shape', NEW t \in Threads, Progress(t), Execute(t)
  PROVE  Progress(t)'
  <1>1. PICK c \in Calls \cup BootCalls, i \in Nat :
          /\ c = thread[t].call /\ i = thread[t].pc /\ Step(t) = Steps(c)[i]
    BY RunningStep, CallStep DEF IInv, Execute, InBlock, Step
  <1>2. /\ Shape /\ Running(t) /\ lock = t /\ thread[t].raising = "no" /\ Statement(Step(t))
        /\ disk \in Database
        /\ UNCHANGED <<disk, saves, blocks, lock>>
    BY InOpenBlock DEF IInv, Execute, file, Running, Shape, TypeOK
  <1>3. PICK a \in Nat, w \in Seq(Instructions) : Inside(t, a, w)
    BY <1>2 DEF Progress
  <1>4. PICK k \in 1..Len(w) :
          i = a + k /\ Reached(c, w, k, Len(blocks), disk, work) /\ Within(Steps(c), a, w)
    BY <1>1, <1>2, <1>3 DEF Inside
  <1>5. CASE Violates(Step(t), work)
    <2>1. \E x \in {"integrity", "operational"} : Raise(t, x)
      BY <1>5 DEF Execute
    <2>2. thread'[t].raising # "no" /\ thread'[t].call = c
      BY <2>1, <1>1, <1>2 DEF Raise, Shape, TypeOK, Calling
    <2>3. Inside(t, a, w)'
      BY <2>2, <1>1, <1>2, <1>3 DEF Inside
    <2> QED
      BY <2>3 DEF Progress
  <1>6. CASE ~Violates(Step(t), work)
    <2>1. work' = Effect(Step(t), work) /\ Continue(t, thread[t].pc + 1)
      BY <1>6 DEF Execute
    <2>2. thread'[t] = [call |-> c, pc |-> i + 1, raising |-> "no"]
      BY <2>1, <1>1, <1>2, NextIn
    <2>3. Step(t) = w[k]
      BY <1>1, <1>4 DEF Within
    <2>4. k + 1 \in 1..Len(w) /\ Reached(c, w, k + 1, Len(blocks), disk, work')
      BY <2>1, <2>3, <1>2, <1>4, <1>6, WindowExecutes
    <2>5. i + 1 = a + (k + 1)
      BY <1>4, LenProperties
    <2>6. Inside(t, a, w)'
      BY <2>2, <2>4, <2>5, <1>1, <1>2, <1>3 DEF Inside
    <2> QED
      BY <2>6 DEF Progress
  <1> QED
    BY <1>5, <1>6

LEMMA StatementFailsProgress ==
  ASSUME IInv, NEW t \in Threads, Progress(t), StatementFails(t)
  PROVE  Progress(t)'
  <1>1. /\ lock = t /\ Raise(t, "operational") /\ thread \in [Threads -> Calling]
        /\ UNCHANGED <<disk, work, saves, blocks, lock>>
    BY DEF StatementFails, InBlock, file, conn, IInv, Shape, TypeOK
  <1>2. thread'[t].raising # "no" /\ thread'[t].call = thread[t].call
    BY <1>1 DEF Raise, Calling
  <1>3. PICK a \in Nat, w \in Seq(Instructions) : Inside(t, a, w)
    BY <1>1 DEF Progress
  <1>4. Inside(t, a, w)'
    BY <1>1, <1>2, <1>3 DEF Inside
  <1> QED
    BY <1>4 DEF Progress

\* The inner block ends: the run is closed and noted.
LEMMA LeaveProgress ==
  ASSUME IInv, Shape', NEW t \in Threads, Progress(t), Leave(t)
  PROVE  Progress(t)'
  <1> SUFFICES ASSUME lock' = t
               PROVE  Progress(t)'
    BY DEF Progress
  <1>1. PICK c \in Calls \cup BootCalls, i \in Nat :
          /\ c = thread[t].call /\ i = thread[t].pc /\ Steps(c)[i].op = "end"
    BY RunningStep, CallStep DEF IInv, Leave, Step
  <1>2. /\ Shape /\ Running(t) /\ lock = t /\ thread[t].raising = "no"
        /\ Len(blocks) # 1 /\ Len(blocks') = Len(blocks) - 1
        /\ disk' = disk /\ work' = work
    BY LeavesBlock DEF IInv, Leave, Running
  <1>3. PICK a \in Nat, w \in Seq(Instructions) : Inside(t, a, w)
    BY <1>2 DEF Progress
  <1>4. PICK k \in 1..Len(w) :
          i = a + k /\ Reached(c, w, k, 2, disk, work) /\ Within(Steps(c), a, w) /\ Len(blocks) = 2
    BY <1>1, <1>2, <1>3 DEF Inside
  <1>5. w[k].op = "end"
    BY <1>1, <1>4 DEF Within
  <1>6. Len(w) = 7 /\ k = 6 /\ Reached(c, w, 7, 1, disk, work)
    BY <1>4, <1>5, InnerEnds
  <1>7. thread'[t] = [call |-> c, pc |-> i + 1, raising |-> "no"]
    BY <1>1, <1>2, NextIn DEF Leave
  <1>8. i + 1 = a + 7 /\ 7 \in 1..Len(w) /\ Len(blocks') = 1
    BY <1>2, <1>4, <1>6
  <1>9. Inside(t, a, w)'
    BY <1>2, <1>4, <1>6, <1>7, <1>8 DEF Inside
  <1> QED
    BY <1>9 DEF Progress

\* The inner block is rolled back: the run is closed, and if the exception is
\* caught, t is about to commit that.
LEMMA UnwindProgress ==
  ASSUME IInv, Shape', NEW t \in Threads, Progress(t), Unwind(t)
  PROVE  Progress(t)'
  <1> SUFFICES ASSUME lock' = t
               PROVE  Progress(t)'
    BY DEF Progress
  <1>1. /\ Shape /\ lock = t /\ Busy(t) /\ thread[t].raising # "no"
        /\ thread[t].call \in Calls \cup BootCalls
        /\ LeaveBlock /\ saves' = Pop(saves) /\ work' = Top(saves) /\ disk' = disk
    BY DEF IInv, Unwind, Shape, Placed, Busy, Idle, file
  <1>2. /\ Len(blocks) # 1 /\ Len(blocks') = Len(blocks) - 1
        /\ Top(blocks) = blocks[Len(blocks)] /\ Top(saves) = saves[Len(blocks)]
    BY <1>1, LeavesBlock
  <1>3. PICK a \in Nat, w \in Seq(Instructions) : Inside(t, a, w)
    BY <1>1 DEF Progress
  <1>4. PICK c \in Calls \cup BootCalls :
          /\ c = thread[t].call /\ c.do # "migrate" /\ IsClosing(w) /\ Within(Steps(c), a, w)
          /\ Len(blocks) = 2 /\ Top(blocks).pc = a + 3 /\ work' = Effect(w[2], disk)
    BY <1>1, <1>2, <1>3 DEF Inside
  <1>5. Len(blocks') = 1 /\ Len(w) = 7
    BY <1>2, <1>4 DEF IsClosing
  <1>6. Steps(c)[a + 3].skip = 4 /\ Steps(c)[a + 3].op = "begin"
    <2>1. 3 \in 1..Len(w)
      BY <1>5
    <2> QED
      BY <2>1, <1>4 DEF Within, IsClosing
  <1>7. CASE thread[t].raising = "integrity"
    <2>1. PICK p \in 1..(Len(Steps(c)) + 1) : p = (a + 3) + 4
      <3>1. PICK b \in 1..Len(Steps(c)) : b = a + 3
        BY <1>4, <1>5, FirstStep, SMTT(40) DEF Within
      <3>2. Steps(c)[b].op = "begin" /\ Steps(c)[b].skip = 4 /\ 4 > 0
        BY <3>1, <1>6
      <3>3. \E j \in 1..Len(Steps(c)) :
              b + Steps(c)[b].skip = j + 1 /\ j + 1 \in 1..(Len(Steps(c)) + 1)
        BY <3>2, CaughtAt
      <3> QED
        BY <3>1, <3>2, <3>3
    <2>2. Continue(t, p)
      BY <2>1, <1>4, <1>6, <1>7 DEF Unwind
    <2>3. /\ p = Len(Steps(c)) + 1 => thread'[t] = Idle
          /\ p # Len(Steps(c)) + 1 => thread'[t] = [call |-> c, pc |-> p, raising |-> "no"]
      BY <2>2, <1>1, <1>4, Continues DEF Shape
    <2>4. thread'[t] # Idle
      BY DEF Shape, Placed, Busy, Idle
    <2>5. p = a + 7
      BY <2>1
    <2>6. thread'[t] = [call |-> c, pc |-> p, raising |-> "no"]
      BY <2>3, <2>4, Zenon
    <2>7. Reached(c, w, 7, 1, disk, work') /\ 7 \in 1..Len(w)
      <3>1. Reached(c, w, 7, 1, disk, Effect(w[2], disk))
        BY <1>4, InnerCaught
      <3>2. 7 \in 1..7
        OBVIOUS
      <3> QED
        BY <3>1, <3>2, <1>4, <1>5
    <2>8. Inside(t, a, w)'
      BY <2>5, <2>6, <2>7, <1>1, <1>4, <1>5 DEF Inside
    <2> QED
      BY <2>8 DEF Progress
  <1>8. CASE thread[t].raising # "integrity"
    <2>1. thread' = thread
      BY <1>4, <1>8 DEF Unwind
    <2>2. Inside(t, a, w)'
      BY <2>1, <1>1, <1>4, <1>5 DEF Inside
    <2> QED
      BY <2>2 DEF Progress
  <1> QED
    BY <1>7, <1>8

---------------------------------------------------------------------------
(* The answer to a query stands until the block that relies on it.         *)

LEMMA OthersAsked ==
  ASSUME Shape, NEW t \in Threads, KeepsAnswers,
         \A u \in Threads : Asked(u), \A u \in Threads \ {t} : thread'[u] = thread[u]
  PROVE  \A u \in Threads \ {t} : Asked(u)'
  <1> SUFFICES ASSUME NEW u \in Threads \ {t}, Busy(u), thread[u].raising = "no",
                      thread[u].pc > 1,
                      NEW q, q = Steps(thread[u].call)[thread[u].pc - 1], q.op \in Queries
               PROVE  Known(q)'
    BY DEF Asked, Busy
  <1>1. PICK c \in Calls \cup BootCalls, i \in Nat :
          c = thread[u].call /\ i = thread[u].pc /\ i \in 1..Len(Steps(c))
    BY CallStep DEF Shape, Placed, Busy, Idle
  <1>2. i - 1 \in 1..Len(Steps(c))
    BY <1>1, CallStep
  <1>3. q \in Instructions
    BY <1>1, <1>2, CallStep
  <1>4. Known(q)
    BY DEF Asked
  <1> QED
    BY <1>3, <1>4 DEF KeepsAnswers

\* t went on to the next step, and if it asked, the answer was yes.
LEMMA AskedNext ==
  ASSUME Shape, NEW t \in Threads, Running(t),
         \/ thread'[t] = Idle
         \/ thread'[t] = [call |-> thread[t].call, pc |-> thread[t].pc + 1, raising |-> "no"],
         NEW q, q = Step(t), q.op \in Queries => Known(q)'
  PROVE  Asked(t)'
  <1>1. CASE thread'[t] = Idle
    BY <1>1 DEF Asked, Busy, Idle
  <1>2. CASE thread'[t] = [call |-> thread[t].call, pc |-> thread[t].pc + 1, raising |-> "no"]
    <2>1. (thread[t].pc + 1) - 1 = thread[t].pc
      BY RunningStep, CallStep
    <2>2. /\ Steps(thread[t].call)[(thread[t].pc + 1) - 1] = q
          /\ thread'[t].call = thread[t].call /\ thread'[t].pc = thread[t].pc + 1
      BY <1>2, <2>1 DEF Step
    <2>3. q.op \in Queries =>
            /\ Answer(q, work')
            /\ blocks' # <<>> => \A k \in 1..Len(saves') : Answer(q, saves'[k])
      BY DEF Known
    <2> QED
      BY <2>2, <2>3 DEF Asked, Known
  <1> QED
    BY <1>1, <1>2

\* t is idle, or raises.
LEMMA NotAsked ==
  ASSUME NEW t \in Threads, thread'[t] = Idle \/ thread'[t].raising # "no"
  PROVE  Asked(t)'
  BY DEF Asked, Busy, Idle

LEMMA ConnectionKept ==
  ASSUME UNCHANGED <<work, saves, blocks>>
  PROVE  KeepsAnswers
  BY DEF KeepsAnswers, Known

LEMMA FewerAnswers ==
  ASSUME blocks # <<>>, NEW n \in Nat, Len(saves) = n + 1, Len(saves') = n,
         \A k \in 1..n : saves'[k] = saves[k],
         work' = work \/ work' = saves[n + 1]
  PROVE  KeepsAnswers
  <1> SUFFICES ASSUME NEW q \in Instructions, Known(q)
               PROVE  Known(q)'
    BY DEF KeepsAnswers
  <1>1. \A k \in 1..(n + 1) : Answer(q, saves[k])
    BY DEF Known
  <1>2. Answer(q, work)
    BY DEF Known
  <1>3. n + 1 \in 1..(n + 1)
    OBVIOUS
  <1>4. Answer(q, work')
    BY <1>1, <1>2, <1>3
  <1>5. \A k \in 1..n : k \in 1..(n + 1)
    OBVIOUS
  <1>6. \A k \in 1..n : Answer(q, saves'[k])
    BY <1>1, <1>5
  <1> QED
    BY <1>4, <1>6 DEF Known

\* A query is outside of blocks.
LEMMA QueryUnlocked ==
  ASSUME Shape, NEW t \in Threads, Query(t)
  PROVE  lock = NoThread /\ blocks = <<>>
  <1>1. Running(t) /\ Step(t).op \in Queries /\ lock \in {NoThread, t}
    BY DEF Query, MayLock
  <1>2. Depth(thread[t].call)[thread[t].pc] = 0
    BY <1>1, RunningStep DEF WellPlaced, Nested, Step
  <1>3. Len(blocks) = 0
    BY <1>1, <1>2, OpenBlocks
  <1>4. blocks = <<>>
    BY <1>3, EmptySeq DEF Shape, TypeOK
  <1> QED
    BY <1>4 DEF Shape, Locking

LEMMA QueryAsked ==
  ASSUME Shape, NEW t \in Threads, Query(t), \A u \in Threads : Asked(u)
  PROVE  \A u \in Threads : Asked(u)'
  <1>1. /\ Running(t) /\ UNCHANGED <<work, saves, blocks>> /\ blocks = <<>>
    BY QueryUnlocked DEF Query, conn
  <1>2. KeepsAnswers
    BY <1>1, ConnectionKept
  <1>3. CASE Answer(Step(t), work)
    <2>1. PICK c \in Calls \cup BootCalls, i \in Nat :
            /\ c = thread[t].call /\ i = thread[t].pc /\ i + 1 \in 1..(Len(Steps(c)) + 1)
      BY <1>1, RunningStep, CallStep
    <2>2. /\ \A u \in Threads \ {t} : thread'[u] = thread[u]
          /\ thread'[t] = Idle \/ thread'[t] = [call |-> c, pc |-> i + 1, raising |-> "no"]
      BY <2>1, <1>3, Continues DEF Query, Shape
    <2>3. PICK q : q = Step(t)
      OBVIOUS
    <2>4. Known(q)'
      BY <2>3, <1>1, <1>3 DEF Known
    <2>5. Asked(t)'
      BY <2>1, <2>2, <2>3, <2>4, <1>1, AskedNext
    <2> QED
      BY <2>2, <2>5, <1>2, OthersAsked
  <1>4. CASE ~Answer(Step(t), work)
    <2>1. thread'[t] = Idle /\ \A u \in Threads \ {t} : thread'[u] = thread[u]
      BY <1>4, Abandons DEF Query
    <2> QED
      BY <2>1, <1>2, NotAsked, OthersAsked
  <1> QED
    BY <1>3, <1>4

LEMMA EnterAsked ==
  ASSUME Shape, Shape', NEW t \in Threads, Enter(t), \A u \in Threads : Asked(u)
  PROVE  \A u \in Threads : Asked(u)'
  <1>1. /\ Running(t) /\ lock' = t /\ Continue(t, thread[t].pc + 1) /\ Step(t).op = "begin"
        /\ saves' = Append(saves, work) /\ work' = work
        /\ blocks = <<>> => saves = <<>>
    BY DEF Enter
  <1>2. /\ Len(saves) \in Nat /\ Len(saves') = Len(saves) + 1
        /\ saves'[Len(saves) + 1] = work
        /\ \A k \in 1..Len(saves) : saves'[k] = saves[k]
    BY <1>1, Growth DEF Shape, TypeOK
  <1>3. KeepsAnswers
    <2> SUFFICES ASSUME NEW q \in Instructions, Known(q)
                 PROVE  Known(q)'
      BY DEF KeepsAnswers
    <2>1. ASSUME NEW k \in 1..Len(saves')
          PROVE  Answer(q, saves'[k])
      <3>1. CASE k = Len(saves) + 1
        BY <3>1, <1>2 DEF Known
      <3>2. CASE k # Len(saves) + 1
        <4>1. k \in 1..Len(saves) /\ saves'[k] = saves[k]
          BY <3>2, <1>2
        <4>2. saves # <<>>
          BY <4>1
        <4> QED
          BY <4>1, <4>2, <1>1 DEF Known
      <3> QED
        BY <3>1, <3>2
    <2> QED
      BY <2>1, <1>1 DEF Known
  <1>4. /\ thread'[t] = [call |-> thread[t].call, pc |-> thread[t].pc + 1, raising |-> "no"]
        /\ \A u \in Threads \ {t} : thread'[u] = thread[u]
    BY <1>1, NextIn
  <1>5. Asked(t)'
    BY <1>1, <1>4, AskedNext DEF Queries
  <1> QED
    BY <1>3, <1>4, <1>5, OthersAsked

LEMMA ExecuteAsked ==
  ASSUME Shape, Shape', NEW t \in Threads, Execute(t), \A u \in Threads : Asked(u)
  PROVE  \A u \in Threads : Asked(u)'
  <1>1. /\ Running(t) /\ lock' = t /\ Step(t) \in Instructions /\ Statement(Step(t))
        /\ work \in Database /\ thread \in [Threads -> Calling]
        /\ UNCHANGED <<saves, blocks>>
    BY InOpenBlock DEF Execute, Shape, TypeOK
  <1>2. \A k \in 1..Len(saves) : saves[k] \in Database
    BY ElementOfSeq, LenProperties DEF Shape, TypeOK
  <1>3. CASE Violates(Step(t), work)
    <2>1. work' = work /\ \E x \in {"integrity", "operational"} : Raise(t, x)
      BY <1>3 DEF Execute
    <2>2. KeepsAnswers
      BY <2>1, <1>1, ConnectionKept
    <2>3. thread'[t].raising # "no" /\ \A u \in Threads \ {t} : thread'[u] = thread[u]
      BY <2>1, <1>1 DEF Raise, Calling
    <2> QED
      BY <2>2, <2>3, NotAsked, OthersAsked
  <1>4. CASE ~Violates(Step(t), work)
    <2>1. work' = Effect(Step(t), work) /\ Continue(t, thread[t].pc + 1)
      BY <1>4 DEF Execute
    <2>2. KeepsAnswers
      <3> SUFFICES ASSUME NEW q \in Instructions, q.op \in Queries, Known(q)
                   PROVE  Known(q)'
        BY DEF KeepsAnswers
      <3>1. Answer(q, work')
        BY <2>1, <1>1, <1>4, AnswerKept DEF Known
      <3> QED
        BY <3>1, <1>1 DEF Known
    <2>3. /\ thread'[t] = [call |-> thread[t].call, pc |-> thread[t].pc + 1, raising |-> "no"]
          /\ \A u \in Threads \ {t} : thread'[u] = thread[u]
      BY <2>1, <1>1, NextIn
    <2>4. Asked(t)'
      BY <2>3, <1>1, AskedNext DEF Statement
    <2> QED
      BY <2>2, <2>3, <2>4, OthersAsked
  <1> QED
    BY <1>3, <1>4

LEMMA LeaveAsked ==
  ASSUME Shape, NEW t \in Threads, Leave(t), \A u \in Threads : Asked(u)
  PROVE  \A u \in Threads : Asked(u)'
  <1>1. PICK c \in Calls \cup BootCalls, i \in Nat :
          /\ c = thread[t].call /\ i = thread[t].pc /\ i + 1 \in 1..(Len(Steps(c)) + 1)
    BY RunningStep, CallStep DEF Leave
  <1>2. /\ Running(t) /\ lock = t /\ LeaveBlock /\ saves' = Pop(saves) /\ work' = work
        /\ Continue(t, i + 1) /\ Step(t).op = "end"
    BY <1>1 DEF Leave
  <1>3. PICK n \in Nat :
          /\ blocks # <<>> /\ Len(saves) = n + 1 /\ Len(saves') = n
          /\ \A k \in 1..n : saves'[k] = saves[k]
    <2>1. /\ Len(blocks) \in Nat \ {0} /\ Len(saves) = Len(blocks) /\ blocks # <<>>
          /\ Len(saves') = Len(blocks) - 1
          /\ \A k \in 1..(Len(blocks) - 1) : saves'[k] = saves[k]
      BY <1>2, LeavesBlock
    <2>2. PICK n \in Nat : Len(blocks) = n + 1 /\ Len(blocks) - 1 = n
      BY <2>1
    <2> QED
      BY <2>1, <2>2
  <1>4. KeepsAnswers
    BY <1>2, <1>3, FewerAnswers
  <1>5. /\ \A u \in Threads \ {t} : thread'[u] = thread[u]
        /\ thread'[t] = Idle \/ thread'[t] = [call |-> c, pc |-> i + 1, raising |-> "no"]
    BY <1>1, <1>2, Continues DEF Shape
  <1>6. Asked(t)'
    BY <1>1, <1>2, <1>5, AskedNext DEF Queries
  <1> QED
    BY <1>4, <1>5, <1>6, OthersAsked

LEMMA UnwindAsked ==
  ASSUME Shape, NEW t \in Threads, Unwind(t), \A u \in Threads : Asked(u)
  PROVE  \A u \in Threads : Asked(u)'
  <1>1. /\ lock = t /\ Busy(t) /\ thread[t].raising # "no"
        /\ thread[t].call \in Calls \cup BootCalls
        /\ LeaveBlock /\ saves' = Pop(saves) /\ work' = Top(saves)
    BY DEF Unwind, Shape, Placed, Busy, Idle
  <1>2. PICK n \in Nat :
          /\ Len(blocks) = n + 1
          /\ blocks # <<>> /\ Len(saves) = n + 1 /\ Len(saves') = n
          /\ \A k \in 1..n : saves'[k] = saves[k]
          /\ work' = saves[n + 1] /\ Top(blocks) = blocks[n + 1]
    <2>1. /\ Len(blocks) \in Nat \ {0} /\ Len(saves) = Len(blocks) /\ blocks # <<>>
          /\ Len(saves') = Len(blocks) - 1
          /\ \A k \in 1..(Len(blocks) - 1) : saves'[k] = saves[k]
          /\ Top(saves) = saves[Len(blocks)] /\ Top(blocks) = blocks[Len(blocks)]
      BY <1>1, LeavesBlock
    <2>2. PICK n \in Nat : Len(blocks) = n + 1 /\ Len(blocks) - 1 = n
      BY <2>1
    <2> QED
      BY <2>1, <2>2, <1>1
  <1>3. KeepsAnswers
    BY <1>2, FewerAnswers
  <1>4. PICK c \in Calls \cup BootCalls, b \in Nat :
          c = thread[t].call /\ b = Top(blocks).pc /\ b \in 1..Len(Steps(c))
            /\ Steps(c)[b].op = "begin"
    <2>1. n + 1 \in 1..(n + 1) /\ Placed(t)
      BY DEF Shape
    <2>2. blocks[n + 1].pc \in 1..Len(Steps(thread[t].call))
            /\ Steps(thread[t].call)[blocks[n + 1].pc].op = "begin"
      BY <2>1, <1>1, <1>2 DEF Placed
    <2> QED
      BY <2>2, <1>1, <1>2, CallStep
  <1>5. Asked(t)' /\ \A u \in Threads \ {t} : thread'[u] = thread[u]
    <2>1. CASE Steps(c)[b].skip > 0 /\ thread[t].raising = "integrity"
      <3>1. PICK k \in 1..Len(Steps(c)) :
              /\ b + Steps(c)[b].skip = k + 1 /\ Steps(c)[k].op = "end"
              /\ k + 1 \in 1..(Len(Steps(c)) + 1)
        BY <2>1, <1>4, CaughtAt
      <3>2. Continue(t, k + 1)
        BY <2>1, <3>1, <1>4 DEF Unwind
      <3>3. /\ \A u \in Threads \ {t} : thread'[u] = thread[u]
            /\ thread'[t] = Idle \/ thread'[t] = [call |-> c, pc |-> k + 1, raising |-> "no"]
        BY <1>4, <3>1, <3>2, Continues DEF Shape
      <3>4. (k + 1) - 1 = k /\ Steps(c)[k].op \notin Queries
        BY <3>1 DEF Queries
      <3>5. CASE thread'[t] = Idle
        BY <3>3, <3>5, NotAsked
      <3>6. CASE thread'[t] = [call |-> c, pc |-> k + 1, raising |-> "no"]
        BY <3>3, <3>4, <3>6 DEF Asked
      <3> QED
        BY <3>3, <3>5, <3>6
    <2>2. CASE ~(Steps(c)[b].skip > 0 /\ thread[t].raising = "integrity") /\ Len(blocks) = 1
      <3>1. Abandon(t)
        BY <2>2, <1>4 DEF Unwind
      <3> QED
        BY <3>1, Abandons, NotAsked
    <2>3. CASE ~(Steps(c)[b].skip > 0 /\ thread[t].raising = "integrity") /\ Len(blocks) # 1
      <3>1. thread' = thread
        BY <2>3, <1>4 DEF Unwind
      <3> QED
        BY <3>1, <1>1, NotAsked
    <2> QED
      BY <2>1, <2>2, <2>3
  <1> QED
    BY <1>3, <1>5, OthersAsked

---------------------------------------------------------------------------
TInv == IInv /\ \A t \in Threads : Progress(t) /\ Asked(t)

\* Nobody has the lock any more, or t has it.
LEMMA OthersProgress ==
  ASSUME NEW t, lock' \in {NoThread, t}
  PROVE  \A u \in Threads \ {t} : Progress(u)'
  BY DEF Progress

LEMMA NoProgress ==
  ASSUME lock' = NoThread
  PROVE  \A u \in Threads : Progress(u)'
  BY DEF Progress

\* A thread begins a call: it has asked nothing yet.
LEMMA CallAsked ==
  ASSUME Shape, NEW t \in Threads, NEW c, Call(t, c), \A u \in Threads : Asked(u),
         UNCHANGED <<work, saves, blocks>>
  PROVE  \A u \in Threads : Asked(u)'
  <1>1. /\ \A u \in Threads \ {t} : thread'[u] = thread[u]
        /\ thread'[t] = [call |-> c, pc |-> 1, raising |-> "no"]
    BY DEF Call, Shape, TypeOK
  <1>2. Asked(t)'
    BY <1>1 DEF Asked
  <1> QED
    BY <1>1, <1>2, ConnectionKept, OthersAsked

LEMMA AllIdleTInv ==
  ASSUME IInv', lock' = NoThread, \A t \in Threads : thread'[t] = Idle
  PROVE  TInv'
  BY NoProgress, NotAsked DEF TInv

LEMMA ThreadTInv ==
  ASSUME TInv, IInv', NEW t \in Threads,
         \/ Query(t) \/ Enter(t) \/ EnterRefused(t) \/ Execute(t) \/ StatementFails(t)
         \/ Leave(t) \/ CommitRefused(t) \/ Unwind(t)
  PROVE  TInv'
  <1>1. Shape /\ Shape' /\ IInv
    BY DEF TInv, IInv
  <1>2. CASE Query(t)
    <2>1. lock' = NoThread
      BY <1>1, <1>2, QueryUnlocked DEF Query, conn
    <2> QED
      BY <2>1, <1>1, <1>2, NoProgress, QueryAsked DEF TInv
  <1>3. CASE Enter(t)
    <2>1. lock' = t
      BY <1>3 DEF Enter
    <2>2. Progress(t)'
      BY <1>1, <1>3, EnterProgress DEF TInv
    <2> QED
      BY <2>1, <2>2, <1>1, <1>3, OthersProgress, EnterAsked DEF TInv
  <1>4. CASE EnterRefused(t)
    <2>1. /\ lock' = NoThread /\ UNCHANGED <<work, saves, blocks>> /\ Abandon(t)
      BY <1>1, <1>4 DEF EnterRefused, Shape, Locking, conn
    <2>2. \A u \in Threads : Asked(u)'
      BY <2>1, <1>1, Abandons, ConnectionKept, NotAsked, OthersAsked DEF TInv
    <2> QED
      BY <2>1, <2>2, NoProgress DEF TInv
  <1>5. CASE Execute(t)
    <2>1. lock' \in {NoThread, t}
      BY <1>5 DEF Execute, InBlock
    <2>2. Progress(t)'
      BY <1>1, <1>5, ExecuteProgress DEF TInv
    <2>3. \A u \in Threads : Asked(u)'
      BY <1>1, <1>5, ExecuteAsked DEF TInv
    <2>4. \A u \in Threads : Progress(u)'
      BY <2>1, <2>2, OthersProgress, SMTT(40)
    <2> QED
      BY <2>3, <2>4 DEF TInv
  <1>6. CASE StatementFails(t)
    <2>1. lock' \in {NoThread, t} /\ UNCHANGED <<work, saves, blocks>> /\ Raise(t, "operational")
      BY <1>6 DEF StatementFails, InBlock, conn
    <2>2. Progress(t)'
      BY <1>1, <1>6, StatementFailsProgress DEF TInv
    <2>3. thread'[t].raising # "no" /\ \A u \in Threads \ {t} : thread'[u] = thread[u]
      BY <2>1, <1>1 DEF Raise, Shape, TypeOK, Calling
    <2>4. \A u \in Threads : Asked(u)'
      BY <2>1, <2>3, <1>1, ConnectionKept, NotAsked, OthersAsked DEF TInv
    <2> QED
      BY <2>1, <2>2, <2>4, OthersProgress DEF TInv
  <1>7. CASE Leave(t)
    <2>1. lock' \in {NoThread, t}
      BY <1>7 DEF Leave, LeaveBlock
    <2>2. Progress(t)'
      BY <1>1, <1>7, LeaveProgress DEF TInv
    <2> QED
      BY <2>1, <2>2, <1>1, <1>7, OthersProgress, LeaveAsked DEF TInv
  <1>8. CASE CommitRefused(t)
    <2>1. /\ lock' = NoThread /\ UNCHANGED <<work, saves>> /\ Abandon(t) /\ blocks' = <<>>
      <3>1. blocks \in Seq([pc : Nat, entry : Database]) /\ blocks # <<>>
        BY <1>1, <1>8 DEF CommitRefused, Shape, TypeOK, Locking
      <3> QED
        BY <3>1, <1>8, Stacks DEF CommitRefused, LeaveBlock
    <2>2. KeepsAnswers
      BY <2>1 DEF KeepsAnswers, Known
    <2>3. \A u \in Threads : Asked(u)'
      BY <2>1, <2>2, <1>1, Abandons, NotAsked, OthersAsked DEF TInv
    <2> QED
      BY <2>1, <2>3, NoProgress DEF TInv
  <1>9. CASE Unwind(t)
    <2>1. lock' \in {NoThread, t}
      BY <1>1, <1>9 DEF Unwind, LeaveBlock, Shape, Placed
    <2>2. Progress(t)'
      BY <1>1, <1>9, UnwindProgress DEF TInv
    <2> QED
      BY <2>1, <2>2, <1>1, <1>9, OthersProgress, UnwindAsked, SMTT(40) DEF TInv
  <1> QED
    BY <1>2, <1>3, <1>4, <1>5, <1>6, <1>7, <1>8, <1>9

LEMMA NextTInv ==
  ASSUME TInv, [Next]_vars
  PROVE  TInv'
  <1>1. IInv' /\ IInv /\ Shape
    BY NextIInv DEF TInv, IInv
  <1>2. ASSUME NEW t \in Threads, NEW c \in Group[clients], Issue(t, c)
        PROVE  TInv'
    <2>1. lock' = NoThread /\ UNCHANGED <<work, saves, blocks>> /\ Call(t, c)
      BY <1>2 DEF Issue, conn
    <2> QED
      BY <2>1, <1>1, CallAsked, NoProgress DEF TInv
  <1>3. CASE Open \/ Quarantine
    <2>1. lock = NoThread /\ \A t \in Threads : thread[t] = Idle
      BY <1>1, <1>3, AllIdle DEF Open, Quarantine, Shape, Booting
    <2>2. lock' = lock /\ thread' = thread
      BY <1>3 DEF Open, Quarantine
    <2> QED
      BY <2>1, <2>2, <1>1, AllIdleTInv
  <1>4. CASE Boot
    <2>1. lock' = NoThread /\ UNCHANGED <<work, saves, blocks>>
      BY <1>1, <1>4, AllIdle DEF Boot, conn
    <2>2. (\E c : Call(Main, c)) \/ thread' = thread
      BY <1>4 DEF Boot
    <2>3. \A u \in Threads : Asked(u)'
      <3>1. CASE \E c : Call(Main, c)
        BY <3>1, <2>1, <1>1, CallAsked DEF TInv
      <3>2. CASE thread' = thread
        BY <3>2, <2>1 DEF TInv, Asked, Known, Busy
      <3> QED
        BY <2>2, <3>1, <3>2
    <2> QED
      BY <2>1, <2>3, <1>1, NoProgress DEF TInv
  <1>5. CASE Crash
    BY <1>1, <1>5, AllIdleTInv DEF Crash
  <1>6. CASE UNCHANGED vars
    <2>1. UNCHANGED <<disk, work, saves, blocks, lock, thread>>
      BY <1>6 DEF vars, file, conn
    <2>2. \A t \in Threads : Progress(t)'
      BY <2>1 DEF TInv, Progress, Inside
    <2>3. \A t \in Threads : Asked(t)'
      BY <2>1 DEF TInv, Asked, Known, Busy
    <2> QED
      BY <2>2, <2>3, <1>1 DEF TInv
  <1> QED
    BY <1>1, <1>2, <1>3, <1>4, <1>5, <1>6, ThreadTInv DEF Next

LEMMA InitTInv ==
  ASSUME Init
  PROVE  TInv
  <1>1. IInv /\ lock = NoThread /\ \A t \in Threads : thread[t] = Idle
    BY InitIInv DEF Init
  <1> QED
    BY <1>1 DEF TInv, Progress, Asked, Busy, Idle

---------------------------------------------------------------------------
(* The boot.                                                               *)

\* Main applies the version after the file's, and the file is at it when the
\* transaction ends.
Migrating ==
  \A t \in Threads : thread[t].call.do = "migrate" =>
    /\ t = Main /\ server \in {"guarded", "fresh"}
    /\ thread[t].call.version = disk.version + 1

Seeding ==
  \A t \in Threads : thread[t].call.do = "seed_badges" =>
    /\ t = Main /\ server = "seeding"
    /\ thread[t].raising = "no" /\ thread[t].pc = 3 => work.seeded

\* What each phase of the boot has done, and that past the guard only a fault
\* raises, or a malformed file.
Phases ==
  /\ server \in {"guarded", "fresh"} => thread[Main].call.do \in {"migrate", "nothing"}
  /\ server = "seeding" => thread[Main].call.do \in {"seed_badges", "nothing"}
  /\ server \in {"guarded", "fresh", "seeding"} /\ blocks = <<>> => saves = <<>>
  /\ server \in {"seeding", "up"} => disk.version = Versions
  /\ server = "up" \/ (server = "seeding" /\ ~Busy(Main)) => disk.seeded
  /\ server = "fresh" => StampSound(disk)
  /\ server \in {"fresh", "seeding"} /\ thread[Main].raising # "no"
       => faults > 0 \/ damage = "malformed"

Booted == StampedAfter(disk) /\ Migrating /\ Seeding /\ Phases

\* A file that has just been created is sound.
FreshIsSound == server = "fresh" => damage = "none"

BInv == TInv /\ Booted /\ FreshIsSound

---------------------------------------------------------------------------
LEMMA Doing ==
  /\ \A c \in Calls : c.do \notin {"migrate", "seed_badges", "nothing"}
  /\ \A c \in BootCalls : c.do \in {"migrate", "seed_badges"}
  /\ Nothing.do = "nothing" /\ Idle.call = Nothing /\ Idle.raising = "no" /\ Idle.pc = 0
  BY DEF Calls, SpoolCalls, PartCalls, RecipeCalls, PlateCalls, RunCalls, BootCalls, Nothing, Idle

LEMMA BootOps ==
  ASSUME NEW c \in BootCalls, NEW i \in 1..Len(Steps(c))
  PROVE  /\ Steps(c)[i].op \in {"begin", "create", "stamp", "seed", "end"}
         /\ Steps(c)[i].op = "begin" => i = 1
         /\ Steps(c)[i].op = "end" => i = Len(Steps(c))
         /\ Steps(c)[1].skip = 0
         /\ c.do = "seed_badges" =>
              Len(Steps(c)) = 3 /\ Steps(c)[i].op \in {"begin", "seed", "end"}
         /\ c.do = "migrate" => Len(Steps(c)) = Statements + 3
  <1>1. CASE c.do = "migrate"
    <2>1. IsMigration(Steps(c), c) /\ Steps(c)[1].skip = 0 /\ Len(Steps(c)) = Statements + 3
      BY <1>1, MigrationWindow DEF WindowOf, IsMigration
    <2>2. CASE i = 1
      <3>1. Steps(c)[i].op = "begin"
        BY <2>1, <2>2 DEF IsMigration
      <3> QED
        BY <1>1, <2>1, <2>2, <3>1
    <2>3. CASE i # 1
      <3>1. i \in 2..(Statements + 3)
        BY <2>1, <2>3
      <3>2. /\ Steps(c)[i].op \in {"create", "stamp", "end"}
            /\ i \in 2..(Statements + 1) => Steps(c)[i].op = "create"
            /\ i = Statements + 2 => Steps(c)[i].op = "stamp"
        BY <2>1, <3>1, MigrationOps
      <3>3. i = Statements + 3 \/ i \in 2..(Statements + 1) \/ i = Statements + 2
        BY <3>1
      <3> QED
        BY <1>1, <2>1, <3>2, <3>3
    <2> QED
      BY <2>2, <2>3
  <1>2. CASE c.do = "seed_badges"
    <2>1. /\ Len(Steps(c)) = 3 /\ Steps(c)[1].skip = 0
          /\ Steps(c)[1].op = "begin" /\ Steps(c)[2].op = "seed" /\ Steps(c)[3].op = "end"
      BY <1>2, SeedSteps
    <2>2. i \in {1, 2, 3}
      BY <2>1
    <2> QED
      BY <1>2, <2>1, <2>2
  <1> QED
    BY <1>1, <1>2, Doing

\* Only Main is in a call before the server is up.
LEMMA BootOnly ==
  ASSUME BInv, NEW t \in Threads, Busy(t), server # "up"
  PROVE  /\ t = Main /\ thread[t].call \in BootCalls
         /\ server \in {"guarded", "fresh", "seeding"}
         /\ server = "seeding" => thread[t].call.do = "seed_badges"
         /\ server # "seeding" => thread[t].call.do = "migrate"
         /\ \A u \in Threads \ {t} : thread[u] = Idle
  <1>1. Shape /\ thread[t] # Idle /\ thread[t].call \in Calls \cup BootCalls
    BY DEF BInv, TInv, IInv, Shape, Placed, Busy, Idle
  <1>2. t = Main /\ server \in {"guarded", "fresh", "seeding"}
          /\ \A u \in Threads \ {t} : thread[u] = Idle
    BY <1>1 DEF Shape, Booting, TypeOK
  <1> QED
    BY <1>1, <1>2, Doing DEF BInv, Booted, Phases

LEMMA QueryUp ==
  ASSUME BInv, NEW t \in Threads, Query(t)
  PROVE  server = "up"
  <1> SUFFICES ASSUME server # "up" PROVE FALSE
    OBVIOUS
  <1>1. Running(t) /\ Busy(t) /\ Shape /\ Step(t).op \in Queries
    BY DEF Query, Running, Busy, BInv, TInv, IInv
  <1>2. thread[t].call \in BootCalls
    BY <1>1, BootOnly
  <1>3. Step(t).op \in {"begin", "create", "stamp", "seed", "end"}
    BY <1>1, <1>2, RunningStep, BootOps DEF Step
  <1> QED
    BY <1>1, <1>3 DEF Queries

\* The boot finds no transaction open.
LEMMA RefusedUp ==
  ASSUME BInv, NEW t \in Threads, EnterRefused(t)
  PROVE  server = "up"
  BY BootOnly DEF EnterRefused, Running, Busy, BInv, Booted, Phases

---------------------------------------------------------------------------
\* No step of a call changes to another one.
LEMMA KeepsCalls ==
  ASSUME Shape, NEW t \in Threads,
         \/ \E p : Continue(t, p)
         \/ Abandon(t) \/ (\E x : Raise(t, x)) \/ thread' = thread
  PROVE  \A u \in Threads : thread'[u].call \in {thread[u].call, Nothing}
  <1>1. thread \in [Threads -> Calling]
    BY DEF Shape, TypeOK
  <1>2. CASE \E p : Continue(t, p)
    BY <1>1, <1>2, Doing DEF Continue
  <1>3. CASE Abandon(t)
    BY <1>1, <1>3, Doing DEF Abandon
  <1>4. CASE \E x : Raise(t, x)
    BY <1>1, <1>4 DEF Raise, Calling
  <1>5. CASE thread' = thread
    BY <1>5
  <1> QED
    BY <1>2, <1>3, <1>4, <1>5

LEMMA StaysUp ==
  ASSUME BInv, server = "up", server' = "up", SameStamp(disk, disk'),
         \A t \in Threads : thread'[t].call \in {thread[t].call, Nothing} \cup Calls
  PROVE  Booted'
  <1>1. /\ StampedAfter(disk) /\ disk.version = Versions /\ disk.seeded
        /\ \A t \in Threads : thread[t].call.do \notin {"migrate", "seed_badges"}
    BY DEF BInv, Booted, Migrating, Seeding, Phases
  <1>2. \A t \in Threads : thread'[t].call.do \notin {"migrate", "seed_badges"}
    BY <1>1, Doing
  <1>3. StampedAfter(disk') /\ disk'.version = Versions /\ disk'.seeded
    BY <1>1 DEF SameStamp, StampedAfter
  <1>4. Migrating' /\ Seeding'
    BY <1>2 DEF Migrating, Seeding
  <1>5. Phases'
    BY <1>3 DEF Phases
  <1> QED
    BY <1>3, <1>4, <1>5 DEF Booted

\* Nobody is in a call.
LEMMA IdleBooted ==
  ASSUME \A t \in Threads : thread'[t] = Idle,
         StampedAfter(disk'),
         server' \in {"guarded", "fresh", "seeding"} /\ blocks' = <<>> => saves' = <<>>,
         server' \in {"seeding", "up"} => disk'.version = Versions /\ disk'.seeded,
         server' = "fresh" => StampSound(disk')
  PROVE  Booted'
  <1>1. \A t \in Threads : thread'[t].call.do = "nothing" /\ thread'[t].raising = "no"
    BY Doing
  <1>2. Migrating' /\ Seeding'
    BY <1>1 DEF Migrating, Seeding
  <1>3. thread'[Main].call.do = "nothing" /\ thread'[Main].raising = "no"
    BY <1>1
  <1>4. Phases'
    BY <1>3 DEF Phases
  <1> QED
    BY <1>2, <1>4 DEF Booted

\* Main goes on in a block of a call of the boot.
LEMMA BootGoesOn ==
  ASSUME BInv, server # "up", Busy(Main), server' = server, disk' = disk,
         \A u \in Threads \ {Main} : thread'[u] = thread[u],
         thread'[Main].call = thread[Main].call,
         blocks' # <<>>,
         server \in {"fresh", "seeding"} /\ thread'[Main].raising # "no"
           => faults' > 0 \/ damage' = "malformed",
         server = "seeding" /\ thread'[Main].raising = "no" /\ thread'[Main].pc = 3
           => work'.seeded
  PROVE  Booted'
  <1>1. Main \in Threads
    OBVIOUS
  <1>2. /\ thread[Main].call \in BootCalls
        /\ server \in {"guarded", "fresh", "seeding"}
        /\ server = "seeding" => thread[Main].call.do = "seed_badges"
        /\ server # "seeding" => thread[Main].call.do = "migrate"
        /\ \A u \in Threads \ {Main} : thread[u] = Idle
    BY <1>1, BootOnly
  <1>3. \A u \in Threads \ {Main} : thread'[u].call.do = "nothing"
    BY <1>2, Doing
  <1>4. StampedAfter(disk) /\ Migrating /\ Phases
    BY DEF BInv, Booted
  <1>5. Migrating'
    BY <1>1, <1>2, <1>3, <1>4 DEF Migrating
  <1>6. Seeding'
    BY <1>1, <1>2, <1>3 DEF Seeding
  <1>7. Phases'
    BY <1>2, <1>4 DEF Phases, Busy
  <1> QED
    BY <1>4, <1>5, <1>6, <1>7 DEF Booted

---------------------------------------------------------------------------
LEMMA EnterBooted ==
  ASSUME BInv, Shape', NEW t \in Threads, Enter(t), server # "up"
  PROVE  Booted'
  <1>1. /\ Shape /\ Running(t) /\ Busy(t) /\ Step(t).op = "begin" /\ lock' = t
        /\ Continue(t, thread[t].pc + 1)
        /\ server' = server /\ disk' = disk
    BY DEF BInv, TInv, IInv, Enter, Running, Busy, file
  <1>2. t = Main /\ thread[t].call \in BootCalls
    BY <1>1, BootOnly
  <1>3. thread[t].pc = 1
    BY <1>1, <1>2, RunningStep, BootOps DEF Step
  <1>4. /\ thread'[t] = [call |-> thread[t].call, pc |-> thread[t].pc + 1, raising |-> "no"]
        /\ \A u \in Threads \ {t} : thread'[u] = thread[u]
    BY <1>1, NextIn
  <1>5. blocks' # <<>>
    BY <1>1 DEF Shape, Locking
  <1> QED
    BY <1>1, <1>2, <1>3, <1>4, <1>5, BootGoesOn

\* A fresh file has no table that is about to be created.
LEMMA FreshCreates ==
  ASSUME BInv, NEW t \in Threads, InBlock(t), server = "fresh"
  PROVE  ~Violates(Step(t), work)
  <1>1. /\ Shape /\ Running(t) /\ Busy(t) /\ lock = t /\ thread[t].raising = "no"
        /\ disk \in Database
    BY DEF BInv, TInv, IInv, InBlock, Running, Busy, Shape, TypeOK
  <1>2. PICK c \in BootCalls : c = thread[t].call /\ c.do = "migrate" /\ c.version = disk.version + 1
    BY <1>1, BootOnly DEF BInv, Booted, Migrating
  <1>3. PICK a \in Nat, w \in Seq(Instructions) : Inside(t, a, w)
    BY <1>1 DEF BInv, TInv, Progress
  <1>4. PICK k \in 1..Len(w) :
          /\ thread[t].pc = a + k /\ Within(Steps(c), a, w)
          /\ Reached(c, w, k, Len(blocks), disk, work)
    BY <1>1, <1>2, <1>3 DEF Inside
  <1>5. Step(t) = w[k]
    BY <1>2, <1>4 DEF Within, Step
  <1>6. AtMigration(c, w, k, Len(blocks), disk, work)
    BY <1>2, <1>4 DEF Reached
  <1>7. IsMigration(w, c) /\ k \in 2..(Statements + 3)
    BY <1>6 DEF AtMigration
  <1>8. CASE k \in 2..(Statements + 1)
    <2>1. PICK v \in 0..Versions : v = disk.version /\ c.version - 1 = v
      BY <1>1, <1>2 DEF Database, Versions
    <2>2. PICK base \in Nat : base = Statements * v
      <3>1. v \in {0, 1, 2, 3}
        BY <2>1 DEF Versions
      <3> QED
        BY <3>1
    <2>3. w[k].op = "create" /\ w[k].table = base + (k - 1)
      <3>1. w[k].op = "create" /\ w[k].table = Statements * (c.version - 1) + (k - 1)
        BY <1>7, <1>8, MigrationOps
      <3> QED
        BY <3>1, <2>1, <2>2
    <2>4. work.tables = base + (k - 2)
      <3>1. CASE k = 2
        <4>1. StampSound(disk)
          BY DEF BInv, Booted, Phases
        <4>2. work = disk /\ disk.tables = base
          BY <4>1, <1>6, <3>1, <2>1, <2>2 DEF AtMigration, StampSound
        <4> QED
          BY <4>2, <3>1
      <3>2. CASE k # 2
        BY <1>1, <1>6, <1>8, <3>2, <2>1, <2>2, SMTT(40) DEF AtMigration, Made, Database
      <3> QED
        BY <3>1, <3>2
    <2>5. ~(work.tables >= base + (k - 1))
      BY <2>4, <1>8
    <2> QED
      BY <1>5, <2>3, <2>5 DEF Violates
  <1>9. CASE k \notin 2..(Statements + 1)
    <2>1. w[k].op \in {"stamp", "end"}
      BY <1>7, <1>9, MigrationOps
    <2> QED
      BY <1>5, <2>1 DEF Violates
  <1> QED
    BY <1>8, <1>9

LEMMA ExecuteBooted ==
  ASSUME BInv, Shape', NEW t \in Threads, Execute(t), server # "up"
  PROVE  Booted'
  <1>1. /\ Shape /\ Running(t) /\ Busy(t) /\ InBlock(t) /\ lock' = t /\ blocks' # <<>>
        /\ thread \in [Threads -> Calling] /\ work \in Database /\ Statement(Step(t))
        /\ server' = server /\ disk' = disk
    BY InOpenBlock DEF BInv, TInv, IInv, Execute, InBlock, Running, Busy, file, Shape, TypeOK
  <1>2. /\ t = Main /\ thread[t].call \in BootCalls
        /\ server \in {"guarded", "fresh", "seeding"}
        /\ server = "seeding" => thread[t].call.do = "seed_badges"
    BY <1>1, BootOnly
  <1>3. server = "seeding" => Step(t).op = "seed"
    BY <1>1, <1>2, RunningStep, BootOps DEF Step, Statement
  <1>4. CASE Violates(Step(t), work)
    <2>1. server = "guarded"
      BY <1>1, <1>2, <1>3, <1>4, FreshCreates DEF Violates
    <2>2. \E x \in {"integrity", "operational"} : Raise(t, x)
      BY <1>4 DEF Execute
    <2>3. /\ thread'[t].call = thread[t].call
          /\ \A u \in Threads \ {t} : thread'[u] = thread[u]
      BY <2>2, <1>1 DEF Raise, Calling
    <2> QED
      BY <2>1, <2>3, <1>1, <1>2, BootGoesOn
  <1>5. CASE ~Violates(Step(t), work)
    <2>1. work' = Effect(Step(t), work) /\ Continue(t, thread[t].pc + 1)
      BY <1>5 DEF Execute
    <2>2. /\ thread'[t] = [call |-> thread[t].call, pc |-> thread[t].pc + 1, raising |-> "no"]
          /\ \A u \in Threads \ {t} : thread'[u] = thread[u]
      BY <2>1, <1>1, NextIn
    <2>3. server = "seeding" => work'.seeded
      BY <2>1, <1>1, <1>3, ZenonT(60) DEF Effect, Database
    <2> QED
      BY <2>2, <2>3, <1>1, <1>2, BootGoesOn
  <1> QED
    BY <1>4, <1>5

LEMMA StatementFailsBooted ==
  ASSUME BInv, Shape', NEW t \in Threads, StatementFails(t), server # "up"
  PROVE  Booted'
  <1>1. /\ Shape /\ Running(t) /\ Busy(t) /\ InBlock(t) /\ blocks' # <<>>
        /\ thread \in [Threads -> Calling] /\ Raise(t, "operational")
        /\ faults' > 0 \/ damage' = "malformed"
        /\ server' = server /\ disk' = disk
    BY InOpenBlock
       DEF BInv, TInv, IInv, StatementFails, InBlock, Running, Busy, file, conn, Shape, TypeOK
  <1>2. /\ thread'[t].call = thread[t].call /\ thread'[t].raising # "no"
        /\ \A u \in Threads \ {t} : thread'[u] = thread[u]
    BY <1>1 DEF Raise, Calling
  <1>3. t = Main
    BY <1>1, BootOnly
  <1> QED
    BY <1>1, <1>2, <1>3, BootGoesOn

---------------------------------------------------------------------------
(* What a COMMIT makes of the file.                                        *)

LEMMA Commits ==
  ASSUME BInv, NEW t \in Threads, Leave(t), Len(blocks) = 1
  PROVE  LET c == thread[t].call
         IN /\ disk' = work
            /\ c.do # "migrate" => \E w \in Seq(Instructions) : Ended(w, disk, work)
            /\ c.do = "migrate" =>
                 /\ c \in BootCalls /\ c.version = disk.version + 1
                 /\ disk.tables <= Statements * (c.version - 1)
                 /\ work = [Made(c, Statements, disk) EXCEPT !.version = c.version]
  <1>1. /\ Shape /\ Running(t) /\ Busy(t) /\ lock = t /\ thread[t].raising = "no"
        /\ Step(t).op = "end" /\ disk' = work
    BY DEF BInv, TInv, IInv, Leave, Running, Busy
  <1>2. PICK c \in Calls \cup BootCalls : c = thread[t].call
    BY <1>1, RunningStep
  <1>3. PICK a \in Nat, w \in Seq(Instructions) : Inside(t, a, w)
    BY <1>1 DEF BInv, TInv, Progress
  <1>4. PICK k \in 1..Len(w) :
          /\ thread[t].pc = a + k /\ Within(Steps(c), a, w)
          /\ Reached(c, w, k, 1, disk, work)
    BY <1>1, <1>2, <1>3 DEF Inside
  <1>5. w[k].op = "end"
    BY <1>1, <1>2, <1>4 DEF Within, Step
  <1>6. CASE c.do # "migrate"
    <2>1. Ended(w, disk, work)
      BY <1>4, <1>5, <1>6, WindowEnds
    <2> QED
      BY <2>1, <1>1, <1>2, <1>6
  <1>7. CASE c.do = "migrate"
    <2>1. /\ disk.tables <= Statements * (c.version - 1)
          /\ work = [Made(c, Statements, disk) EXCEPT !.version = c.version]
      BY <1>4, <1>5, <1>7, MigrationEnds
    <2>2. c \in BootCalls
      BY <1>7, Doing
    <2>3. c.version = disk.version + 1
      BY <1>2, <1>7 DEF BInv, Booted, Migrating
    <2> QED
      BY <2>1, <2>2, <2>3, <1>1, <1>2, <1>7
  <1> QED
    BY <1>6, <1>7

\* The columns that only the boot writes, and the version after a migration.
LEMMA CommitStamps ==
  ASSUME BInv, NEW t \in Threads, Leave(t)
  PROVE  /\ thread[t].call.do # "migrate" => SameStamp(disk, disk')
         /\ thread[t].call.do = "migrate" /\ Len(blocks) = 1 =>
              /\ StampSound(disk) /\ disk.version < Versions
              /\ disk' = [disk EXCEPT !.tables = @ + Statements, !.version = @ + 1]
              /\ StampSound(disk') /\ StampedAfter(disk')
  <1>1. disk \in Database /\ StampedAfter(disk)
    BY DEF BInv, TInv, IInv, Shape, TypeOK, Booted
  <1>2. CASE Len(blocks) # 1
    BY <1>2 DEF Leave, SameStamp
  <1>3. CASE Len(blocks) = 1 /\ thread[t].call.do # "migrate"
    <2>1. PICK w \in Seq(Instructions) : Ended(w, disk, work) /\ disk' = work
      BY <1>3, Commits
    <2> QED
      BY <2>1, <1>1, <1>3, EndedStamp
  <1>4. CASE Len(blocks) = 1 /\ thread[t].call.do = "migrate"
    <2>1. PICK c \in BootCalls :
            /\ c = thread[t].call /\ c.do = "migrate" /\ c.version = disk.version + 1
            /\ disk.tables <= Statements * (c.version - 1)
            /\ disk' = [Made(c, Statements, disk) EXCEPT !.version = c.version]
      BY <1>4, Commits
    <2>2. PICK wk : wk = disk'
      OBVIOUS
    <2>3. /\ StampSound(disk) /\ disk.version < Versions
          /\ wk = [disk EXCEPT !.tables = @ + Statements, !.version = @ + 1]
          /\ StampSound(wk) /\ StampedAfter(wk)
      BY <2>1, <2>2, <1>1, MigrationStamp, ZenonT(60)
    <2> QED
      BY <2>2, <2>3, <1>4
  <1> QED
    BY <1>2, <1>3, <1>4

LEMMA LeaveBooted ==
  ASSUME BInv, Shape', NEW t \in Threads, Leave(t)
  PROVE  Booted'
  <1>1. /\ Shape /\ Running(t) /\ Busy(t) /\ lock = t /\ thread[t].raising = "no"
        /\ Step(t).op = "end" /\ server' = server /\ LeaveBlock /\ saves' = Pop(saves)
        /\ Continue(t, thread[t].pc + 1)
    BY DEF BInv, TInv, IInv, Leave, Running, Busy
  <1>2. CASE server = "up"
    <2>1. thread[t].call.do # "migrate"
      BY <1>2 DEF BInv, Booted, Migrating
    <2>2. \A u \in Threads : thread'[u].call \in {thread[u].call, Nothing}
      BY <1>1, KeepsCalls
    <2>3. SameStamp(disk, disk')
      BY <2>1, CommitStamps
    <2> QED
      BY <2>2, <2>3, <1>1, <1>2, StaysUp
  <1>3. CASE server # "up"
    <2>1. PICK c \in BootCalls :
            /\ c = thread[t].call /\ t = Main
            /\ server \in {"guarded", "fresh", "seeding"}
            /\ server = "seeding" => c.do = "seed_badges"
            /\ server # "seeding" => c.do = "migrate"
            /\ \A u \in Threads \ {t} : thread[u] = Idle
      BY <1>1, <1>3, BootOnly
    <2>2. PICK i \in Nat : i = thread[t].pc /\ i \in 1..Len(Steps(c)) /\ i = Len(Steps(c))
                             /\ i + 1 \in 1..(Len(Steps(c)) + 1)
      BY <2>1, <1>1, RunningStep, CallStep, BootOps DEF Step
    <2>3. thread'[t] = Idle /\ \A u \in Threads \ {t} : thread'[u] = thread[u]
      BY <2>1, <2>2, <1>1, Continues DEF Shape
    <2>4. lock' # t
      BY <2>3 DEF Shape, Placed, Busy, Idle
    <2>5. Len(blocks) = 1 /\ saves' = <<>>
      <3>1. PICK n \in Nat : /\ n = Len(blocks)
                             /\ lock' = t <=> n # 1
                             /\ Len(saves') = n - 1
                             /\ saves' \in Seq(Database)
        BY <1>1, LeavesBlock
      <3>2. n = 1 /\ Len(saves') = 0
        BY <3>1, <2>4
      <3> QED
        BY <3>1, <3>2, EmptySeq
    <2>6. disk' = work
      BY <2>5 DEF Leave
    <2>7. CASE server = "seeding"
      <3>1. Len(Steps(c)) = 3
        BY <2>1, <2>2, <2>7, BootOps
      <3>2. disk'.seeded
        BY <3>1, <2>1, <2>2, <2>6, <2>7, <1>1 DEF BInv, Booted, Seeding
      <3>3. SameStamp(disk, disk') /\ StampedAfter(disk) /\ disk.version = Versions
        BY <2>1, <2>7, CommitStamps DEF BInv, Booted, Phases
      <3>4. StampedAfter(disk') /\ disk'.version = Versions
        BY <3>3 DEF SameStamp, StampedAfter
      <3> QED
        BY <3>2, <3>4, <2>1, <2>3, <2>5, <2>7, <1>1, IdleBooted
    <2>8. CASE server # "seeding"
      <3>1. StampSound(disk') /\ StampedAfter(disk')
        BY <2>1, <2>5, <2>8, CommitStamps
      <3> QED
        BY <3>1, <2>1, <2>3, <2>5, <2>8, <1>1, IdleBooted
    <2> QED
      BY <2>7, <2>8
  <1> QED
    BY <1>2, <1>3

\* A call of the boot that raises is over.
LEMMA UnwindBoots ==
  ASSUME BInv, NEW t \in Threads, Unwind(t), server # "up"
  PROVE  t = Main /\ Abandon(t)
  <1>1. /\ Shape /\ Placed(t) /\ lock = t /\ Busy(t) /\ blocks # <<>>
    BY DEF BInv, TInv, IInv, Unwind, Shape, Placed, Locking
  <1>2. PICK c \in BootCalls : c = thread[t].call /\ t = Main
    BY <1>1, BootOnly
  <1>3. PICK n \in Nat : n = Len(blocks) /\ n > 0
    <2>1. Len(blocks) \in Nat \ {0}
      BY <1>1, Stacks DEF Shape, TypeOK
    <2> QED
      BY <2>1
  <1>4. /\ blocks[n].pc \in 1..Len(Steps(c)) /\ Steps(c)[blocks[n].pc].op = "begin"
        /\ Depth(c)[blocks[n].pc] = n - 1
    <2>1. n \in 1..Len(blocks)
      BY <1>3
    <2> QED
      BY <2>1, <1>1, <1>2 DEF Placed
  <1>5. blocks[n].pc = 1 /\ Steps(c)[1].skip = 0
    BY <1>4, BootOps
  <1>6. n = 1
    BY <1>3, <1>4, <1>5, FirstStep
  <1> QED
    BY <1>2, <1>3, <1>5, <1>6 DEF Unwind, Top

---------------------------------------------------------------------------
\* The boot gives up on its call, which leaves the file alone.
LEMMA AbandonBooted ==
  ASSUME BInv, NEW t \in Threads, Busy(t), server # "up", Abandon(t), disk' = disk
  PROVE  Booted'
  <1>1. Shape /\ t = Main /\ \A u \in Threads \ {t} : thread[u] = Idle
    BY BootOnly DEF BInv, TInv, IInv
  <1>2. thread'[t] = Idle /\ \A u \in Threads \ {t} : thread'[u] = thread[u]
    BY <1>1, Abandons
  <1>3. server' \in {"unusable", "down"}
    BY <1>1 DEF Abandon
  <1>4. StampedAfter(disk')
    BY DEF BInv, Booted
  <1> QED
    BY <1>1, <1>2, <1>3, <1>4, IdleBooted

\* A call goes on, or is over, while the server is up, and the file is left alone.
LEMMA UpBooted ==
  ASSUME BInv, server = "up", server' = "up", disk' = disk, NEW t \in Threads,
         \/ \E p : Continue(t, p)
         \/ Abandon(t) \/ (\E x : Raise(t, x)) \/ thread' = thread
  PROVE  Booted'
  <1>1. SameStamp(disk, disk')
    BY DEF SameStamp
  <1>2. \A u \in Threads : thread'[u].call \in {thread[u].call, Nothing}
    BY KeepsCalls DEF BInv, TInv, IInv
  <1> QED
    BY <1>1, <1>2, StaysUp

LEMMA ThreadBooted ==
  ASSUME BInv, Shape', NEW t \in Threads,
         \/ Query(t) \/ Enter(t) \/ EnterRefused(t) \/ Execute(t) \/ StatementFails(t)
         \/ Leave(t) \/ CommitRefused(t) \/ Unwind(t)
  PROVE  Booted'
  <1>1. CASE Query(t)
    <2>1. server = "up" /\ disk' = disk
      BY <1>1, QueryUp DEF Query, file
    <2>2. (\E p : Continue(t, p)) \/ Abandon(t)
      BY <1>1 DEF Query
    <2>3. server' = "up"
      BY <1>1, <2>1 DEF Query, Abandon
    <2> QED
      BY <2>1, <2>2, <2>3, UpBooted
  <1>2. CASE Enter(t)
    <2>1. server' = server /\ disk' = disk /\ \E p : Continue(t, p)
      BY <1>2 DEF Enter, file
    <2> QED
      BY <2>1, <1>2, UpBooted, EnterBooted
  <1>3. CASE EnterRefused(t)
    <2>1. server = "up" /\ disk' = disk /\ Abandon(t)
      BY <1>3, RefusedUp DEF EnterRefused, file
    <2>2. server' = "up"
      BY <2>1 DEF Abandon
    <2> QED
      BY <2>1, <2>2, UpBooted
  <1>4. CASE Execute(t)
    <2>1. server' = server /\ disk' = disk
      BY <1>4 DEF Execute, file
    <2>2. (\E p : Continue(t, p)) \/ (\E x : Raise(t, x))
      BY <1>4 DEF Execute
    <2> QED
      BY <2>1, <2>2, <1>4, UpBooted, ExecuteBooted
  <1>5. CASE StatementFails(t)
    <2>1. server' = server /\ disk' = disk /\ \E x : Raise(t, x)
      BY <1>5 DEF StatementFails, file
    <2> QED
      BY <2>1, <1>5, UpBooted, StatementFailsBooted
  <1>6. CASE Leave(t)
    BY <1>6, LeaveBooted
  <1>7. CASE CommitRefused(t)
    <2>1. disk' = disk /\ Abandon(t) /\ Busy(t)
      BY <1>7 DEF CommitRefused, file, Running, Busy
    <2>2. server = "up" => server' = "up"
      BY <2>1 DEF Abandon
    <2> QED
      BY <2>1, <2>2, UpBooted, AbandonBooted
  <1>8. CASE Unwind(t)
    <2>1. disk' = disk /\ Busy(t)
      BY <1>8 DEF Unwind, file, BInv, TInv, IInv, Shape, Placed, Busy, Idle
    <2>2. CASE server = "up"
      <3>1. server' = "up"
        BY <1>8, <2>2 DEF Unwind, Abandon
      <3>2. (\E p : Continue(t, p)) \/ Abandon(t) \/ thread' = thread
        BY <1>8 DEF Unwind
      <3> QED
        BY <3>1, <3>2, <2>1, <2>2, UpBooted
    <2>3. CASE server # "up"
      BY <2>1, <2>3, <1>8, UnwindBoots, AbandonBooted
    <2> QED
      BY <2>2, <2>3
  <1> QED
    BY <1>1, <1>2, <1>3, <1>4, <1>5, <1>6, <1>7, <1>8

---------------------------------------------------------------------------
LEMMA EmptyStamp == StampSound(Empty) /\ StampedAfter(Empty)
  <1>1. Empty.tables = 0 /\ Empty.version = 0
    BY DEF Empty
  <1>2. Statements * 0 = 0 /\ 0 <= Statements * 3
    OBVIOUS
  <1> QED
    BY <1>1, <1>2 DEF StampSound, StampedAfter, Versions

\* The abstract ledger has the same data.
LEMMA SameData == Atomic!Database = Database /\ Atomic!Empty = Empty
  BY DEF Database, Atomic!Database, Empty, Atomic!Empty, Versions, Atomic!Versions,
         SPOOL_FREE_STATUSES, Atomic!SPOOL_FREE_STATUSES, END_STATES, Atomic!END_STATES,
         PIECE_STATUSES, Atomic!PIECE_STATUSES, SpoolRow, Atomic!SpoolRow,
         PartRow, Atomic!PartRow, RecipeRow, Atomic!RecipeRow

LEMMA IssueBooted ==
  ASSUME BInv, NEW t \in Threads, NEW c \in Group[clients], Issue(t, c)
  PROVE  Booted'
  <1>1. /\ Shape /\ c \in Calls /\ thread \in [Threads -> Calling]
        /\ server = "up" /\ server' = "up" /\ disk' = disk /\ Call(t, c)
    BY GroupsAreCalls DEF BInv, TInv, IInv, Shape, TypeOK, Issue, file
  <1>2. \A u \in Threads : thread'[u].call \in {thread[u].call} \cup Calls
    BY <1>1 DEF Call
  <1>3. SameStamp(disk, disk')
    BY <1>1 DEF SameStamp
  <1> QED
    BY <1>1, <1>2, <1>3, StaysUp

\* Nothing has opened the connection yet, or the file is given up, or the process dies.
LEMMA RestartBooted ==
  ASSUME BInv, Open \/ Quarantine \/ Crash
  PROVE  Booted'
  <1>1. Shape /\ StampedAfter(disk)
    BY DEF BInv, TInv, IInv, Booted
  <1>2. CASE Open
    <2>1. /\ server = "down" /\ server' \in {"unusable", "guarded"}
          /\ thread' = thread /\ disk' = disk /\ saves' = <<>>
      BY <1>2 DEF Open, file
    <2>2. \A t \in Threads : thread'[t] = Idle
      BY <2>1, <1>1, AllIdle DEF Shape, Booting
    <2>3. StampedAfter(disk')
      BY <1>1, <2>1
    <2> QED
      BY <2>1, <2>2, <2>3, IdleBooted
  <1>3. CASE Quarantine
    <2>1. /\ server = "unusable" /\ server' = "fresh"
          /\ thread' = thread /\ disk' = Empty /\ saves' = <<>>
      BY <1>3 DEF Quarantine
    <2>2. \A t \in Threads : thread'[t] = Idle
      BY <2>1, <1>1, AllIdle DEF Shape, Booting
    <2>3. StampSound(disk') /\ StampedAfter(disk')
      BY <2>1, EmptyStamp
    <2> QED
      BY <2>1, <2>2, <2>3, IdleBooted
  <1>4. CASE Crash
    <2>1. /\ server' = "down" /\ disk' = disk /\ saves' = <<>>
          /\ \A t \in Threads : thread'[t] = Idle
      BY <1>4 DEF Crash, file
    <2>2. StampedAfter(disk')
      BY <1>1, <2>1
    <2> QED
      BY <2>1, <2>2, IdleBooted
  <1> QED
    BY <1>2, <1>3, <1>4

LEMMA BootBooted ==
  ASSUME BInv, Boot
  PROVE  Booted'
  <1>1. /\ Shape /\ StampedAfter(disk) /\ Phases
        /\ thread[Main] = Idle /\ UNCHANGED <<disk, work, saves, blocks, lock, faults>>
        /\ server \in {"guarded", "fresh", "seeding"}
    BY DEF BInv, TInv, IInv, Booted, Boot, file, conn, bounds
  <1>2. blocks = <<>> /\ saves = <<>> /\ \A t \in Threads : thread[t] = Idle
    BY <1>1, AllIdle DEF Phases
  <1>3. work = disk
    BY <1>1, <1>2 DEF Shape, Saved
  <1>4. StampedAfter(disk')
    BY <1>1
  <1>5. thread \in [Threads -> Calling]
    BY <1>1 DEF Shape, TypeOK
  <1>6. CASE server \in {"guarded", "fresh"} /\ work.version < Versions
    <2>1. /\ server' = server
          /\ Call(Main, [do |-> "migrate", version |-> work.version + 1])
      BY <1>6 DEF Boot, Versions
    <2>2. PICK c : /\ c = [do |-> "migrate", version |-> disk'.version + 1]
                   /\ thread'[Main] = [call |-> c, pc |-> 1, raising |-> "no"]
      BY <2>1, <1>1, <1>3, <1>5 DEF Call
    <2>3. \A t \in Threads \ {Main} : thread'[t].call.do = "nothing"
      BY <2>1, <1>2, <1>5, Doing DEF Call
    <2>4. c.do = "migrate" /\ c.version = disk'.version + 1
      BY <2>2
    <2>5. Migrating' /\ Seeding'
      BY <2>1, <2>2, <2>3, <2>4, <1>6 DEF Migrating, Seeding
    <2>6. Phases'
      BY <2>1, <2>2, <2>4, <1>1, <1>2, <1>6 DEF Phases
    <2> QED
      BY <1>4, <2>5, <2>6 DEF Booted
  <1>7. CASE server \in {"guarded", "fresh"} /\ work.version = Versions
    <2>1. server' = "seeding" /\ Call(Main, [do |-> "seed_badges"])
      BY <1>7 DEF Boot, Versions
    <2>2. PICK c : /\ c = [do |-> "seed_badges"]
                   /\ thread'[Main] = [call |-> c, pc |-> 1, raising |-> "no"]
      BY <2>1, <1>5 DEF Call
    <2>3. \A t \in Threads \ {Main} : thread'[t].call.do = "nothing"
      BY <2>1, <1>2, <1>5, Doing DEF Call
    <2>4. c.do = "seed_badges" /\ c # Nothing
      BY <2>2, Doing
    <2>5. Migrating' /\ Seeding'
      BY <2>1, <2>2, <2>3, <2>4 DEF Migrating, Seeding
    <2>6. Phases'
      BY <2>1, <2>2, <2>4, <1>1, <1>2, <1>3, <1>7 DEF Phases, Busy
    <2> QED
      BY <1>4, <2>5, <2>6 DEF Booted
  <1>8. CASE server = "seeding"
    <2>1. server' = "up" /\ thread' = thread
      BY <1>8 DEF Boot
    <2>2. disk.version = Versions /\ disk.seeded
      BY <1>1, <1>8 DEF Phases, Busy, Idle
    <2> QED
      BY <2>1, <2>2, <1>1, <1>2, <1>4, IdleBooted
  <1> QED
    BY <1>6, <1>7, <1>8 DEF Boot

LEMMA NextFresh ==
  ASSUME BInv, [Next]_vars
  PROVE  FreshIsSound'
  <1>1. CASE Quarantine
    BY <1>1 DEF Quarantine, FreshIsSound
  <1>2. CASE ~Quarantine
    <2>1. UNCHANGED damage
      BY <1>2 DEF Next, Issue, Query, Enter, EnterRefused, Execute, StatementFails, Leave,
                  CommitRefused, Unwind, Open, Boot, Crash, vars, file
    <2>2. server' = "fresh" => server = "fresh"
      BY <1>2 DEF Next, Issue, Query, Enter, EnterRefused, Execute, StatementFails, Leave,
                  CommitRefused, Unwind, Open, Boot, Crash, Abandon, vars
    <2> QED
      BY <2>1, <2>2 DEF BInv, FreshIsSound
  <1> QED
    BY <1>1, <1>2

LEMMA NextBInv ==
  ASSUME BInv, [Next]_vars
  PROVE  BInv'
  <1>0. FreshIsSound'
    BY NextFresh
  <1>1. TInv' /\ Shape'
    BY NextTInv DEF BInv, TInv, IInv
  <1>2. CASE UNCHANGED vars
    <2>1. UNCHANGED <<disk, damage, work, saves, blocks, thread, server, faults>>
      BY <1>2 DEF vars, file, conn, bounds
    <2>2. Booted'
      BY <2>1 DEF BInv, Booted, Migrating, Seeding, Phases, Busy
    <2> QED
      BY <1>0, <1>1, <2>2 DEF BInv
  <1>3. CASE Next
    BY <1>0, <1>1, <1>3, IssueBooted, ThreadBooted, RestartBooted, BootBooted DEF Next, BInv
  <1> QED
    BY <1>2, <1>3

LEMMA InitBInv ==
  ASSUME Init
  PROVE  BInv
  <1>1. /\ server = "down" /\ StampedAfter(disk)
        /\ \A t \in Threads : thread[t] = Idle
    BY StampAssumption DEF Init
  <1>2. Migrating /\ Seeding
    BY <1>1, Doing DEF Migrating, Seeding
  <1>3. Phases
    BY <1>1 DEF Phases
  <1> QED
    BY <1>1, <1>2, <1>3, InitTInv DEF BInv, Booted, FreshIsSound

LEMMA BootInductive == Spec => []BInv
  <1>1. Init => BInv
    BY InitBInv
  <1>2. BInv /\ [Next]_vars => BInv'
    BY NextBInv
  <1> QED
    BY <1>1, <1>2, PTL DEF Spec

---------------------------------------------------------------------------
\* main.py's lifespan starts the API after the ledger: whatever version of the file
\* it finds, whatever fails and wherever it dies, requests reach a file that has
\* every table of the newest version, the stamp that says so, and the badges.
THEOREM Serves == Spec => []ServesMigrated
  <1>1. BInv => ServesMigrated
    <2> SUFFICES ASSUME BInv, server = "up"
                 PROVE  disk.version = Versions /\ StampSound(disk) /\ disk.seeded
      BY DEF ServesMigrated
    <2>1. disk.version = Versions /\ disk.seeded /\ StampedAfter(disk) /\ disk \in Database
      BY DEF BInv, TInv, IInv, Shape, TypeOK, Booted, Phases
    <2>2. Statements * 3 \in Nat
      OBVIOUS
    <2> QED
      BY <2>1, <2>2 DEF StampSound, StampedAfter, Database, Versions
  <1> QED
    BY <1>1, BootInductive, PTL

\* _open_or_quarantine(): a server that goes down during its boot met a fault of
\* the disk or died, or was seeding the badges of a malformed file that opens.  What
\* the migration raises sets the file aside, whatever the file holds, and a new one
\* has nothing a migration runs into.
THEOREM Boots == Spec => OnlyMalformedStopsBoot
  <1>1. ASSUME BInv, [Next]_vars
        PROVE  [server # "down" /\ server' = "down" =>
                  faults' > 0 \/ (server = "seeding" /\ damage = "malformed")]_vars
    <2> SUFFICES ASSUME Next, server # "down", server' = "down"
                 PROVE  faults' > 0 \/ (server = "seeding" /\ damage = "malformed")
      BY <1>1
    <2>1. faults \in Nat
      BY <1>1 DEF BInv, TInv, IInv, Shape, TypeOK
    <2>2. ASSUME NEW t \in Threads, Abandon(t)
          PROVE  server # "up" /\ server # "guarded"
      BY <2>2 DEF Abandon
    <2>3. ASSUME NEW t \in Threads, Query(t) \/ EnterRefused(t)
          PROVE  FALSE
      <3>1. server = "up"
        BY <1>1, <2>3, QueryUp, RefusedUp
      <3> QED
        BY <3>1, <2>2, <2>3 DEF Query, EnterRefused
    <2>4. ASSUME NEW t \in Threads,
                 \/ \E c \in Group[clients] : Issue(t, c)
                 \/ Enter(t) \/ Execute(t) \/ StatementFails(t) \/ Leave(t)
          PROVE  FALSE
      BY <2>4 DEF Issue, Enter, Execute, StatementFails, Leave
    <2>5. ASSUME NEW t \in Threads, CommitRefused(t)
          PROVE  faults' > 0
      BY <2>1, <2>5 DEF CommitRefused
    <2>6. ASSUME NEW t \in Threads, Unwind(t)
          PROVE  faults' > 0 \/ (server = "seeding" /\ damage = "malformed")
      <3>1. server # "up"
        BY <2>6 DEF Unwind, Abandon
      <3>2. t = Main /\ Abandon(t) /\ faults' = faults
        BY <1>1, <2>6, <3>1, UnwindBoots DEF Unwind, bounds
      <3>3. server # "guarded" /\ thread[Main].raising # "no" /\ Busy(Main)
        BY <3>2, <2>2, <2>6, <1>1
           DEF Unwind, BInv, TInv, IInv, Shape, Placed, Busy, Idle
      <3>4. server \in {"fresh", "seeding"}
        BY <1>1, <3>1, <3>3, BootOnly
      <3> QED
        BY <1>1, <3>2, <3>3, <3>4 DEF BInv, Booted, Phases, FreshIsSound
    <2>7. ~Open /\ ~Quarantine /\ ~Boot
      BY DEF Open, Quarantine, Boot
    <2>8. Crash => faults' > 0
      BY <2>1 DEF Crash
    <2> QED
      BY <2>3, <2>4, <2>5, <2>6, <2>7, <2>8 DEF Next
  <1> QED
    BY <1>1, BootInductive, PTL DEF Spec, OnlyMalformedStopsBoot

\* ledger.py implements AtomicLedger: with threads that share one connection, nested
\* blocks, requests that end halfway and a process that dies, the file still changes
\* by one whole method or one whole schema version, and a file that is given up is
\* kept as it was.
THEOREM Refines == Spec => IsAtomic
  <1>1. Init => Atomic!Init
    <2>1. Init => disk \in Database /\ aside = {}
      BY LedgerAssumption DEF Init
    <2> QED
      BY <2>1, SameData DEF Atomic!Init
  <1>2. ASSUME BInv, [Next]_vars
        PROVE  [Atomic!Next]_<<disk, aside>>
    <2>1. disk \in Database
      BY <1>2 DEF BInv, TInv, IInv, Shape, TypeOK
    <2>2. ASSUME NEW t \in Threads, Leave(t)
          PROVE  [Atomic!Next]_<<disk, aside>>
      <3>1. aside' = aside
        BY <2>2 DEF Leave
      <3>2. CASE Len(blocks) # 1
        BY <2>2, <3>1, <3>2 DEF Leave
      <3>3. CASE Len(blocks) = 1 /\ thread[t].call.do # "migrate"
        <4>1. PICK w \in Seq(Instructions) : Ended(w, disk, work) /\ disk' = work
          BY <1>2, <2>2, <3>3, Commits
        <4>2. Ended(w, disk, disk')
          BY <4>1
        <4>3. Change
          BY <4>2, <2>1, EndedChange
        <4> QED
          BY <4>3, <3>1 DEF Change, Atomic!Next
      <3>4. CASE Len(blocks) = 1 /\ thread[t].call.do = "migrate"
        <4>1. Change
          BY <1>2, <2>2, <3>4, CommitStamps, MigrationChange
        <4> QED
          BY <4>1, <3>1 DEF Change, Atomic!Next
      <3> QED
        BY <3>2, <3>3, <3>4
    <2>3. ASSUME NEW t \in Threads,
                 \/ \E c \in Group[clients] : Issue(t, c)
                 \/ Query(t) \/ Enter(t) \/ EnterRefused(t) \/ Execute(t) \/ StatementFails(t)
                 \/ CommitRefused(t) \/ Unwind(t)
          PROVE  UNCHANGED <<disk, aside>>
      BY <2>3 DEF Issue, Query, Enter, EnterRefused, Execute, StatementFails, CommitRefused,
                  Unwind, file
    <2>4. Quarantine => Atomic!Next
      BY SameData DEF Quarantine, Atomic!SetAside, Atomic!Next
    <2>5. CASE Open \/ Boot \/ Crash \/ UNCHANGED vars
      BY <2>5 DEF Open, Boot, Crash, vars, file
    <2> QED
      BY <1>2, <2>2, <2>3, <2>4, <2>5 DEF Next
  <1> QED
    BY <1>1, <1>2, BootInductive, PTL DEF Spec, IsAtomic, Atomic!Spec, Atomic!vars

=============================================================================
