--------------------------- MODULE EccPoll_proofs ---------------------------
(***************************************************************************)
(* Proofs about EccPoll, whatever the controller logs during a poll:       *)
(*   - a careful poll function clears only what it saw;                    *)
(*   - no error from before the program is reported where the setup_       *)
(*     function clears the status;                                         *)
(*   - every report stands for an error of its kind, none for the same one *)
(*     twice, so that no more are reported than were logged;               *)
(*   - it gives the location of that error where each kind has a location  *)
(*     register of its own.                                                *)
(***************************************************************************)
EXTENDS EccPoll, FiniteSetTheorems, TLAPS

-----------------------------------------------------------------------------
(* The table. *)

Rows == DOMAIN controllers

(* The poll_ functions of the rows whose setup_ function clears the status.  *)
Fresh == {"i860", "iE7xxx", "iE7520", "i875", "iE7221", "amd64", "nothing"}

LEMMA RowsThatClear ==
  ASSUME NEW c \in Rows, controllers[c].setup \in SetupClears
  PROVE  controllers[c].poll \in Fresh /\ c \notin {"unknown", "failsafe"}
BY DEF Rows, controllers, Row, SetupClears, Fresh

LEMMA FixedRows ==
  /\ {"unknown", "failsafe"} \cup Integrated \subseteq Rows
  /\ controllers["unknown"].setup = "nothing" /\ controllers["failsafe"].setup = "nothing"
BY DEF Rows, controllers, Row, Integrated

-----------------------------------------------------------------------------
(* The steps of a poll_ function. *)

(* No bit is cleared twice, and none that is not in A.                       *)
ClearsOnly(t, A) ==
  /\ t \in Seq(Ops)
  /\ \A i \in 1 .. Len(t) : t[i].op = "clear" =>
       /\ t[i].bits \subseteq A
       /\ \A j \in 1 .. Len(t) : i < j /\ t[j].op = "clear" => t[i].bits \cap t[j].bits = {}

(* Each report comes right after the reading of a log register in L.         *)
ReadsFirst(t, L) ==
  /\ t \in Seq(Ops)
  /\ \A i \in 1 .. Len(t) :
       /\ t[i].op \notin {"typed", "eap"}
       /\ t[i].op = "log" => t[i].from \in L
       /\ t[i].op = "report" => i > 1 /\ t[i - 1].op = "log"

LEMMA NoSteps == \A A, L : ClearsOnly(<<>>, A) /\ ReadsFirst(<<>>, L)
BY DEF ClearsOnly, ReadsFirst

LEMMA OpTypes ==
  /\ \A k \in Kinds : ReadLog(k) \in Ops /\ ReadLog(k).op = "log" /\ ReadLog(k).from = k
  /\ \A b \in BOOLEAN : Report(b) \in Ops /\ Report(b).op = "report"
  /\ \A bits \in SUBSET Kinds :
       /\ ClearBits(bits) \in Ops /\ ClearBits(bits).op = "clear" /\ ClearBits(bits).bits = bits
       /\ ClearNext(bits) \in Ops /\ ClearNext(bits).op = "next"
BY DEF Ops, ReadLog, Report, ClearBits, ClearNext

(* Read, report and clear.                                                   *)
LEMMA ReadReportClear ==
  ASSUME NEW k \in Kinds, NEW b \in BOOLEAN, NEW bits \in SUBSET Kinds, NEW L, k \in L
  PROVE  LET t == <<ReadLog(k), Report(b), ClearBits(bits)>>
         IN  ClearsOnly(t, bits) /\ ReadsFirst(t, L)
<1> DEFINE x == ReadLog(k)
           y == Report(b)
           z == ClearBits(bits)
           t == <<x, y, z>>
<1>1. /\ x \in Ops /\ x.op = "log" /\ x.from = k
      /\ y \in Ops /\ y.op = "report"
      /\ z \in Ops /\ z.op = "clear" /\ z.bits = bits
  BY OpTypes
<1> HIDE DEF x, y, z
<1>2. t \in Seq(Ops) /\ Len(t) = 3 /\ t[1] = x /\ t[2] = y /\ t[3] = z
  BY <1>1
<1> HIDE DEF t
<1>3. \A i \in 1 .. Len(t) : i = 1 \/ i = 2 \/ i = 3
  BY <1>2
<1>4. ClearsOnly(t, bits)
  BY <1>1, <1>2, <1>3 DEF ClearsOnly
<1>5. ReadsFirst(t, L)
  BY <1>1, <1>2, <1>3 DEF ReadsFirst
<1>6. QED
  BY <1>4, <1>5 DEF t, x, y, z

(* Read and report.                                                          *)
LEMMA ReadReport ==
  ASSUME NEW k \in Kinds, NEW b \in BOOLEAN
  PROVE  ClearsOnly(<<ReadLog(k), Report(b)>>, {})
<1> DEFINE x == ReadLog(k)
           y == Report(b)
           t == <<x, y>>
<1>1. /\ x \in Ops /\ x.op = "log" /\ y \in Ops /\ y.op = "report"
  BY OpTypes
<1> HIDE DEF x, y
<1>2. t \in Seq(Ops) /\ Len(t) = 2 /\ t[1] = x /\ t[2] = y
  BY <1>1
<1> HIDE DEF t
<1>3. \A i \in 1 .. Len(t) : i = 1 \/ i = 2
  BY <1>2
<1>4. ClearsOnly(t, {})
  BY <1>1, <1>2, <1>3 DEF ClearsOnly
<1>5. QED
  BY <1>4 DEF t, x, y

LEMMA ClearOnce ==
  ASSUME NEW bits \in SUBSET Kinds, NEW L
  PROVE  /\ ClearsOnly(<<ClearBits(bits)>>, bits) /\ ReadsFirst(<<ClearBits(bits)>>, L)
         /\ ClearsOnly(<<ClearNext(bits)>>, {}) /\ ReadsFirst(<<ClearNext(bits)>>, L)
<1> DEFINE x == ClearBits(bits)
           y == ClearNext(bits)
<1>1. /\ x \in Ops /\ x.op = "clear" /\ x.bits = bits
      /\ y \in Ops /\ y.op = "next"
  BY OpTypes
<1> HIDE DEF x, y
<1>2. ClearsOnly(<<x>>, bits) /\ ReadsFirst(<<x>>, L)
  BY <1>1 DEF ClearsOnly, ReadsFirst
<1>3. ClearsOnly(<<y>>, {}) /\ ReadsFirst(<<y>>, L)
  BY <1>1 DEF ClearsOnly, ReadsFirst
<1>4. QED
  BY <1>2, <1>3 DEF x, y

(* One list of steps after another.                                          *)
LEMMA Elements ==
  ASSUME NEW t \in Seq(Ops), NEW u \in Seq(Ops)
  PROVE  LET v == t \o u
         IN  /\ v \in Seq(Ops) /\ Len(v) = Len(t) + Len(u) /\ Len(t) \in Nat /\ Len(u) \in Nat
             /\ \A i \in 1 .. Len(v) : v[i] = IF i <= Len(t) THEN t[i] ELSE u[i - Len(t)]
             /\ \A i \in 1 .. Len(v) : \/ i \in 1 .. Len(t) /\ v[i] = t[i]
                                      \/ /\ i - Len(t) \in 1 .. Len(u) /\ i > Len(t)
                                         /\ v[i] = u[i - Len(t)]
<1> DEFINE v == t \o u
<1>1. /\ v \in Seq(Ops) /\ Len(v) = Len(t) + Len(u) /\ Len(t) \in Nat /\ Len(u) \in Nat
      /\ \A i \in 1 .. Len(v) : v[i] = IF i <= Len(t) THEN t[i] ELSE u[i - Len(t)]
  OBVIOUS
<1> HIDE DEF v
<1>2. \A i \in 1 .. Len(v) : \/ i \in 1 .. Len(t) /\ v[i] = t[i]
                             \/ /\ i - Len(t) \in 1 .. Len(u) /\ i > Len(t)
                                /\ v[i] = u[i - Len(t)]
  BY <1>1
<1>3. QED
  BY <1>1, <1>2 DEF v

LEMMA BothClear ==
  ASSUME NEW t, NEW u, NEW A, NEW B, ClearsOnly(t, A), ClearsOnly(u, B), A \cap B = {},
         NEW C, C = A \cup B
  PROVE  ClearsOnly(t \o u, C)
<1> DEFINE v == t \o u
<1>0. t \in Seq(Ops) /\ u \in Seq(Ops)
  BY DEF ClearsOnly
<1>1. /\ v \in Seq(Ops) /\ Len(v) = Len(t) + Len(u) /\ Len(t) \in Nat /\ Len(u) \in Nat
      /\ \A i \in 1 .. Len(v) : v[i] = IF i <= Len(t) THEN t[i] ELSE u[i - Len(t)]
  BY <1>0, Elements
<1>2. \A i \in 1 .. Len(v) : \/ i \in 1 .. Len(t) /\ v[i] = t[i]
                             \/ /\ i - Len(t) \in 1 .. Len(u) /\ i > Len(t)
                                /\ v[i] = u[i - Len(t)]
  BY <1>0, Elements
<1> HIDE DEF v
<1>3. ClearsOnly(v, A \cup B)
  <2>1. ASSUME NEW i \in 1 .. Len(v), v[i].op = "clear"
        PROVE  v[i].bits \subseteq A \cup B
    BY <1>2, <2>1 DEF ClearsOnly
  <2>2. ASSUME NEW i \in 1 .. Len(v), v[i].op = "clear",
               NEW j \in 1 .. Len(v), i < j, v[j].op = "clear"
        PROVE  v[i].bits \cap v[j].bits = {}
    <3>1. CASE i \in 1 .. Len(t) /\ v[i] = t[i]
      <4>1. v[i].bits \subseteq A
        BY <2>2, <3>1 DEF ClearsOnly
      <4>2. CASE j \in 1 .. Len(t) /\ v[j] = t[j]
        BY <2>2, <3>1, <4>2 DEF ClearsOnly
      <4>3. CASE j - Len(t) \in 1 .. Len(u) /\ v[j] = u[j - Len(t)]
        <5>1. v[j].bits \subseteq B
          BY <2>2, <4>3 DEF ClearsOnly
        <5>2. QED
          BY <4>1, <5>1
      <4>4. QED
        BY <1>2, <4>2, <4>3
    <3>2. CASE i - Len(t) \in 1 .. Len(u) /\ i > Len(t) /\ v[i] = u[i - Len(t)]
      <4>1. j - Len(t) \in 1 .. Len(u) /\ v[j] = u[j - Len(t)] /\ i - Len(t) < j - Len(t)
        BY <1>1, <2>2, <3>2
      <4>2. QED
        BY <2>2, <3>2, <4>1 DEF ClearsOnly
    <3>3. QED
      BY <1>2, <3>1, <3>2
  <2>3. QED
    BY <1>1, <2>1, <2>2 DEF ClearsOnly
<1>4. QED
  BY <1>3 DEF v

LEMMA BothRead ==
  ASSUME NEW t, NEW u, NEW L, ReadsFirst(t, L), ReadsFirst(u, L)
  PROVE  ReadsFirst(t \o u, L)
<1> DEFINE v == t \o u
<1>0. t \in Seq(Ops) /\ u \in Seq(Ops)
  BY DEF ReadsFirst
<1>1. /\ v \in Seq(Ops) /\ Len(v) = Len(t) + Len(u) /\ Len(t) \in Nat /\ Len(u) \in Nat
      /\ \A i \in 1 .. Len(v) : v[i] = IF i <= Len(t) THEN t[i] ELSE u[i - Len(t)]
  BY <1>0, Elements
<1>2. \A i \in 1 .. Len(v) : \/ i \in 1 .. Len(t) /\ v[i] = t[i]
                             \/ /\ i - Len(t) \in 1 .. Len(u) /\ i > Len(t)
                                /\ v[i] = u[i - Len(t)]
  BY <1>0, Elements
<1> HIDE DEF v
<1>3. ReadsFirst(v, L)
  <2>1. ASSUME NEW i \in 1 .. Len(v)
        PROVE  /\ v[i].op \notin {"typed", "eap"}
               /\ v[i].op = "log" => v[i].from \in L
               /\ v[i].op = "report" => i > 1 /\ v[i - 1].op = "log"
    <3>1. CASE i \in 1 .. Len(t) /\ v[i] = t[i]
      <4>1. ASSUME i > 1 PROVE v[i - 1] = t[i - 1]
        <5>1. i - 1 \in 1 .. Len(v) /\ i - 1 <= Len(t)
          BY <1>1, <3>1, <4>1
        <5>2. QED
          BY <1>1, <5>1
      <4>2. QED
        BY <3>1, <4>1 DEF ReadsFirst
    <3>2. CASE i - Len(t) \in 1 .. Len(u) /\ i > Len(t) /\ v[i] = u[i - Len(t)]
      <4>1. ASSUME i - Len(t) > 1 PROVE i > 1 /\ v[i - 1] = u[(i - Len(t)) - 1]
        <5>1. i - 1 \in 1 .. Len(v) /\ ~(i - 1 <= Len(t)) /\ i > 1
          BY <1>1, <3>2, <4>1
        <5>2. v[i - 1] = u[(i - 1) - Len(t)]
          BY <1>1, <5>1
        <5>3. (i - 1) - Len(t) = (i - Len(t)) - 1
          BY <1>1, <3>2
        <5>4. QED
          BY <5>1, <5>2, <5>3
      <4>2. QED
        BY <3>2, <4>1 DEF ReadsFirst
    <3>3. QED
      BY <1>2, <3>1, <3>2
  <2>2. QED
    BY <1>1, <2>1 DEF ReadsFirst
<1>4. QED
  BY <1>3 DEF v

(* What the poll_ functions do.                                              *)
Readable(fn, s) ==
  IF fn \in {"amd76x", "iE7xxx", "iE7520"} THEN s ELSE IF s = {} THEN {} ELSE {"ce"}

LEMMA CarefulClears ==
  ASSUME NEW fn \in Careful, NEW s \in SUBSET Kinds, NEW nerr \in SUBSET Kinds
  PROVE  ClearsOnly(Poll(fn, s, nerr), s)
<1> USE DEF Kinds
<1>1. ClearsOnly(PollI850(s), s)
  BY NoSteps, ReadReportClear DEF PollI850, When
<1>2. CASE fn \in {"i850", "i860"}
  BY <1>1, <1>2 DEF Poll, PollI860
<1>3. CASE fn = "iE7221"
  <2>1. ClearsOnly(PollE7221(s), s)
    BY NoSteps, ReadReportClear, ClearOnce DEF PollE7221, When
  <2>2. QED
    BY <1>3, <2>1 DEF Poll
<1>4. CASE fn = "amd76x"
  <2> DEFINE t == When("ue" \in s, <<ReadLog("ue"), Report(TRUE)>>)
             u == When("ce" \in s, <<ReadLog("ce"), Report(FALSE)>>)
             v == When(s # {}, <<ClearBits(s)>>)
  <2>1. ClearsOnly(t, {}) /\ ClearsOnly(u, {}) /\ ClearsOnly(v, s)
    BY NoSteps, ReadReport, ClearOnce DEF When
  <2>2. PollAmd76x(s) = (t \o u) \o v
    BY DEF PollAmd76x
  <2> HIDE DEF t, u, v
  <2>3. ClearsOnly(t \o u, {})
    BY <2>1, BothClear
  <2>4. ClearsOnly((t \o u) \o v, s)
    BY <2>1, <2>3, BothClear
  <2>5. QED
    BY <1>4, <2>2, <2>4 DEF Poll
<1>5. CASE fn = "iE7520"
  <2> DEFINE t == When("ce" \in s, <<ReadLog("ce"), Report(TRUE), ClearBits({"ce"})>>)
             u == When("ue" \in s, <<ReadLog("ue"), Report(FALSE), ClearBits({"ue"})>>)
             v == When(nerr # {}, <<ClearNext(nerr)>>)
             A == s \cap {"ce"}
             B == s \cap {"ue"}
  <2>1. ClearsOnly(t, A)
    <3>1. CASE "ce" \in s
      <4>1. A = {"ce"}
        BY <3>1
      <4>2. QED
        BY <3>1, <4>1, ReadReportClear DEF When
    <3>2. CASE "ce" \notin s
      BY <3>2, NoSteps DEF When
    <3>3. QED
      BY <3>1, <3>2
  <2>2. ClearsOnly(u, B)
    <3>1. CASE "ue" \in s
      <4>1. B = {"ue"}
        BY <3>1
      <4>2. QED
        BY <3>1, <4>1, ReadReportClear DEF When
    <3>2. CASE "ue" \notin s
      BY <3>2, NoSteps DEF When
    <3>3. QED
      BY <3>1, <3>2
  <2>3. ClearsOnly(v, {})
    BY NoSteps, ClearOnce DEF When
  <2>4. PollE7520(s, nerr) = (t \o u) \o v
    BY DEF PollE7520
  <2>5. A \cap B = {} /\ (A \cup B) \cup {} = s
    OBVIOUS
  <2> HIDE DEF t, u, v, A, B
  <2>6. ClearsOnly(t \o u, A \cup B)
    BY <2>1, <2>2, <2>5, BothClear
  <2>7. ClearsOnly((t \o u) \o v, s)
    BY <2>3, <2>5, <2>6, BothClear
  <2>8. QED
    BY <1>5, <2>4, <2>5, <2>7 DEF Poll
<1>6. QED
  BY <1>2, <1>3, <1>4, <1>5 DEF Careful

LEMMA FreshReads ==
  ASSUME NEW fn \in Fresh, NEW s \in SUBSET Kinds, NEW nerr \in SUBSET Kinds
  PROVE  ReadsFirst(Poll(fn, s, nerr), Readable(fn, s))
<1> USE DEF Kinds
<1>1. CASE fn = "nothing"
  BY <1>1, NoSteps DEF Poll
<1>2. CASE fn \in {"i860", "i875", "iE7221"}
  <2> DEFINE L == Readable(fn, s)
  <2>1. s # {} => "ce" \in L
    BY <1>2 DEF Readable
  <2> HIDE DEF L
  <2>2. /\ ReadsFirst(PollI860(s), L) /\ ReadsFirst(PollI875(s), L)
        /\ ReadsFirst(PollE7221(s), L)
    BY <2>1, NoSteps, ReadReportClear, ClearOnce DEF PollI860, PollI850, PollI875, PollE7221, When
  <2>3. QED
    BY <1>2, <2>2 DEF Poll, L
<1>3. CASE fn = "amd64"
  <2> DEFINE t == When("ce" \in s, <<ReadLog("ce"), Report(TRUE), ClearBits(Kinds)>>)
             u == When("ue" \in s, <<ReadLog("ce"), Report(FALSE), ClearBits(Kinds)>>)
           L == Readable(fn, s)
  <2>0. s # {} => "ce" \in L
    BY <1>3 DEF Readable
  <2> HIDE DEF L
  <2>1. ReadsFirst(t, L) /\ ReadsFirst(u, L)
    BY <2>0, NoSteps, ReadReportClear DEF When
  <2>2. PollAmd64(s) = t \o u
    BY DEF PollAmd64
  <2> HIDE DEF t, u
  <2>3. ReadsFirst(t \o u, L)
    BY <2>1, BothRead
  <2>4. QED
    BY <1>3, <2>2, <2>3 DEF Poll, L
<1>4. CASE fn = "iE7xxx"
  <2> DEFINE t == When("ce" \in s, <<ReadLog("ce"), Report(TRUE), ClearBits(s)>>)
             u == When("ue" \in s, <<ReadLog("ue"), Report(FALSE), ClearBits(s)>>)
             v == When(nerr # {}, <<ClearNext(nerr)>>)
  <2>1. ReadsFirst(t, s) /\ ReadsFirst(u, s) /\ ReadsFirst(v, s)
    BY NoSteps, ReadReportClear, ClearOnce DEF When
  <2>2. PollE7xxx(s, nerr) = (t \o u) \o v
    BY DEF PollE7xxx
  <2> HIDE DEF t, u, v
  <2>3. ReadsFirst(t \o u, s)
    BY <2>1, BothRead
  <2>4. ReadsFirst((t \o u) \o v, s)
    BY <2>1, <2>3, BothRead
  <2>5. QED
    BY <1>4, <2>2, <2>4 DEF Poll, Readable
<1>5. CASE fn = "iE7520"
  <2> DEFINE t == When("ce" \in s, <<ReadLog("ce"), Report(TRUE), ClearBits({"ce"})>>)
             u == When("ue" \in s, <<ReadLog("ue"), Report(FALSE), ClearBits({"ue"})>>)
             v == When(nerr # {}, <<ClearNext(nerr)>>)
  <2>1. ReadsFirst(t, s) /\ ReadsFirst(u, s) /\ ReadsFirst(v, s)
    BY NoSteps, ReadReportClear, ClearOnce DEF When
  <2>2. PollE7520(s, nerr) = (t \o u) \o v
    BY DEF PollE7520
  <2> HIDE DEF t, u, v
  <2>3. ReadsFirst(t \o u, s)
    BY <2>1, BothRead
  <2>4. ReadsFirst((t \o u) \o v, s)
    BY <2>1, <2>3, BothRead
  <2>5. QED
    BY <1>5, <2>2, <2>4 DEF Poll, Readable
<1>6. QED
  BY <1>1, <1>2, <1>3, <1>4, <1>5 DEF Fresh

-----------------------------------------------------------------------------
(* What is left of a poll. *)

(* Of a program t that may clear A, after its first step.                    *)
LEMMA RestClears ==
  ASSUME NEW t, NEW A, ClearsOnly(t, A), t # <<>>
  PROVE  /\ ClearsOnly(Tail(t), A)
         /\ Head(t).op = "clear" =>
              Head(t).bits \subseteq A /\ ClearsOnly(Tail(t), A \ Head(t).bits)
<1>1. /\ t \in Seq(Ops) /\ Len(t) \in Nat /\ Len(t) >= 1 /\ Head(t) = t[1]
      /\ Tail(t) \in Seq(Ops) /\ Len(Tail(t)) = Len(t) - 1
      /\ \A i \in 1 .. Len(t) - 1 : Tail(t)[i] = t[i + 1]
  BY DEF ClearsOnly
<1>2. ASSUME NEW i \in 1 .. Len(Tail(t)), Tail(t)[i].op = "clear"
      PROVE  /\ Tail(t)[i].bits \subseteq A
             /\ \A j \in 1 .. Len(Tail(t)) : i < j /\ Tail(t)[j].op = "clear" =>
                  Tail(t)[i].bits \cap Tail(t)[j].bits = {}
             /\ t[1].op = "clear" => t[1].bits \cap Tail(t)[i].bits = {}
  <2>1. i + 1 \in 1 .. Len(t) /\ 1 \in 1 .. Len(t) /\ 1 < i + 1 /\ Tail(t)[i] = t[i + 1]
    BY <1>1
  <2>2. ASSUME NEW j \in 1 .. Len(Tail(t)), i < j, Tail(t)[j].op = "clear"
        PROVE  Tail(t)[i].bits \cap Tail(t)[j].bits = {}
    <3>1. j + 1 \in 1 .. Len(t) /\ i + 1 < j + 1 /\ Tail(t)[j] = t[j + 1]
      BY <1>1, <2>2
    <3>2. QED
      BY <1>2, <2>1, <2>2, <3>1 DEF ClearsOnly
  <2>3. QED
    BY <1>2, <2>1, <2>2 DEF ClearsOnly
<1>3. ClearsOnly(Tail(t), A)
  BY <1>1, <1>2 DEF ClearsOnly
<1>4. ASSUME t[1].op = "clear"
      PROVE  t[1].bits \subseteq A /\ ClearsOnly(Tail(t), A \ t[1].bits)
  <2>1. t[1].bits \subseteq A
    BY <1>1, <1>4 DEF ClearsOnly
  <2>2. \A i \in 1 .. Len(Tail(t)) : Tail(t)[i].op = "clear" =>
          Tail(t)[i].bits \subseteq A \ t[1].bits
    BY <1>2, <1>4
  <2>3. QED
    BY <1>1, <1>2, <2>1, <2>2 DEF ClearsOnly
<1>5. QED
  BY <1>1, <1>3, <1>4

LEMMA ClearsMore ==
  ASSUME NEW t, NEW A, NEW B, ClearsOnly(t, A), A \subseteq B
  PROVE  ClearsOnly(t, B)
BY DEF ClearsOnly

-----------------------------------------------------------------------------
(* A careful poll function clears only what it saw. *)

(* The registers, and the controller found in the table.                     *)
Registers ==
  /\ bridge \in Rows /\ imc \in Integrated \cup {"none"}
  /\ index \in Rows \cup {"off"}
  /\ n \in Nat /\ status \in [Kinds -> Nat] /\ log \in [Kinds -> Nat]
  /\ next \in SUBSET Kinds
  /\ index = "off" => todo = <<>> /\ reports = <<>> /\ poll = FALSE /\ at = 0

StillSeen == {k \in Kinds : seen[k] # 0 /\ status[k] = seen[k]}

Carefully == index # "off" /\ controllers[index].poll \in Careful

SeenInvariant == Registers /\ (Carefully => ClearsOnly(todo, StillSeen))

LEMMA LookupRow == Registers => \A b \in BOOLEAN : Lookup(b) \in Rows
BY FixedRows DEF Registers, Lookup, Device

LEMMA RegistersInit == Init => Registers
<1>1. \A b \in DOMAIN controllers : b \in Rows
  BY DEF Rows
<1>2. Clear \in [Kinds -> Nat]
  BY DEF Clear
<1>3. QED
  BY <1>1, <1>2, FixedRows DEF Init, Registers

LEMMA RegistersNext == Registers /\ [Next]_vars => Registers'
<1> SUFFICES ASSUME Registers, [Next]_vars PROVE Registers'
  OBVIOUS
<1> USE DEF Registers, Kinds
<1>0. Clear \in [Kinds -> Nat]
  BY DEF Clear
<1>1. CASE PciInit
  BY <1>1 DEF PciInit, ctrl, hardware, locals
<1>2. CASE FindController
  <2>1. index' \in Rows
    BY <1>2, LookupRow DEF FindController
  <2>2. /\ UNCHANGED <<bridge, imc, n, log, todo, reports>>
        /\ status' \in {Clear, status} /\ next' \in {{}, next}
    BY <1>2 DEF FindController, machine, locals
  <2>3. index' # "off"
    BY <2>1 DEF Rows, controllers
  <2>4. QED
    BY <1>0, <2>1, <2>2, <2>3
<1>3. CASE PollErrors
  BY <1>3 DEF PollErrors, machine, ctrl, hardware
<1>4. CASE PollReadsLog
  BY <1>4 DEF PollReadsLog, Step, machine, ctrl, hardware
<1>5. CASE PollReports
  BY <1>5 DEF PollReports, Step, machine, ctrl, hardware
<1>6. CASE PollReportsTyped
  BY <1>6 DEF PollReportsTyped, Step, machine, ctrl, hardware
<1>7. CASE PollClears
  <2>1. status' \in [Kinds -> Nat]
    BY <1>7 DEF PollClears, Cleared
  <2>2. QED
    BY <1>7, <2>1 DEF PollClears, Step, machine, ctrl
<1>8. CASE PollClearsNext
  BY <1>8 DEF PollClearsNext, Step, machine, ctrl
<1>9. CASE PollClearsLog
  BY <1>9, <1>0 DEF PollClearsLog, Step, machine, ctrl
<1>10. ASSUME NEW k \in Kinds, LogError(k) PROVE Registers'
  <2>1. n' \in Nat /\ status' \in [Kinds -> Nat] /\ log' \in [Kinds -> Nat] /\ next' \in SUBSET Kinds
    <3>1. n' = n + 1 /\ n' \in Nat
      BY <1>10 DEF LogError
    <3>2. status' \in {status, [status EXCEPT ![k] = n']}
      BY <1>10 DEF LogError
    <3>3. log' \in {log, [log EXCEPT ![k] = n'], [i \in Kinds |-> n']}
      BY <1>10 DEF LogError
    <3>4. next' \in {next, next \cup {k}}
      BY <1>10 DEF LogError
    <3>5. QED
      BY <3>1, <3>2, <3>3, <3>4
  <2>2. QED
    BY <1>10, <2>1 DEF LogError, machine, ctrl, locals
<1>11. ASSUME NEW val \in -1 .. 1, SetEccPolling(val) PROVE Registers'
  BY <1>11 DEF SetEccPolling, machine, ctrl, hardware, locals
<1>12. CASE UNCHANGED vars
  BY <1>12 DEF vars, machine, ctrl, hardware, locals
<1>13. QED
  BY <1>1, <1>2, <1>3, <1>4, <1>5, <1>6, <1>7, <1>8, <1>9, <1>10, <1>11, <1>12
     DEF Next, Program

LEMMA SeenNext == SeenInvariant /\ [Next]_vars => SeenInvariant'
<1> SUFFICES ASSUME SeenInvariant, [Next]_vars, Carefully'
             PROVE  ClearsOnly(todo, StillSeen)'
  BY RegistersNext DEF SeenInvariant
<1>r. Registers
  BY DEF SeenInvariant
<1>1. CASE FindController
  <2>1. todo' = <<>>
    BY <1>1, <1>r DEF FindController, Registers, locals
  <2>2. QED
    BY <2>1, NoSteps
<1>2. CASE index' = index
  <2>0. Carefully /\ ClearsOnly(todo, StillSeen)
    BY <1>2 DEF Carefully, SeenInvariant
  <2>m. ~Misses
    BY <2>0 DEF Misses, Carefully, Careful
  <2>1. ASSUME UNCHANGED <<seen, status>>, todo' = todo \/ (todo # <<>> /\ todo' = Tail(todo))
        PROVE  ClearsOnly(todo, StillSeen)'
    <3>1. StillSeen' = StillSeen
      BY <2>1 DEF StillSeen
    <3>2. QED
      BY <2>0, <2>1, <3>1, RestClears
  <2>2. CASE PciInit \/ UNCHANGED vars \/ \E val \in -1 .. 1 : SetEccPolling(val)
    BY <2>1, <2>2 DEF PciInit, SetEccPolling, vars, hardware, locals
  <2>3. CASE PollErrors
    <3>1. todo' = Poll(controllers[index].poll, Seen(status), next) /\ seen' = status /\ status' = status
      BY <2>3, <2>m DEF PollErrors, StatusRead, hardware
    <3>2. Seen(status) \in SUBSET Kinds /\ Seen(status) = StillSeen'
      BY <3>1 DEF Seen, StillSeen
    <3>3. ClearsOnly(Poll(controllers[index].poll, Seen(status), next), Seen(status))
      BY <1>r, <2>0, <3>2, CarefulClears DEF Carefully, Registers
    <3>4. QED
      BY <3>1, <3>2, <3>3
  <2>4. CASE PollReadsLog \/ PollReports \/ PollReportsTyped \/ PollClearsNext \/ PollClearsLog
    BY <2>1, <2>4 DEF PollReadsLog, PollReports, PollReportsTyped, PollClearsNext,
                      PollClearsLog, Step, hardware
  <2>5. CASE PollClears
    <3> DEFINE bits == Head(todo).bits
    <3>1. /\ todo # <<>> /\ Head(todo).op = "clear" /\ todo' = Tail(todo)
          /\ status' = Cleared(bits) /\ seen' = seen
      BY <2>5, <2>m DEF PollClears, Step
    <3>2. ClearsOnly(Tail(todo), StillSeen \ bits)
      BY <2>0, <3>1, RestClears
    <3>3. StillSeen \ bits \subseteq StillSeen'
      BY <3>1 DEF StillSeen, Cleared
    <3>4. QED
      BY <3>1, <3>2, <3>3, ClearsMore
  <2>6. ASSUME NEW k \in Kinds, LogError(k) PROVE ClearsOnly(todo, StillSeen)'
    <3>1. todo' = todo /\ seen' = seen
      BY <2>6 DEF LogError, locals
    <3>2. StillSeen \subseteq StillSeen'
      <4>1. ASSUME NEW i \in Kinds, status[i] # 0 PROVE status'[i] = status[i]
        BY <2>6, <4>1, <1>r DEF LogError, Registers
      <4>2. QED
        BY <3>1, <4>1 DEF StillSeen
    <3>3. QED
      BY <2>0, <3>1, <3>2, ClearsMore
  <2>7. QED
    BY <1>1, <2>2, <2>3, <2>4, <2>5, <2>6 DEF Next, Program, FindController
<1>3. FindController \/ index' = index
  BY DEF Next, Program, PciInit, PollErrors, PollReadsLog, PollReports, PollReportsTyped,
         PollClears, PollClearsNext, PollClearsLog, LogError, SetEccPolling, ctrl, vars
<1>4. QED
  BY <1>1, <1>2, <1>3

(* The status does not lose an error that came after it was read.            *)
LEMMA ClearingStep ==
  ASSUME SeenInvariant, [Next]_vars, Carefully, NEW k \in Kinds, status[k] # 0, status'[k] = 0
  PROVE  seen[k] = status[k]
<1>r. Registers /\ ClearsOnly(todo, StillSeen)
  BY DEF SeenInvariant
<1>1. PollClears
  <2>1. status' # status
    OBVIOUS
  <2>2. ~FindController
    BY DEF FindController, Carefully
  <2>3. ASSUME NEW j \in Kinds PROVE ~LogError(j)
    BY <1>r DEF LogError, Registers
  <2>4. QED
    BY <2>1, <2>2, <2>3
       DEF Next, Program, PciInit, PollErrors, PollReadsLog, PollReports, PollReportsTyped,
           PollClearsNext, PollClearsLog, SetEccPolling, hardware, vars
<1>2. ~Misses
  BY DEF Misses, Carefully, Careful
<1>3. /\ todo # <<>> /\ Head(todo).op = "clear" /\ status' = Cleared(Head(todo).bits)
  BY <1>1, <1>2 DEF PollClears, Step
<1>4. k \in Head(todo).bits
  BY <1>3 DEF Cleared
<1>5. Head(todo).bits \subseteq StillSeen
  BY <1>r, <1>3, RestClears
<1>6. QED
  BY <1>4, <1>5 DEF StillSeen

(* The i850, i860, E7221, AMD 762 and E7520 poll functions do not clear the  *)
(* bit of an error that was logged after they had read the status.           *)
THEOREM SeenBeforeCleared == Spec => OnlySeenCleared
<1>1. Init => SeenInvariant
  <2>1. Init => todo = <<>>
    BY DEF Init
  <2>2. QED
    BY <2>1, RegistersInit, NoSteps DEF SeenInvariant
<1>2. SeenInvariant /\ [Next]_vars =>
        [index # "off" /\ controllers[index].poll \in Careful =>
           \A k \in Kinds : status[k] # 0 /\ status'[k] = 0 => seen[k] = status[k]]_vars
  BY ClearingStep DEF Carefully
<1>3. QED
  BY <1>1, <1>2, SeenNext, PTL DEF Spec, OnlySeenCleared

-----------------------------------------------------------------------------
(* Nothing is reported from before the program. *)

SetUp == index # "off" /\ controllers[index].setup \in SetupClears

After == {e \in Nat : e > before}
NewLogs == {k \in Kinds : log[k] \in After}
LogOf(k) == IF TwoLogs(index) THEN k ELSE "ce"

(* Steps that report only what has been read; ok, if it was read before.     *)
ReportsRead(t, L, ok) ==
  /\ t \in Seq(Ops)
  /\ \A i \in 1 .. Len(t) :
       /\ t[i].op \notin {"typed", "eap"}
       /\ t[i].op = "log" => t[i].from \in L
       /\ t[i].op = "report" => IF i = 1 THEN ok ELSE t[i - 1].op = "log"

NewOnly ==
  /\ index = Device /\ before \in Nat /\ before <= n
  /\ "detect" \notin mode => poll = FALSE /\ todo = <<>>
  /\ \A k \in Kinds : "detect" \in mode /\ status[k] # 0 => LogOf(k) \in NewLogs
  /\ ReportsRead(todo, NewLogs, at \in After)
  /\ reports \in Seq([error : After, corrected : BOOLEAN])

NewInvariant == Registers /\ (SetUp => NewOnly)

LEMMA NothingToReport == \A L, ok : ReportsRead(<<>>, L, ok)
BY DEF ReportsRead

LEMMA ReadBeforeReport ==
  ASSUME NEW t, NEW L, ReadsFirst(t, L), NEW M, L \subseteq M, NEW ok
  PROVE  ReportsRead(t, M, ok)
BY DEF ReadsFirst, ReportsRead

LEMMA RestReports ==
  ASSUME NEW t, NEW L, NEW ok, ReportsRead(t, L, ok), t # <<>>
  PROVE  /\ Head(t) \in Ops /\ Head(t).op \notin {"typed", "eap"}
         /\ Head(t).op = "log" => Head(t).from \in L
         /\ Head(t).op = "report" => ok
         /\ \A good : (Head(t).op = "log" => good) => ReportsRead(Tail(t), L, good)
<1>1. /\ t \in Seq(Ops) /\ Len(t) \in Nat /\ Len(t) >= 1 /\ Head(t) = t[1] /\ t[1] \in Ops
      /\ Tail(t) \in Seq(Ops) /\ Len(Tail(t)) = Len(t) - 1
      /\ \A i \in 1 .. Len(t) - 1 : Tail(t)[i] = t[i + 1]
  BY DEF ReportsRead
<1>2. 1 \in 1 .. Len(t)
  BY <1>1
<1>3. /\ t[1].op \notin {"typed", "eap"} /\ (t[1].op = "log" => t[1].from \in L)
      /\ t[1].op = "report" => ok
  BY <1>2 DEF ReportsRead
<1>4. ASSUME NEW good, t[1].op = "log" => good PROVE ReportsRead(Tail(t), L, good)
  <2>1. ASSUME NEW i \in 1 .. Len(Tail(t))
        PROVE  /\ Tail(t)[i].op \notin {"typed", "eap"}
               /\ Tail(t)[i].op = "log" => Tail(t)[i].from \in L
               /\ Tail(t)[i].op = "report" => IF i = 1 THEN good ELSE Tail(t)[i - 1].op = "log"
    <3>1. i + 1 \in 1 .. Len(t) /\ i + 1 # 1 /\ (i + 1) - 1 = i /\ Tail(t)[i] = t[i + 1]
      BY <1>1
    <3>2. /\ t[i + 1].op \notin {"typed", "eap"}
          /\ t[i + 1].op = "log" => t[i + 1].from \in L
          /\ t[i + 1].op = "report" => t[i].op = "log"
      BY <3>1 DEF ReportsRead
    <3>3. i # 1 => Tail(t)[i - 1] = t[i]
      BY <1>1
    <3>4. QED
      BY <1>4, <3>1, <3>2, <3>3
  <2>2. QED
    BY <1>1, <2>1 DEF ReportsRead
<1>5. QED
  BY <1>1, <1>3, <1>4

LEMMA ReportsMore ==
  ASSUME NEW t, NEW L, NEW M, NEW ok, ReportsRead(t, L, ok), L \subseteq M
  PROVE  ReportsRead(t, M, ok)
BY DEF ReportsRead

(* A setup_ function of these that leaves the status alone finds no ECC.     *)
LEMMA ClearsOrFindsNone ==
  ASSUME NEW fn \in SetupClears, NEW f \in 0 .. 3, NEW s \in BOOLEAN
  PROVE  Setup(fn, f, s).clears \/ "detect" \notin Setup(fn, f, s).mode
<1>1. CASE fn = "i925"
  BY <1>1 DEF Setup, SetupI925, Found, NONE
<1>2. CASE fn = "i860"
  BY <1>2 DEF Setup, SetupI860, SetupI845, Found
<1>3. CASE fn \in {"iE7xxx", "iE7205", "iE7520", "i875", "amd64"}
  BY <1>3 DEF Setup, SetupE7xxx, SetupE7205, SetupE7520, SetupI875, SetupAmd64, Found
<1>4. QED
  BY <1>1, <1>2, <1>3 DEF SetupClears

LEMMA NewNext == NewInvariant /\ [Next]_vars => NewInvariant'
<1> SUFFICES ASSUME NewInvariant, [Next]_vars, SetUp' PROVE NewOnly'
  BY RegistersNext DEF NewInvariant
<1>r. Registers
  BY DEF NewInvariant
<1>1. CASE FindController
  <2>1. PICK fail_safe \in BOOLEAN, s \in BOOLEAN, f \in 0 .. 3 :
          LET c == Lookup(fail_safe)
              found == Setup(controllers[c].setup, f, s)
          IN  /\ index' = c /\ mode' = found.mode
              /\ poll' = Polling(-1, c, found.mode)
              /\ status' = IF found.clears THEN Clear ELSE status
    BY <1>1 DEF FindController
  <2> DEFINE found == Setup(controllers[index'].setup, f, s)
  <2>2. /\ index' = Lookup(fail_safe) /\ mode' = found.mode
        /\ poll' = Polling(-1, index', found.mode)
        /\ status' = IF found.clears THEN Clear ELSE status
    BY <2>1
  <2>3. /\ index = "off" /\ before' = n /\ n' = n /\ todo' = todo /\ reports' = reports
        /\ imc' = imc /\ bridge' = bridge
    BY <1>1 DEF FindController, machine, locals
  <2>4. controllers[index'].setup \in SetupClears
    BY DEF SetUp
  <2>5. index' = Device'
    <3>1. index' # "unknown" /\ index' # "failsafe"
      BY <2>4, FixedRows DEF SetupClears
    <3>2. QED
      BY <2>2, <2>3, <3>1 DEF Lookup, Device
  <2>6. found.clears \/ "detect" \notin mode'
    BY <2>2, <2>4, ClearsOrFindsNone
  <2>7. "detect" \notin mode' => poll' = FALSE
    BY <2>2 DEF Polling
  <2>8. todo' = <<>> /\ reports' = <<>>
    BY <1>r, <2>3 DEF Registers
  <2>9. \A k \in Kinds : "detect" \in mode' => status'[k] = 0
    BY <2>2, <2>6 DEF Clear
  <2>10. ReportsRead(todo, NewLogs, at \in After)'
    BY <2>8, NothingToReport
  <2>11. before' \in Nat /\ before' <= n'
    BY <1>r, <2>3 DEF Registers
  <2>12. QED
    BY <2>5, <2>7, <2>8, <2>9, <2>10, <2>11 DEF NewOnly
<1>2. CASE UNCHANGED <<ctrl, bridge, imc>>
  <2>0. SetUp /\ NewOnly /\ Device' = Device
    BY <1>2 DEF SetUp, NewInvariant, ctrl, Device
  <2>1. /\ UNCHANGED <<index, mode, before, After>>
        /\ \A k \in Kinds : LogOf(k)' = LogOf(k)
    BY <1>2 DEF ctrl, After, LogOf, TwoLogs
  <2>f. index \in Rows /\ controllers[index].poll \in Fresh
    BY <1>r, <2>0, RowsThatClear DEF SetUp, Registers
  <2>m. ~Misses /\ controllers[Device].poll # "i440gx"
    BY <2>0, <2>f DEF Misses, Fresh, NewOnly
  <2>p. /\ index' = Device' /\ before' \in Nat /\ NewLogs \subseteq Kinds
        /\ \A val : "detect" \notin mode => Polling(val, index, mode) = FALSE
    BY <2>0, <2>1 DEF NewOnly, NewLogs, Polling
  <2>l. log' = log => NewLogs' = NewLogs
    BY <2>1 DEF NewLogs
  <2>2. CASE UNCHANGED <<hardware, at, todo, reports>> /\ ("detect" \notin mode => poll' = FALSE)
    <3>1. UNCHANGED <<log, status, n>>
      BY <2>2 DEF hardware
    <3>2. QED
      BY <2>0, <2>1, <2>2, <2>p, <2>l, <3>1 DEF NewOnly
  <2>3. CASE PciInit \/ UNCHANGED vars \/ \E val \in -1 .. 1 : SetEccPolling(val)
    <3>1. UNCHANGED <<hardware, at, todo, reports>>
      BY <2>3 DEF PciInit, SetEccPolling, locals, vars
    <3>2. "detect" \notin mode => poll' = FALSE
      BY <2>3, <2>0, <2>p DEF PciInit, SetEccPolling, vars, NewOnly
    <3>3. QED
      BY <2>2, <3>1, <3>2
  <2>4. CASE PollErrors
    <3> DEFINE fn == controllers[index].poll
    <3>1. /\ todo' = Poll(fn, Seen(status), next) /\ poll = TRUE /\ poll' = poll
          /\ UNCHANGED <<status, log, n, at, reports>>
      BY <2>4, <2>m, <1>r DEF PollErrors, StatusRead, hardware, ctrl, Registers
    <3>2. "detect" \in mode
      BY <2>0, <3>1 DEF NewOnly
    <3>3. Readable(fn, Seen(status)) \subseteq NewLogs
      <4>1. \A k \in Kinds : k \in Seen(status) => LogOf(k) \in NewLogs
        BY <2>0, <3>2 DEF Seen, NewOnly
      <4>2. QED
        BY <4>1 DEF Readable, LogOf, TwoLogs, Seen
    <3>4. ReadsFirst(todo', Readable(fn, Seen(status)))
      BY <1>r, <2>f, <3>1, FreshReads DEF Registers, Seen
    <3>5. ReportsRead(todo, NewLogs, at \in After)'
      BY <2>l, <3>1, <3>3, <3>4, ReadBeforeReport
    <3>6. QED
      BY <2>0, <2>1, <2>p, <2>l, <3>1, <3>2, <3>5 DEF NewOnly
  <2>5. CASE PollReadsLog
    <3>1. /\ todo # <<>> /\ Head(todo).op = "log" /\ todo' = Tail(todo) /\ at' = log[Head(todo).from]
          /\ UNCHANGED <<log, status, n, poll, reports>>
      BY <2>5 DEF PollReadsLog, Step, hardware
    <3>2. Head(todo).from \in NewLogs
      BY <2>0, <3>1, RestReports DEF NewOnly
    <3>3. at' \in After'
      BY <2>1, <3>1, <3>2 DEF NewLogs
    <3>4. ReportsRead(Tail(todo), NewLogs, (at \in After)')
      BY <2>0, <3>1, <3>3, RestReports DEF NewOnly
    <3>5. "detect" \in mode
      BY <2>0, <3>1 DEF NewOnly
    <3>6. QED
      BY <2>0, <2>1, <2>p, <2>l, <3>1, <3>4, <3>5 DEF NewOnly
  <2>6. CASE PollReports
    <3>1. /\ todo # <<>> /\ Head(todo).op = "report" /\ todo' = Tail(todo)
          /\ reports' = Append(reports, [error |-> at, corrected |-> Head(todo).corrected])
          /\ UNCHANGED <<log, status, n, at>>
      BY <2>6 DEF PollReports, PrintEccErr, Step, hardware
    <3>a. ReportsRead(todo, NewLogs, at \in After)
      BY <2>0 DEF NewOnly
    <3>b. at \in After /\ Head(todo) \in Ops
      <4>1. todo \in Seq(Ops) /\ Head(todo) = todo[1] /\ 1 \in 1 .. Len(todo)
        BY <3>1, <3>a DEF ReportsRead
      <4>2. QED
        BY <3>1, <3>a, <4>1 DEF ReportsRead
    <3>c. ReportsRead(Tail(todo), NewLogs, TRUE)
      BY <3>1, <3>a, RestReports
    <3>2. at \in After /\ Head(todo) \in Ops /\ ReportsRead(Tail(todo), NewLogs, at \in After)
      BY <3>b, <3>c DEF ReportsRead
    <3>3. Head(todo).corrected \in BOOLEAN
      BY <3>1, <3>2 DEF Ops
    <3>4. reports' \in Seq([error : After, corrected : BOOLEAN])
      BY <2>0, <3>1, <3>2, <3>3 DEF NewOnly
    <3>5. "detect" \in mode
      BY <2>0, <3>1 DEF NewOnly
    <3>6. QED
      BY <2>0, <2>1, <2>p, <2>l, <3>1, <3>2, <3>4, <3>5 DEF NewOnly
  <2>7. CASE PollReportsTyped \/ PollClearsLog
    <3>1. todo # <<>> /\ Head(todo).op \in {"typed", "eap"}
      BY <2>7 DEF PollReportsTyped, PollClearsLog, Step
    <3>2. QED
      BY <2>0, <3>1, RestReports DEF NewOnly
  <2>8. CASE PollClears \/ PollClearsNext
    <3>1. /\ todo # <<>> /\ Head(todo).op \in {"clear", "next"} /\ todo' = Tail(todo)
          /\ UNCHANGED <<log, n, at, poll, reports>>
          /\ \A k \in Kinds : status'[k] \in {0, status[k]}
      BY <2>8, <2>m DEF PollClears, PollClearsNext, Step, Cleared
    <3>2. ReportsRead(Tail(todo), NewLogs, at \in After)
      BY <2>0, <3>1, RestReports DEF NewOnly
    <3>3. "detect" \in mode
      BY <2>0, <3>1 DEF NewOnly
    <3>4. QED
      BY <2>0, <2>1, <2>p, <2>l, <3>1, <3>2, <3>3 DEF NewOnly
  <2>9. ASSUME NEW k \in Kinds, LogError(k) PROVE NewOnly'
    <3>1. /\ n' = n + 1 /\ n' \in Nat /\ n' \in After' /\ before' <= n'
      BY <1>r, <2>0, <2>1, <2>9 DEF LogError, Registers, NewOnly, After
    <3>2. UNCHANGED <<todo, at, poll, reports>>
      BY <2>9 DEF LogError, locals
    <3>3. \A j \in Kinds : log'[j] \in {log[j], n'}
      BY <1>r, <2>9 DEF LogError, Registers
    <3>4. NewLogs \subseteq NewLogs'
      BY <2>1, <3>1, <3>3 DEF NewLogs
    <3>5. \A j \in Kinds : status[j] # 0 => status'[j] = status[j]
      BY <1>r, <2>9 DEF LogError, Registers
    <3>6. ASSUME NEW j \in Kinds, "detect" \in mode, status'[j] # 0
          PROVE  LogOf(j) \in NewLogs'
      <4>1. CASE status[j] # 0
        BY <2>0, <3>4, <3>6, <4>1 DEF NewOnly
      <4>2. CASE status[j] = 0
        <5>1. j = k /\ status[k] = 0
          BY <1>r, <2>9, <3>6, <4>2 DEF LogError, Registers
        <5>2. CASE TwoLogs(index)
          <6>1. log' = [log EXCEPT ![k] = n'] /\ LogOf(j) = k
            BY <2>0, <2>9, <5>1, <5>2 DEF LogError, NewOnly, LogOf
          <6>2. log'[k] = n'
            BY <1>r, <6>1 DEF Registers
          <6>3. QED
            BY <3>1, <6>1, <6>2 DEF NewLogs
        <5>3. CASE ~TwoLogs(index)
          <6>1. log' = IF LogFree THEN [i \in Kinds |-> n'] ELSE log
            BY <2>0, <2>9, <5>1, <5>3 DEF LogError, NewOnly
          <6>2. LogOf(j) = "ce" /\ "ce" \in Kinds
            BY <5>3 DEF LogOf, Kinds
          <6>3. CASE LogFree
            <7>1. log'["ce"] = n'
              BY <6>1, <6>2, <6>3
            <7>2. QED
              BY <3>1, <6>2, <7>1 DEF NewLogs
          <6>4. CASE ~LogFree
            <7>1. status # Clear
              BY <2>m, <6>4 DEF LogFree
            <7>2. PICK i \in Kinds : status[i] # 0
              BY <1>r, <7>1 DEF Registers, Clear
            <7>3. LogOf(i) = "ce"
              BY <5>3 DEF LogOf
            <7>4. "ce" \in NewLogs
              BY <2>0, <3>6, <7>2, <7>3 DEF NewOnly
            <7>5. QED
              BY <3>4, <6>2, <7>4
          <6>5. QED
            BY <6>3, <6>4
        <5>4. QED
          BY <5>2, <5>3
      <4>3. QED
        BY <4>1, <4>2
    <3>7. ReportsRead(todo, NewLogs, at \in After)'
      BY <2>0, <2>1, <3>2, <3>4, ReportsMore DEF NewOnly
    <3>8. QED
      BY <2>0, <2>1, <2>p, <3>1, <3>2, <3>6, <3>7 DEF NewOnly
  <2>10. QED
    <3>1. ~FindController
      BY <2>0 DEF FindController, SetUp
    <3>2. QED
      BY <2>3, <2>4, <2>5, <2>6, <2>7, <2>8, <2>9, <3>1 DEF Next, Program
<1>3. FindController \/ UNCHANGED <<ctrl, bridge, imc>>
  BY DEF Next, Program, PciInit, PollErrors, PollReadsLog, PollReports, PollReportsTyped,
         PollClears, PollClearsNext, PollClearsLog, LogError, SetEccPolling, machine, vars
<1>4. QED
  BY <1>1, <1>2, <1>3

(* Whatever is reported, even between two accesses of a poll, was logged     *)
(* after the setup_ function cleared the status.                             *)
THEOREM NothingFromBefore == Spec => []NoLeftOver
<1>1. Init => NewInvariant
  BY RegistersInit DEF Init, NewInvariant, SetUp
<1>2. NewInvariant => NoLeftOver
  <2> DEFINE S == [error : After, corrected : BOOLEAN]
  <2>1. ASSUME reports \in Seq(S), NEW i \in DOMAIN reports
        PROVE  reports[i].error > before
    <3>0. \A r \in S : r.error > before
      BY DEF After
    <3> HIDE DEF S
    <3>1. reports[i] \in S
      BY <2>1
    <3>2. QED
      BY <3>0, <3>1
  <2>2. QED
    BY <2>1 DEF NewInvariant, SetUp, NewOnly, NoLeftOver
<1>3. QED
  BY <1>1, <1>2, NewNext, PTL DEF Spec

-----------------------------------------------------------------------------
(* Each report is of a bit that was set, and of that bit only once. *)

KindOf(corrected) == IF corrected THEN "ce" ELSE "ue"
Clearing(t, k) == \E i \in 1 .. Len(t) : t[i].op = "clear" /\ k \in t[i].bits

(* Reports only of kinds in A, each once, and each followed by a clearing of *)
(* its bit.                                                                  *)
AccountsFor(t, A) ==
  /\ t \in Seq(Ops)
  /\ \A i \in 1 .. Len(t) :
       /\ t[i].op \notin {"typed", "eap"}
       /\ t[i].op = "report" =>
            /\ KindOf(t[i].corrected) \in A
            /\ \A j \in 1 .. Len(t) : i < j /\ t[j].op = "report" =>
                 KindOf(t[j].corrected) # KindOf(t[i].corrected)
            /\ \E j \in 1 .. Len(t) :
                 i < j /\ t[j].op = "clear" /\ KindOf(t[i].corrected) \in t[j].bits

(* Reads only logs in A, each once and before its report; k is the kind of   *)
(* the location that has been read, "none" if there is none to report.       *)
Located(t, A, k) ==
  /\ t \in Seq(Ops)
  /\ \A i \in 1 .. Len(t) :
       /\ t[i].op \notin {"typed", "eap"}
       /\ t[i].op = "log" =>
            /\ t[i].from \in A
            /\ \A j \in 1 .. Len(t) : i < j /\ t[j].op = "log" => t[j].from # t[i].from
       /\ t[i].op = "report" =>
            /\ IF i = 1 THEN KindOf(t[i].corrected) = k
               ELSE t[i - 1].op = "log" /\ t[i - 1].from = KindOf(t[i].corrected)
            /\ \A j \in 1 .. Len(t) : i < j /\ t[j].op = "log" =>
                 t[j].from # KindOf(t[i].corrected)

LEMMA KindNames ==
  /\ \A b \in BOOLEAN : KindOf(b) \in Kinds /\ KindOf(b) # "none"
  /\ \A b, c \in BOOLEAN : KindOf(b) = KindOf(c) => b = c
BY DEF KindOf, Kinds

LEMMA OpFields ==
  /\ \A b \in BOOLEAN : Report(b).corrected = b
  /\ \A o \in Ops : /\ o.op = "report" => o.corrected \in BOOLEAN
                    /\ o.op = "log" => o.from \in Kinds
                    /\ o.op \in {"clear", "next"} => o.bits \in SUBSET Kinds
BY DEF Ops, Report

LEMMA NoReports ==
  /\ \A A : AccountsFor(<<>>, A)
  /\ \A A, k : Located(<<>>, A, k)
BY DEF AccountsFor, Located

(* The reading of a log, the report and the clearing, for one kind.          *)
LEMMA OneKind ==
  ASSUME NEW l \in Kinds, NEW b \in BOOLEAN, NEW bits \in SUBSET Kinds,
         KindOf(b) \in bits
  PROVE  LET t == <<ReadLog(l), Report(b), ClearBits(bits)>>
         IN  /\ AccountsFor(t, {KindOf(b)})
             /\ l = KindOf(b) => Located(t, {KindOf(b)}, "none")
<1> DEFINE x == ReadLog(l)
           y == Report(b)
           z == ClearBits(bits)
           t == <<x, y, z>>
<1>1. /\ x \in Ops /\ x.op = "log" /\ x.from = l
      /\ y \in Ops /\ y.op = "report" /\ y.corrected = b
      /\ z \in Ops /\ z.op = "clear" /\ z.bits = bits
  BY OpTypes, OpFields
<1> HIDE DEF x, y, z
<1>2. t \in Seq(Ops) /\ Len(t) = 3 /\ t[1] = x /\ t[2] = y /\ t[3] = z
  BY <1>1
<1> HIDE DEF t
<1>3. \A i \in 1 .. Len(t) : i = 1 \/ i = 2 \/ i = 3
  BY <1>2
<1>4. 3 \in 1 .. Len(t) /\ 2 < 3
  BY <1>2
<1>5. AccountsFor(t, {KindOf(b)})
  BY <1>1, <1>2, <1>3, <1>4 DEF AccountsFor
<1>6. ASSUME l = KindOf(b) PROVE Located(t, {KindOf(b)}, "none")
  BY <1>1, <1>2, <1>3, <1>6 DEF Located
<1>7. QED
  BY <1>5, <1>6 DEF t, x, y, z

(* ... if its bit is set.                                                    *)
LEMMA OneKindWhen ==
  ASSUME NEW l \in Kinds, NEW b \in BOOLEAN, NEW bits \in SUBSET Kinds, NEW s,
         KindOf(b) \in s => KindOf(b) \in bits
  PROVE  LET t == When(KindOf(b) \in s, <<ReadLog(l), Report(b), ClearBits(bits)>>)
         IN  /\ AccountsFor(t, s \cap {KindOf(b)})
             /\ l = KindOf(b) => Located(t, s \cap {KindOf(b)}, "none")
<1>1. CASE KindOf(b) \in s
  <2>1. s \cap {KindOf(b)} = {KindOf(b)}
    BY <1>1
  <2>2. QED
    BY <1>1, <2>1, OneKind DEF When
<1>2. CASE KindOf(b) \notin s
  BY <1>2, NoReports DEF When
<1>3. QED
  BY <1>1, <1>2

LEMMA OnlyClears ==
  ASSUME NEW bits \in SUBSET Kinds, NEW A, NEW k
  PROVE  /\ AccountsFor(<<ClearBits(bits)>>, A) /\ Located(<<ClearBits(bits)>>, A, k)
         /\ AccountsFor(<<ClearNext(bits)>>, A) /\ Located(<<ClearNext(bits)>>, A, k)
<1> DEFINE x == ClearBits(bits)
           y == ClearNext(bits)
<1>1. x \in Ops /\ x.op = "clear" /\ y \in Ops /\ y.op = "next"
  BY OpTypes
<1> HIDE DEF x, y
<1>2. /\ AccountsFor(<<x>>, A) /\ Located(<<x>>, A, k)
      /\ AccountsFor(<<y>>, A) /\ Located(<<y>>, A, k)
  BY <1>1 DEF AccountsFor, Located
<1>3. QED
  BY <1>2 DEF x, y

LEMMA AccountsMore ==
  ASSUME NEW t, NEW A, NEW B, AccountsFor(t, A), A \subseteq B
  PROVE  AccountsFor(t, B)
BY DEF AccountsFor

LEMMA LocatedMore ==
  ASSUME NEW t, NEW A, NEW B, NEW k, NEW m, Located(t, A, k), A \subseteq B, k \in {m, "none"}
  PROVE  Located(t, B, m)
<1>1. ASSUME NEW i \in 1 .. Len(t), t[i].op = "report" PROVE KindOf(t[i].corrected) # "none"
  BY DEF KindOf
<1>2. QED
  BY <1>1 DEF Located

LEMMA BothAccount ==
  ASSUME NEW t, NEW u, NEW A, NEW B, AccountsFor(t, A), AccountsFor(u, B), A \cap B = {}
  PROVE  AccountsFor(t \o u, A \cup B)
<1> DEFINE v == t \o u
<1>0. t \in Seq(Ops) /\ u \in Seq(Ops)
  BY DEF AccountsFor
<1>1. /\ v \in Seq(Ops) /\ Len(v) = Len(t) + Len(u) /\ Len(t) \in Nat /\ Len(u) \in Nat
      /\ \A i \in 1 .. Len(v) : v[i] = IF i <= Len(t) THEN t[i] ELSE u[i - Len(t)]
  BY <1>0, Elements
<1>2. \A i \in 1 .. Len(v) : \/ i \in 1 .. Len(t) /\ v[i] = t[i]
                             \/ /\ i - Len(t) \in 1 .. Len(u) /\ i > Len(t)
                                /\ v[i] = u[i - Len(t)]
  BY <1>0, Elements
<1> HIDE DEF v
<1>3. ASSUME NEW i \in 1 .. Len(v)
      PROVE  /\ v[i].op \notin {"typed", "eap"}
             /\ v[i].op = "report" => KindOf(v[i].corrected) \in A \cup B
  BY <1>2 DEF AccountsFor
<1>4. ASSUME NEW i \in 1 .. Len(v), v[i].op = "report",
             NEW j \in 1 .. Len(v), i < j, v[j].op = "report"
      PROVE  KindOf(v[j].corrected) # KindOf(v[i].corrected)
  <2>1. CASE i \in 1 .. Len(t) /\ v[i] = t[i]
    <3>1. CASE j \in 1 .. Len(t) /\ v[j] = t[j]
      BY <1>4, <2>1, <3>1 DEF AccountsFor
    <3>2. CASE j - Len(t) \in 1 .. Len(u) /\ v[j] = u[j - Len(t)]
      <4>1. KindOf(v[i].corrected) \in A
        BY <1>4, <2>1 DEF AccountsFor
      <4>2. KindOf(v[j].corrected) \in B
        BY <1>4, <3>2 DEF AccountsFor
      <4>3. QED
        BY <4>1, <4>2
    <3>3. QED
      BY <1>2, <3>1, <3>2
  <2>2. CASE i - Len(t) \in 1 .. Len(u) /\ i > Len(t) /\ v[i] = u[i - Len(t)]
    <3>1. j - Len(t) \in 1 .. Len(u) /\ v[j] = u[j - Len(t)] /\ i - Len(t) < j - Len(t)
      BY <1>1, <1>4, <2>2
    <3>2. QED
      BY <1>4, <2>2, <3>1 DEF AccountsFor
  <2>3. QED
    BY <1>2, <2>1, <2>2
<1>5. ASSUME NEW i \in 1 .. Len(v), v[i].op = "report"
      PROVE  \E j \in 1 .. Len(v) :
               i < j /\ v[j].op = "clear" /\ KindOf(v[i].corrected) \in v[j].bits
  <2>1. CASE i \in 1 .. Len(t) /\ v[i] = t[i]
    <3>1. PICK j \in 1 .. Len(t) :
            i < j /\ t[j].op = "clear" /\ KindOf(t[i].corrected) \in t[j].bits
      BY <1>5, <2>1 DEF AccountsFor
    <3>2. j \in 1 .. Len(v) /\ v[j] = t[j]
      BY <1>1
    <3>3. QED
      BY <2>1, <3>1, <3>2
  <2>2. CASE i - Len(t) \in 1 .. Len(u) /\ i > Len(t) /\ v[i] = u[i - Len(t)]
    <3>1. PICK j \in 1 .. Len(u) :
            /\ i - Len(t) < j /\ u[j].op = "clear"
            /\ KindOf(u[i - Len(t)].corrected) \in u[j].bits
      BY <1>5, <2>2 DEF AccountsFor
    <3>2. Len(t) + j \in 1 .. Len(v) /\ i < Len(t) + j /\ v[Len(t) + j] = u[j]
      <4>1. Len(t) + j \in 1 .. Len(v) /\ ~(Len(t) + j <= Len(t)) /\ i < Len(t) + j
        BY <1>1, <2>2, <3>1
      <4>2. v[Len(t) + j] = u[(Len(t) + j) - Len(t)]
        BY <1>1, <4>1
      <4>3. (Len(t) + j) - Len(t) = j
        BY <1>1
      <4>4. QED
        BY <4>1, <4>2, <4>3
    <3>3. QED
      BY <2>2, <3>1, <3>2
  <2>3. QED
    BY <1>2, <2>1, <2>2
<1>6. AccountsFor(v, A \cup B)
  <2>1. v \in Seq(Ops)
    BY <1>1
  <2>2. ASSUME NEW i \in 1 .. Len(v), v[i].op = "report"
        PROVE  /\ KindOf(v[i].corrected) \in A \cup B
               /\ \A j \in 1 .. Len(v) : i < j /\ v[j].op = "report" =>
                    KindOf(v[j].corrected) # KindOf(v[i].corrected)
               /\ \E j \in 1 .. Len(v) :
                    i < j /\ v[j].op = "clear" /\ KindOf(v[i].corrected) \in v[j].bits
    BY <1>3, <1>4, <1>5, <2>2
  <2> HIDE DEF v
  <2>3. QED
    BY <1>3, <2>1, <2>2 DEF AccountsFor
<1>7. QED
  BY <1>6 DEF v

LEMMA BothLocate ==
  ASSUME NEW t, NEW u, NEW A, NEW B, Located(t, A, "none"), Located(u, B, "none"),
         A \cap B = {}, \A i \in 1 .. Len(t) : t[i].op = "report" => KindOf(t[i].corrected) \in A
  PROVE  Located(t \o u, A \cup B, "none")
<1> DEFINE v == t \o u
<1>0. t \in Seq(Ops) /\ u \in Seq(Ops)
  BY DEF Located
<1>1. /\ v \in Seq(Ops) /\ Len(v) = Len(t) + Len(u) /\ Len(t) \in Nat /\ Len(u) \in Nat
      /\ \A i \in 1 .. Len(v) : v[i] = IF i <= Len(t) THEN t[i] ELSE u[i - Len(t)]
  BY <1>0, Elements
<1>2. \A i \in 1 .. Len(v) : \/ i \in 1 .. Len(t) /\ v[i] = t[i]
                             \/ /\ i - Len(t) \in 1 .. Len(u) /\ i > Len(t)
                                /\ v[i] = u[i - Len(t)]
  BY <1>0, Elements
<1> HIDE DEF v
<1>3. ASSUME NEW i \in 1 .. Len(v)
      PROVE  /\ v[i].op \notin {"typed", "eap"}
             /\ v[i].op = "log" => v[i].from \in A \cup B
  BY <1>2 DEF Located
<1>4. ASSUME NEW j \in 1 .. Len(v), v[j].op = "log", NEW i \in 1 .. Len(v), i < j
      PROVE  /\ v[i].op = "log" => v[j].from # v[i].from
             /\ v[i].op = "report" => v[j].from # KindOf(v[i].corrected)
  <2>1. CASE i \in 1 .. Len(t) /\ v[i] = t[i]
    <3>1. CASE j \in 1 .. Len(t) /\ v[j] = t[j]
      BY <1>4, <2>1, <3>1 DEF Located
    <3>2. CASE j - Len(t) \in 1 .. Len(u) /\ v[j] = u[j - Len(t)]
      <4>1. v[j].from \in B
        BY <1>4, <3>2 DEF Located
      <4>2. /\ v[i].op = "log" => v[i].from \in A
            /\ v[i].op = "report" => KindOf(v[i].corrected) \in A
        BY <2>1 DEF Located
      <4>3. QED
        BY <4>1, <4>2
    <3>3. QED
      BY <1>2, <3>1, <3>2
  <2>2. CASE i - Len(t) \in 1 .. Len(u) /\ i > Len(t) /\ v[i] = u[i - Len(t)]
    <3>1. j - Len(t) \in 1 .. Len(u) /\ v[j] = u[j - Len(t)] /\ i - Len(t) < j - Len(t)
      BY <1>1, <1>4, <2>2
    <3>2. QED
      BY <1>4, <2>2, <3>1 DEF Located
  <2>3. QED
    BY <1>2, <2>1, <2>2
<1>5. ASSUME NEW i \in 1 .. Len(v), v[i].op = "report"
      PROVE  IF i = 1 THEN KindOf(v[i].corrected) = "none"
             ELSE v[i - 1].op = "log" /\ v[i - 1].from = KindOf(v[i].corrected)
  <2>1. CASE i \in 1 .. Len(t) /\ v[i] = t[i]
    <3>1. ASSUME i # 1 PROVE v[i - 1] = t[i - 1]
      <4>1. i - 1 \in 1 .. Len(v) /\ i - 1 <= Len(t)
        BY <1>1, <2>1, <3>1
      <4>2. QED
        BY <1>1, <4>1
    <3>2. QED
      BY <1>5, <2>1, <3>1 DEF Located
  <2>2. CASE i - Len(t) \in 1 .. Len(u) /\ i > Len(t) /\ v[i] = u[i - Len(t)]
    <3>1. i - Len(t) # 1
      <4>1. ASSUME NEW b PROVE KindOf(b) # "none"
        BY DEF KindOf
      <4>2. QED
        BY <1>5, <2>2, <4>1 DEF Located
    <3>2. i # 1 /\ v[i - 1] = u[(i - Len(t)) - 1]
      <4>1. i - 1 \in 1 .. Len(v) /\ ~(i - 1 <= Len(t)) /\ i # 1
        BY <1>1, <2>2, <3>1
      <4>2. v[i - 1] = u[(i - 1) - Len(t)]
        BY <1>1, <4>1
      <4>3. (i - 1) - Len(t) = (i - Len(t)) - 1
        BY <1>1, <2>2
      <4>4. QED
        BY <4>1, <4>2, <4>3
    <3>3. QED
      BY <1>5, <2>2, <3>1, <3>2 DEF Located
  <2>3. QED
    BY <1>2, <2>1, <2>2
<1>6. Located(v, A \cup B, "none")
  BY <1>1, <1>3, <1>4, <1>5 DEF Located
<1>7. QED
  BY <1>6 DEF v

LEMMA RestAccounts ==
  ASSUME NEW t, NEW A, AccountsFor(t, A), t # <<>>
  PROVE  /\ Head(t) \in Ops /\ Head(t).op \notin {"typed", "eap"}
         /\ AccountsFor(Tail(t), A)
         /\ Head(t).op = "report" =>
              LET k == KindOf(Head(t).corrected)
              IN  k \in A /\ AccountsFor(Tail(t), A \ {k}) /\ Clearing(Tail(t), k)
         /\ \A k : Clearing(t, k) =>
              Clearing(Tail(t), k) \/ (Head(t).op = "clear" /\ k \in Head(t).bits)
<1>1. /\ t \in Seq(Ops) /\ Len(t) \in Nat /\ Len(t) >= 1 /\ Head(t) = t[1] /\ t[1] \in Ops
      /\ Tail(t) \in Seq(Ops) /\ Len(Tail(t)) = Len(t) - 1
      /\ \A i \in 1 .. Len(t) - 1 : Tail(t)[i] = t[i + 1]
  BY DEF AccountsFor
<1>2. 1 \in 1 .. Len(t)
  BY <1>1
<1>3. ASSUME NEW i \in 1 .. Len(t), i > 1
      PROVE  i - 1 \in 1 .. Len(Tail(t)) /\ Tail(t)[i - 1] = t[i]
  <2>1. i - 1 \in 1 .. Len(t) - 1 /\ (i - 1) + 1 = i
    BY <1>1, <1>3
  <2>2. QED
    BY <1>1, <2>1
<1>4. ASSUME NEW i \in 1 .. Len(Tail(t))
      PROVE  i + 1 \in 1 .. Len(t) /\ 1 < i + 1 /\ Tail(t)[i] = t[i + 1]
  BY <1>1
<1>5. ASSUME NEW i \in 1 .. Len(Tail(t)), Tail(t)[i].op = "report"
      PROVE  /\ KindOf(Tail(t)[i].corrected) \in A
             /\ \A j \in 1 .. Len(Tail(t)) : i < j /\ Tail(t)[j].op = "report" =>
                  KindOf(Tail(t)[j].corrected) # KindOf(Tail(t)[i].corrected)
             /\ \E j \in 1 .. Len(Tail(t)) : /\ i < j /\ Tail(t)[j].op = "clear"
                                            /\ KindOf(Tail(t)[i].corrected) \in Tail(t)[j].bits
             /\ t[1].op = "report" => KindOf(Tail(t)[i].corrected) # KindOf(t[1].corrected)
  <2>1. i + 1 \in 1 .. Len(t) /\ 1 < i + 1 /\ Tail(t)[i] = t[i + 1]
    BY <1>4
  <2>2. ASSUME NEW j \in 1 .. Len(Tail(t)), i < j, Tail(t)[j].op = "report"
        PROVE  KindOf(Tail(t)[j].corrected) # KindOf(Tail(t)[i].corrected)
    <3>1. j + 1 \in 1 .. Len(t) /\ i + 1 < j + 1 /\ Tail(t)[j] = t[j + 1]
      BY <1>1, <2>2
    <3>2. QED
      BY <1>5, <2>1, <2>2, <3>1 DEF AccountsFor
  <2>3. PICK j \in 1 .. Len(t) :
          i + 1 < j /\ t[j].op = "clear" /\ KindOf(t[i + 1].corrected) \in t[j].bits
    BY <1>5, <2>1 DEF AccountsFor
  <2>4. j - 1 \in 1 .. Len(Tail(t)) /\ i < j - 1 /\ Tail(t)[j - 1] = t[j]
    BY <1>3, <2>1, <2>3
  <2>5. KindOf(Tail(t)[i].corrected) \in A
    BY <1>5, <2>1 DEF AccountsFor
  <2>6. t[1].op = "report" => KindOf(Tail(t)[i].corrected) # KindOf(t[1].corrected)
    BY <1>2, <1>5, <2>1 DEF AccountsFor
  <2>7. QED
    BY <2>1, <2>2, <2>3, <2>4, <2>5, <2>6
<1>6. \A i \in 1 .. Len(Tail(t)) : Tail(t)[i].op \notin {"typed", "eap"}
  BY <1>4 DEF AccountsFor
<1>7. AccountsFor(Tail(t), A)
  BY <1>1, <1>5, <1>6 DEF AccountsFor
<1>8. ASSUME t[1].op = "report"
      PROVE  LET k == KindOf(t[1].corrected)
             IN  k \in A /\ AccountsFor(Tail(t), A \ {k}) /\ Clearing(Tail(t), k)
  <2> DEFINE k == KindOf(t[1].corrected)
  <2>1. k \in A
    BY <1>2, <1>8 DEF AccountsFor
  <2>2. AccountsFor(Tail(t), A \ {k})
    BY <1>1, <1>5, <1>6, <1>8 DEF AccountsFor
  <2>3. PICK j \in 1 .. Len(t) : 1 < j /\ t[j].op = "clear" /\ k \in t[j].bits
    BY <1>2, <1>8 DEF AccountsFor
  <2>4. Clearing(Tail(t), k)
    BY <1>3, <2>3 DEF Clearing
  <2>5. QED
    BY <2>1, <2>2, <2>4
<1>9. ASSUME NEW k, Clearing(t, k)
      PROVE  Clearing(Tail(t), k) \/ (t[1].op = "clear" /\ k \in t[1].bits)
  <2>1. PICK j \in 1 .. Len(t) : t[j].op = "clear" /\ k \in t[j].bits
    BY <1>9 DEF Clearing
  <2>2. CASE j > 1
    BY <1>3, <2>1, <2>2 DEF Clearing
  <2>3. QED
    BY <2>1, <2>2
<1>10. Head(t).op \notin {"typed", "eap"}
  BY <1>1, <1>2 DEF AccountsFor
<1>11. QED
  BY <1>1, <1>7, <1>8, <1>9, <1>10

LEMMA RestLocated ==
  ASSUME NEW t, NEW A, NEW k, Located(t, A, k), t # <<>>
  PROVE  /\ Head(t) \in Ops /\ Head(t).op \notin {"typed", "eap"}
         /\ Head(t).op = "log" => /\ Head(t).from \in A
                                  /\ Located(Tail(t), A \ {Head(t).from}, Head(t).from)
         /\ Head(t).op = "report" => /\ KindOf(Head(t).corrected) = k
                                     /\ Located(Tail(t), A \ {k}, "none")
         /\ Head(t).op \in {"clear", "next"} => Located(Tail(t), A, "none")
<1>1. /\ t \in Seq(Ops) /\ Len(t) \in Nat /\ Len(t) >= 1 /\ Head(t) = t[1] /\ t[1] \in Ops
      /\ Tail(t) \in Seq(Ops) /\ Len(Tail(t)) = Len(t) - 1
      /\ \A i \in 1 .. Len(t) - 1 : Tail(t)[i] = t[i + 1]
  BY DEF Located
<1>2. 1 \in 1 .. Len(t)
  BY <1>1
<1>4. ASSUME NEW i \in 1 .. Len(Tail(t))
      PROVE  i + 1 \in 1 .. Len(t) /\ 1 < i + 1 /\ Tail(t)[i] = t[i + 1]
  BY <1>1
<1>5. ASSUME NEW j \in 1 .. Len(Tail(t)), Tail(t)[j].op = "log"
      PROVE  /\ Tail(t)[j].from \in A
             /\ t[1].op = "log" => Tail(t)[j].from # t[1].from
             /\ t[1].op = "report" => Tail(t)[j].from # KindOf(t[1].corrected)
             /\ \A i \in 1 .. Len(Tail(t)) : i < j =>
                  /\ Tail(t)[i].op = "log" => Tail(t)[j].from # Tail(t)[i].from
                  /\ Tail(t)[i].op = "report" => Tail(t)[j].from # KindOf(Tail(t)[i].corrected)
  <2>1. j + 1 \in 1 .. Len(t) /\ 1 < j + 1 /\ Tail(t)[j] = t[j + 1]
    BY <1>4
  <2>2. ASSUME NEW i \in 1 .. Len(Tail(t)), i < j
        PROVE  /\ Tail(t)[i].op = "log" => Tail(t)[j].from # Tail(t)[i].from
               /\ Tail(t)[i].op = "report" => Tail(t)[j].from # KindOf(Tail(t)[i].corrected)
    <3>1. i + 1 \in 1 .. Len(t) /\ i + 1 < j + 1 /\ Tail(t)[i] = t[i + 1]
      BY <1>1, <2>2
    <3>2. QED
      BY <1>5, <2>1, <2>2, <3>1 DEF Located
  <2>3. Tail(t)[j].from \in A
    BY <1>5, <2>1 DEF Located
  <2>4. /\ t[1].op = "log" => Tail(t)[j].from # t[1].from
        /\ t[1].op = "report" => Tail(t)[j].from # KindOf(t[1].corrected)
    BY <1>2, <1>5, <2>1 DEF Located
  <2>5. QED
    BY <2>2, <2>3, <2>4
<1>6. ASSUME NEW i \in 1 .. Len(Tail(t)), Tail(t)[i].op = "report"
      PROVE  /\ i = 1 => t[1].op = "log" /\ t[1].from = KindOf(Tail(t)[i].corrected)
             /\ i # 1 => /\ Tail(t)[i - 1].op = "log"
                         /\ Tail(t)[i - 1].from = KindOf(Tail(t)[i].corrected)
  <2>1. i + 1 \in 1 .. Len(t) /\ i + 1 # 1 /\ (i + 1) - 1 = i /\ Tail(t)[i] = t[i + 1]
    BY <1>4
  <2>2. t[i].op = "log" /\ t[i].from = KindOf(Tail(t)[i].corrected)
    BY <1>6, <2>1 DEF Located
  <2>3. i # 1 => Tail(t)[i - 1] = t[i]
    BY <1>1
  <2>4. QED
    BY <2>2, <2>3
<1>7. \A i \in 1 .. Len(Tail(t)) : Tail(t)[i].op \notin {"typed", "eap"}
  BY <1>4 DEF Located
<1>8. ASSUME t[1].op = "log"
      PROVE  t[1].from \in A /\ Located(Tail(t), A \ {t[1].from}, t[1].from)
  <2>1. t[1].from \in A
    BY <1>2, <1>8 DEF Located
  <2>2. QED
    BY <1>1, <1>5, <1>6, <1>7, <1>8, <2>1 DEF Located
<1>9. ASSUME t[1].op = "report"
      PROVE  KindOf(t[1].corrected) = k /\ Located(Tail(t), A \ {k}, "none")
  <2>1. KindOf(t[1].corrected) = k
    BY <1>2, <1>9 DEF Located
  <2>2. QED
    BY <1>1, <1>5, <1>6, <1>7, <1>9, <2>1 DEF Located
<1>10. ASSUME t[1].op \in {"clear", "next"} PROVE Located(Tail(t), A, "none")
  BY <1>1, <1>5, <1>6, <1>7, <1>10 DEF Located
<1>11. Head(t).op \notin {"typed", "eap"}
  BY <1>1, <1>2 DEF Located
<1>12. QED
  BY <1>1, <1>8, <1>9, <1>10, <1>11

-----------------------------------------------------------------------------
(* The poll_ functions. *)

(* Those that get the kinds right and report from the status they have read. *)
Counted == {"nothing", "i840", "i845", "i820", "i875", "i850", "i860", "iE7221",
            "amd751", "amd64", "iE7xxx", "iE7520"}

LEMMA RowsCounted ==
  ASSUME NEW c \in Rows, controllers[c].poll \notin Counted
  PROVE  c = "amd76x" \/ controllers[c].poll = "i440gx"
BY DEF Rows, controllers, Row, Counted

(* One report for both kinds.                                                *)
LEMMA OneReport ==
  ASSUME NEW s \in SUBSET Kinds, NEW b \in BOOLEAN, NEW bits \in SUBSET Kinds,
         s # {} => KindOf(b) \in s, s \subseteq bits
  PROVE  AccountsFor(When(s # {}, <<ReadLog("ce"), Report(b), ClearBits(bits)>>), s)
<1>1. CASE s = {}
  BY <1>1, NoReports DEF When
<1>2. CASE s # {}
  <2>1. "ce" \in Kinds /\ KindOf(b) \in bits /\ {KindOf(b)} \subseteq s
    BY <1>2 DEF Kinds
  <2>2. AccountsFor(<<ReadLog("ce"), Report(b), ClearBits(bits)>>, {KindOf(b)})
    BY <2>1, OneKind
  <2>3. QED
    BY <1>2, <2>1, <2>2, AccountsMore DEF When
<1>3. QED
  BY <1>1, <1>2

(* Both kinds one after the other, then the further ones.                    *)
LEMMA TwoReports ==
  ASSUME NEW s \in SUBSET Kinds, NEW l \in Kinds, NEW m \in Kinds,
         NEW a \in SUBSET Kinds, NEW b \in SUBSET Kinds, NEW nerr \in SUBSET Kinds,
         "ce" \in s => "ce" \in a, "ue" \in s => "ue" \in b
  PROVE  LET t == When("ce" \in s, <<ReadLog(l), Report(TRUE), ClearBits(a)>>)
             u == When("ue" \in s, <<ReadLog(m), Report(FALSE), ClearBits(b)>>)
             v == When(nerr # {}, <<ClearNext(nerr)>>)
         IN  /\ AccountsFor(t \o u, s) /\ AccountsFor((t \o u) \o v, s)
             /\ l = "ce" /\ m = "ue" => Located((t \o u) \o v, s, "none")
<1> DEFINE t == When("ce" \in s, <<ReadLog(l), Report(TRUE), ClearBits(a)>>)
           u == When("ue" \in s, <<ReadLog(m), Report(FALSE), ClearBits(b)>>)
           v == When(nerr # {}, <<ClearNext(nerr)>>)
           A == s \cap {"ce"}
           B == s \cap {"ue"}
<1>1. KindOf(TRUE) = "ce" /\ KindOf(FALSE) = "ue"
  BY DEF KindOf
<1>2. AccountsFor(t, A) /\ (l = "ce" => Located(t, A, "none"))
  BY <1>1, OneKindWhen
<1>3. AccountsFor(u, B) /\ (m = "ue" => Located(u, B, "none"))
  BY <1>1, OneKindWhen
<1>4. AccountsFor(v, {}) /\ Located(v, {}, "none")
  BY NoReports, OnlyClears DEF When
<1>5. /\ A \cap B = {} /\ A \cup B = s /\ (A \cup B) \cap {} = {} /\ s \cup {} = s /\ s \cap {} = {}
  BY DEF Kinds
<1> HIDE DEF t, u, v, A, B
<1>6. AccountsFor(t \o u, s)
  BY <1>2, <1>3, <1>5, BothAccount
<1>7. AccountsFor((t \o u) \o v, s)
  <2>1. AccountsFor((t \o u) \o v, s \cup {})
    BY <1>4, <1>5, <1>6, BothAccount
  <2>2. QED
    BY <1>5, <2>1
<1>8. ASSUME l = "ce", m = "ue" PROVE Located((t \o u) \o v, s, "none")
  <2>1. \A i \in 1 .. Len(t) : t[i].op = "report" => KindOf(t[i].corrected) \in A
    BY <1>2 DEF AccountsFor
  <2>2. Located(t \o u, A \cup B, "none")
    BY <1>2, <1>3, <1>5, <1>8, <2>1, BothLocate
  <2>3. \A i \in 1 .. Len(t \o u) : (t \o u)[i].op = "report" => KindOf((t \o u)[i].corrected) \in s
    BY <1>6 DEF AccountsFor
  <2>4. Located((t \o u) \o v, s \cup {}, "none")
    BY <1>4, <1>5, <2>2, <2>3, BothLocate
  <2>5. QED
    BY <1>5, <2>4
<1>9. QED
  BY <1>6, <1>7, <1>8 DEF t, u, v

LEMMA CountedPolls ==
  ASSUME NEW fn \in Counted, NEW s \in SUBSET Kinds, NEW nerr \in SUBSET Kinds
  PROVE  AccountsFor(Poll(fn, s, nerr), s)
<1>0. ASSUME NEW bits \in SUBSET Kinds, s \subseteq bits
      PROVE  AccountsFor(When(s # {}, <<ReadLog("ce"), Report(s = {"ce"}), ClearBits(bits)>>), s)
  <2> DEFINE b == s = {"ce"}
  <2>1. b \in BOOLEAN /\ (s # {} => KindOf(b) \in s)
    BY DEF KindOf, Kinds
  <2> HIDE DEF b
  <2>2. AccountsFor(When(s # {}, <<ReadLog("ce"), Report(b), ClearBits(bits)>>), s)
    BY <1>0, <2>1, OneReport
  <2>3. QED
    BY <2>2 DEF b
<1>1. CASE fn = "nothing"
  BY <1>1, NoReports DEF Poll
<1>2. CASE fn \in {"i840", "i845", "i820", "amd751"}
  <2>1. AccountsFor(When(s # {}, <<ReadLog("ce"), Report(s = {"ce"}), ClearBits(Kinds)>>), s)
    BY <1>0
  <2>2. QED
    BY <1>2, <2>1 DEF Poll, PollI840, PollI845, PollI820, PollAmd751
<1>3. CASE fn = "i875"
  <2>1. AccountsFor(When(s # {}, <<ReadLog("ce"), Report("ue" \notin s), ClearBits(Kinds)>>), s)
    BY OneReport DEF KindOf, Kinds
  <2>2. QED
    BY <1>3, <2>1 DEF Poll, PollI875
<1>4. /\ AccountsFor(When(s # {}, <<ReadLog("ce"), Report(s = {"ce"}), ClearBits(s)>>), s)
      /\ AccountsFor(PollI850(s), s)
  BY <1>0 DEF PollI850
<1>5. CASE fn \in {"i850", "i860"}
  BY <1>4, <1>5 DEF Poll, PollI860
<1>6. CASE fn = "iE7221"
  <2>1. AccountsFor(PollE7221(s), s)
    BY <1>4, OnlyClears DEF PollE7221
  <2>2. QED
    BY <1>6, <2>1 DEF Poll
<1>7. CASE fn = "amd64"
  <2>1. AccountsFor(PollAmd64(s), s)
    BY TwoReports DEF PollAmd64, Kinds
  <2>2. QED
    BY <1>7, <2>1 DEF Poll
<1>8. CASE fn = "iE7xxx"
  <2>1. AccountsFor(PollE7xxx(s, nerr), s)
    BY TwoReports DEF PollE7xxx, Kinds
  <2>2. QED
    BY <1>8, <2>1 DEF Poll
<1>9. CASE fn = "iE7520"
  <2>1. AccountsFor(PollE7520(s, nerr), s)
    BY TwoReports DEF PollE7520, Kinds
  <2>2. QED
    BY <1>9, <2>1 DEF Poll
<1>10. QED
  BY <1>1, <1>2, <1>3, <1>5, <1>6, <1>7, <1>8, <1>9 DEF Counted

LEMMA LocatingPolls ==
  ASSUME NEW fn \in {"iE7xxx", "iE7520"}, NEW s \in SUBSET Kinds, NEW nerr \in SUBSET Kinds
  PROVE  Located(Poll(fn, s, nerr), s, "none")
<1>1. CASE fn = "iE7xxx"
  <2>1. Located(PollE7xxx(s, nerr), s, "none")
    BY TwoReports DEF PollE7xxx, Kinds
  <2>2. QED
    BY <1>1, <2>1 DEF Poll
<1>2. CASE fn = "iE7520"
  <2>1. Located(PollE7520(s, nerr), s, "none")
    BY TwoReports DEF PollE7520, Kinds
  <2>2. QED
    BY <1>2, <2>1 DEF Poll
<1>3. QED
  BY <1>1, <1>2

-----------------------------------------------------------------------------
(* The errors that the registers hold. *)

Holds(reg) == \A k \in Kinds : reg[k] # 0 => reg[k] \in 1 .. n /\ kind[reg[k]] = k

Known ==
  /\ Registers
  /\ kind \in Seq(Kinds) /\ Len(kind) = n
  /\ Holds(status) /\ Holds(seen)
  /\ \A k \in Kinds : log[k] \in 0 .. n
  /\ TwoLogs(Device) => Holds(log)

(* What the controller does when it logs an error.                           *)
LEMMA Logging ==
  ASSUME Known, NEW k \in Kinds, LogError(k)
  PROVE  /\ n' = n + 1 /\ kind' \in Seq(Kinds) /\ Len(kind') = n'
         /\ \A e \in 1 .. n : kind'[e] = kind[e]
         /\ n' \in 1 .. n' /\ kind'[n'] = k
         /\ \A j \in Kinds : status'[j] = IF j = k /\ status[k] = 0 THEN n' ELSE status[j]
         /\ \A j \in Kinds : log'[j] \in {log[j], n'}
         /\ TwoLogs(Device) =>
              \A j \in Kinds : log'[j] = IF j = k /\ status[k] = 0 THEN n' ELSE log[j]
         /\ UNCHANGED <<machine, ctrl, poll, todo, seen, at, reports>>
<1>1. n' = n + 1 /\ kind' = Append(kind, k) /\ n \in Nat /\ kind \in Seq(Kinds) /\ Len(kind) = n
  BY DEF LogError, Known, Registers
<1>2. kind' \in Seq(Kinds) /\ Len(kind') = n' /\ \A e \in 1 .. n : kind'[e] = kind[e]
  BY <1>1
<1>3. n' \in 1 .. n' /\ kind'[n'] = k
  BY <1>1
<1>4. status \in [Kinds -> Nat] /\ log \in [Kinds -> Nat]
  BY DEF Known, Registers
<1>5. \A j \in Kinds : status'[j] = IF j = k /\ status[k] = 0 THEN n' ELSE status[j]
  BY <1>4 DEF LogError
<1>6. TwoLogs(Device) =>
        \A j \in Kinds : log'[j] = IF j = k /\ status[k] = 0 THEN n' ELSE log[j]
  BY <1>4 DEF LogError
<1>7. \A j \in Kinds : log'[j] \in {log[j], n'}
  BY <1>4 DEF LogError
<1>8. QED
  BY <1>1, <1>2, <1>3, <1>5, <1>6, <1>7 DEF LogError, locals

LEMMA KnownInit == Init => Known
<1> SUFFICES ASSUME Init PROVE Known
  OBVIOUS
<1>1. status = Clear /\ seen = Clear /\ log = Clear /\ n = 0 /\ kind = <<>>
  BY DEF Init
<1>2. \A k \in Kinds : Clear[k] = 0
  BY DEF Clear
<1>3. QED
  BY <1>1, <1>2, RegistersInit DEF Known, Holds

LEMMA KnownNext == Known /\ [Next]_vars => Known'
<1> SUFFICES ASSUME Known, [Next]_vars PROVE Known'
  OBVIOUS
<1>r. Registers'
  BY RegistersNext DEF Known
<1>d. UNCHANGED <<bridge, imc>> => TwoLogs(Device)' = TwoLogs(Device)
  BY DEF TwoLogs, Device
<1>1. ASSUME UNCHANGED <<bridge, imc, n, kind, log>>,
             \A k \in Kinds : status'[k] \in {0, status[k]},
             seen' \in {seen, status}
      PROVE  Known'
  <2>1. Holds(status)' /\ Holds(seen)'
    BY <1>1 DEF Known, Holds
  <2>2. TwoLogs(Device)' => Holds(log)'
    BY <1>1, <1>d DEF Known, Holds
  <2>3. QED
    BY <1>r, <1>1, <2>1, <2>2 DEF Known
<1>2. CASE PciInit \/ UNCHANGED vars \/ \E val \in -1 .. 1 : SetEccPolling(val)
  <2>1. UNCHANGED <<bridge, imc, n, kind, log, status, seen>>
    BY <1>2 DEF PciInit, SetEccPolling, vars, machine, hardware, locals
  <2>2. QED
    BY <1>1, <2>1 DEF Known
<1>3. CASE FindController
  <2>1. /\ UNCHANGED <<bridge, imc, n, kind, log, seen>> /\ status' \in {Clear, status}
    BY <1>3 DEF FindController, machine, locals
  <2>2. \A k \in Kinds : status'[k] \in {0, status[k]}
    BY <2>1 DEF Clear
  <2>3. QED
    BY <1>1, <2>1, <2>2 DEF Known
<1>4. CASE PollErrors
  <2>1. UNCHANGED <<bridge, imc, n, kind, log, status>> /\ seen' = status
    BY <1>4 DEF PollErrors, machine, hardware
  <2>2. QED
    BY <1>1, <2>1 DEF Known
<1>5. CASE PollReports \/ PollReportsTyped \/ PollClearsNext
  <2>1. UNCHANGED <<bridge, imc, n, kind, log, status, seen>>
    BY <1>5 DEF PollReports, PollReportsTyped, PollClearsNext, machine, hardware
  <2>2. QED
    BY <1>1, <2>1 DEF Known
<1>6. CASE PollClears
  <2>1. /\ UNCHANGED <<bridge, imc, n, kind, log, seen>>
        /\ status' = status \/ status' = Cleared(Head(todo).bits)
    BY <1>6 DEF PollClears, machine
  <2>2. \A k \in Kinds : status'[k] \in {0, status[k]}
    BY <2>1 DEF Cleared
  <2>3. QED
    BY <1>1, <2>1, <2>2 DEF Known
<1>7. CASE PollClearsLog
  <2>1. UNCHANGED <<bridge, imc, n, kind, seen, status>> /\ log' = Clear
    BY <1>7 DEF PollClearsLog, machine
  <2>2. \A k \in Kinds : log'[k] = 0
    BY <2>1 DEF Clear
  <2>3. Holds(status)' /\ Holds(seen)' /\ Holds(log)'
    BY <2>1, <2>2 DEF Known, Holds
  <2>4. QED
    BY <1>r, <2>1, <2>2, <2>3 DEF Known, Registers
<1>8. CASE PollReadsLog
  <2>1. UNCHANGED <<bridge, imc, n, kind, log, status, seen>>
    BY <1>8 DEF PollReadsLog, machine, hardware
  <2>2. QED
    BY <1>1, <1>8, <2>1 DEF Known
<1>9. ASSUME NEW k \in Kinds, LogError(k) PROVE Known'
  <2>1. /\ n' = n + 1 /\ kind' \in Seq(Kinds) /\ Len(kind') = n'
        /\ \A e \in 1 .. n : kind'[e] = kind[e]
        /\ n' \in 1 .. n' /\ kind'[n'] = k
        /\ \A j \in Kinds : status'[j] = IF j = k /\ status[k] = 0 THEN n' ELSE status[j]
        /\ \A j \in Kinds : log'[j] \in {log[j], n'}
        /\ TwoLogs(Device) =>
             \A j \in Kinds : log'[j] = IF j = k /\ status[k] = 0 THEN n' ELSE log[j]
        /\ UNCHANGED <<bridge, imc, seen>>
    BY <1>9, Logging DEF machine
  <2>2. n \in Nat
    BY DEF Known, Registers
  <2>3. Holds(status)' /\ Holds(seen)'
    BY <2>1, <2>2 DEF Known, Holds
  <2>4. ASSUME TwoLogs(Device)' PROVE Holds(log)'
    <3>1. TwoLogs(Device) /\ Holds(log)
      BY <1>d, <2>1, <2>4 DEF Known
    <3>2. QED
      BY <2>1, <2>2, <3>1 DEF Holds
  <2>5. \A j \in Kinds : log'[j] \in 0 .. n'
    BY <2>1, <2>2 DEF Known
  <2>6. QED
    BY <1>r, <2>1, <2>3, <2>4, <2>5 DEF Known
<1>10. QED
  BY <1>2, <1>3, <1>4, <1>5, <1>6, <1>7, <1>8, <1>9 DEF Next, Program

-----------------------------------------------------------------------------
(* As many reports as errors. *)

(* The error that each report stands for: one of its kind, and none twice.   *)
Matches(tok) ==
  /\ tok \in Seq(Nat) /\ Len(tok) = Len(reports)
  /\ reports \in Seq([error : Nat, corrected : BOOLEAN])
  /\ \A i \in 1 .. Len(tok) :
       /\ tok[i] \in 1 .. n
       /\ kind[tok[i]] = KindOf(reports[i].corrected)
       /\ \A j \in 1 .. Len(tok) : i # j => tok[i] # tok[j]

Matched == \E tok \in Seq(Nat) : Matches(tok)

LEMMA Invented ==
  ASSUME Known, Matched
  PROVE  /\ Cardinality(Reported(TRUE)) <= Cardinality(Logged("ce"))
         /\ Cardinality(Reported(FALSE)) <= Cardinality(Logged("ue"))
<1>1. PICK tok \in Seq(Nat) : Matches(tok)
  BY DEF Matched
<1>2. ASSUME NEW b \in BOOLEAN
      PROVE  Cardinality(Reported(b)) <= Cardinality(Logged(KindOf(b)))
  <2> DEFINE S == Reported(b)
             T == Logged(KindOf(b))
             f == [i \in S |-> tok[i]]
  <2>1. \A i \in S : i \in 1 .. Len(tok) /\ reports[i].corrected = b
    BY <1>1 DEF Matches, Reported
  <2>2. \A i \in S : f[i] \in T
    BY <1>1, <2>1 DEF Matches, Logged
  <2>3. \A i, j \in S : f[i] = f[j] => i = j
    BY <1>1, <2>1 DEF Matches
  <2>4. f \in [S -> T]
    BY <2>2
  <2>5. IsFiniteSet(T)
    <3>1. n \in Int /\ T \in SUBSET (1 .. n)
      BY DEF Known, Registers, Logged
    <3>2. IsFiniteSet(1 .. n)
      BY <3>1, FS_Interval
    <3>3. QED
      BY <3>1, <3>2, FS_Subset
  <2> HIDE DEF f, S, T
  <2>6. f \in Injection(S, T)
    BY <2>3, <2>4 DEF Injection, IsInjective
  <2>7. QED
    BY <2>5, <2>6, FS_Injection DEF S, T
<1>3. QED
  BY <1>2 DEF KindOf

(* One more report.                                                          *)
LEMMA OneMore ==
  ASSUME NEW tok, Matches(tok), NEW e \in 1 .. n, NEW b \in BOOLEAN, NEW a \in Nat,
         kind[e] = KindOf(b), n \in Nat, UNCHANGED <<n, kind>>,
         \A i \in 1 .. Len(tok) : tok[i] # e,
         reports' = Append(reports, [error |-> a, corrected |-> b])
  PROVE  Matches(Append(tok, e))'
<1> DEFINE new == Append(tok, e)
           R == [error : Nat, corrected : BOOLEAN]
           r == [error |-> a, corrected |-> b]
<1>1. r \in R /\ r.corrected = b
  OBVIOUS
<1>2. tok \in Seq(Nat) /\ reports \in Seq(R) /\ e \in Nat /\ Len(tok) = Len(reports)
  BY DEF Matches
<1> HIDE DEF r, R
<1>3. /\ new \in Seq(Nat) /\ Len(new) = Len(tok) + 1 /\ Len(tok) \in Nat
      /\ \A i \in 1 .. Len(tok) : new[i] = tok[i]
      /\ new[Len(tok) + 1] = e
  BY <1>2
<1>4. /\ reports' \in Seq(R) /\ Len(reports') = Len(reports) + 1
      /\ \A i \in 1 .. Len(reports) : reports'[i] = reports[i]
      /\ reports'[Len(reports) + 1] = r
  BY <1>1, <1>2 DEF r
<1> HIDE DEF new
<1>5. ASSUME NEW i \in 1 .. Len(new)
      PROVE  /\ new[i] \in 1 .. n'
             /\ kind'[new[i]] = KindOf(reports'[i].corrected)
             /\ \A j \in 1 .. Len(new) : i # j => new[i] # new[j]
  <2>1. CASE i \in 1 .. Len(tok)
    <3>1. new[i] = tok[i] /\ reports'[i] = reports[i]
      BY <1>2, <1>3, <1>4, <2>1
    <3>2. /\ new[i] \in 1 .. n'
          /\ kind'[new[i]] = KindOf(reports'[i].corrected)
      BY <2>1, <3>1 DEF Matches
    <3>3. ASSUME NEW j \in 1 .. Len(new), i # j PROVE new[i] # new[j]
      <4>1. CASE j \in 1 .. Len(tok)
        BY <1>3, <2>1, <3>1, <3>3, <4>1 DEF Matches
      <4>2. CASE j = Len(tok) + 1
        BY <1>3, <2>1, <3>1, <4>2
      <4>3. QED
        BY <1>3, <4>1, <4>2
    <3>4. QED
      BY <3>2, <3>3
  <2>2. CASE i = Len(tok) + 1
    <3>1. new[i] = e /\ reports'[i] = r
      BY <1>2, <1>3, <1>4, <2>2
    <3>2. ASSUME NEW j \in 1 .. Len(new), i # j PROVE new[i] # new[j]
      <4>1. j \in 1 .. Len(tok)
        BY <1>3, <2>2, <3>2
      <4>2. QED
        BY <1>3, <3>1, <4>1
    <3>3. kind'[new[i]] = KindOf(reports'[i].corrected)
      <4>1. kind' = kind /\ reports'[i].corrected = b
        BY <1>1, <3>1
      <4>2. QED
        BY <3>1, <4>1
    <3>4. new[i] \in 1 .. n'
      BY <3>1
    <3>5. QED
      BY <3>2, <3>3, <3>4
  <2>3. i \in 1 .. Len(tok) \/ i = Len(tok) + 1
    BY <1>3
  <2>4. QED
    BY <2>1, <2>2, <2>3
<1>6. new \in Seq(Nat) /\ Len(new) = Len(reports') /\ reports' \in Seq(R)
  BY <1>2, <1>3, <1>4
<1>7. QED
  BY <1>5, <1>6 DEF Matches, new, R

LEMMA StillMatches ==
  ASSUME NEW tok, Matches(tok), reports' = reports, n \in Nat, n' \in Nat, n <= n',
         \A e \in 1 .. n : kind'[e] = kind[e]
  PROVE  Matches(tok)'
<1>1. \A i \in 1 .. Len(tok) : tok[i] \in 1 .. n' /\ kind'[tok[i]] = kind[tok[i]]
  BY DEF Matches
<1>2. QED
  BY <1>1 DEF Matches

(* Which errors have been reported, and which of those that were seen are    *)
(* still to report.  A bit whose error has been reported will be cleared.    *)
Taken(tok) == {tok[i] : i \in 1 .. Len(tok)}
Due(tok) == {k \in Kinds : seen[k] # 0 /\ seen[k] \notin Taken(tok)}

Books(tok) ==
  /\ Matches(tok)
  /\ \A k \in Kinds : status[k] # 0 /\ status[k] \in Taken(tok) => Clearing(todo, k)
  /\ AccountsFor(todo, Due(tok))

CountedRow == index # "off" /\ controllers[index].poll \in Counted

Balanced == at \in Nat /\ \E tok \in Seq(Nat) : Books(tok)

CountInvariant == Known /\ (CountedRow => Balanced)

LEMMA CountNext == CountInvariant /\ [Next]_vars => CountInvariant'
<1> SUFFICES ASSUME CountInvariant, [Next]_vars, CountedRow' PROVE Balanced'
  BY KnownNext DEF CountInvariant
<1>k. Known /\ Registers /\ n \in Nat /\ Known'
  BY KnownNext DEF CountInvariant, Known, Registers
<1>1. CASE FindController
  <2>1. reports' = <<>> /\ todo' = <<>> /\ at' \in Nat
    BY <1>1, <1>k DEF FindController, Registers, locals
  <2>2. Matches(<<>>)'
    BY <2>1 DEF Matches
  <2>3. Books(<<>>)'
    BY <2>1, <2>2, NoReports DEF Books, Taken
  <2>4. \E tok \in Seq(Nat) : Books(tok)'
    <3>1. <<>> \in Seq(Nat)
      OBVIOUS
    <3>2. QED
      BY <2>3, <3>1
  <2>5. QED
    BY <2>1, <2>4 DEF Balanced
<1>2. CASE UNCHANGED <<index, bridge, imc>>
  <2>0. CountedRow /\ at \in Nat /\ ~Misses
    BY <1>2 DEF CountedRow, CountInvariant, Balanced, Misses, Counted
  <2>t. PICK tok \in Seq(Nat) : Books(tok)
    BY <2>0 DEF CountInvariant, Balanced
  <2>b. /\ Matches(tok)
        /\ \A k \in Kinds : status[k] # 0 /\ status[k] \in Taken(tok) => Clearing(todo, k)
        /\ AccountsFor(todo, Due(tok))
    BY <2>t DEF Books
  <2>1. ASSUME UNCHANGED <<n, kind, reports, seen>>, at' \in Nat,
               \A k \in Kinds : status'[k] \in {0, status[k]},
               \/ todo' = todo
               \/ /\ todo # <<>> /\ todo' = Tail(todo)
                  /\ Head(todo).op = "clear" => \A k \in Head(todo).bits : status'[k] = 0
        PROVE  Balanced'
    <3>1. Matches(tok)' /\ Due(tok)' = Due(tok)
      BY <1>k, <2>1, <2>b, StillMatches DEF Due
    <3>2. AccountsFor(todo', Due(tok))
      BY <2>1, <2>b, RestAccounts
    <3>3. ASSUME NEW k \in Kinds, status'[k] # 0, status'[k] \in Taken(tok)
          PROVE  Clearing(todo', k)
      <4>1. Clearing(todo, k)
        BY <2>1, <2>b, <3>3
      <4>2. QED
        BY <2>1, <2>b, <3>3, <4>1, RestAccounts
    <3>4. Books(tok)'
      BY <3>1, <3>2, <3>3 DEF Books, Taken
    <3>5. QED
      BY <2>1, <3>4 DEF Balanced
  <2>2. CASE PciInit \/ UNCHANGED vars \/ \E val \in -1 .. 1 : SetEccPolling(val)
    <3>1. UNCHANGED <<n, kind, reports, seen, at, status, todo>>
      BY <2>2 DEF PciInit, SetEccPolling, vars, hardware, locals
    <3>2. QED
      BY <2>0, <2>1, <3>1
  <2>3. CASE PollErrors
    <3>1. /\ todo = <<>> /\ todo' = Poll(controllers[index].poll, Seen(status), next)
          /\ seen' = status /\ UNCHANGED <<n, kind, reports, at, status>>
      BY <2>0, <2>3 DEF PollErrors, StatusRead, hardware
    <3>2. \A k \in Kinds : status[k] # 0 => status[k] \notin Taken(tok)
      BY <2>b, <3>1 DEF Clearing
    <3>3. Seen(status) = Due(tok)'
      BY <3>1, <3>2 DEF Seen, Due, Taken
    <3>4. AccountsFor(todo', Seen(status))
      BY <1>k, <2>0, <3>1, CountedPolls DEF CountedRow, Registers, Seen
    <3>5. Matches(tok)'
      BY <1>k, <2>b, <3>1, StillMatches
    <3>6. Books(tok)'
      BY <3>1, <3>2, <3>3, <3>4, <3>5 DEF Books, Taken
    <3>7. QED
      BY <2>0, <3>1, <3>6 DEF Balanced
  <2>4. CASE PollReadsLog
    <3>1. /\ todo # <<>> /\ Head(todo).op = "log" /\ todo' = Tail(todo)
          /\ at' = log[Head(todo).from]
          /\ UNCHANGED <<n, kind, reports, seen, status>>
      BY <2>4 DEF PollReadsLog, Step, hardware
    <3>2. Head(todo).from \in Kinds
      BY <2>b, <3>1, RestAccounts, OpFields
    <3>3. at' \in Nat
      BY <1>k, <3>1, <3>2 DEF Registers
    <3>4. QED
      BY <2>1, <3>1, <3>3
  <2>5. CASE PollReports
    <3>1. /\ todo # <<>> /\ Head(todo).op = "report" /\ todo' = Tail(todo)
          /\ reports' = Append(reports, [error |-> at, corrected |-> Head(todo).corrected])
          /\ UNCHANGED <<n, kind, seen, status, at>>
      BY <2>5 DEF PollReports, PrintEccErr, Step, hardware
    <3>2. LET b == Head(todo).corrected
              k == KindOf(b)
          IN  /\ b \in BOOLEAN /\ k \in Due(tok)
              /\ AccountsFor(todo', Due(tok) \ {k}) /\ Clearing(todo', k)
      BY <2>b, <3>1, RestAccounts, OpFields
    <3>3. PICK b \in BOOLEAN, k \in Kinds, e \in 1 .. n :
            /\ b = Head(todo).corrected /\ k = KindOf(b) /\ e = seen[k]
            /\ kind[e] = k /\ e \notin Taken(tok)
            /\ AccountsFor(todo', Due(tok) \ {k}) /\ Clearing(todo', k)
      BY <1>k, <3>2 DEF Due, Known, Holds
    <3> DEFINE new == Append(tok, e)
    <3>4. Matches(new)'
      <4>1. \A i \in 1 .. Len(tok) : tok[i] # e
        BY <3>3 DEF Taken
      <4>2. reports' = Append(reports, [error |-> at, corrected |-> b])
        BY <3>1, <3>3
      <4>3. QED
        BY <1>k, <2>0, <2>b, <3>1, <3>3, <4>1, <4>2, OneMore
    <3>5. Taken(new) = Taken(tok) \cup {e}
      <4>1. tok \in Seq(Nat) /\ e \in Nat
        BY <1>k, <2>b DEF Matches
      <4>2. /\ new \in Seq(Nat) /\ Len(new) = Len(tok) + 1 /\ Len(tok) \in Nat
            /\ \A i \in 1 .. Len(tok) : new[i] = tok[i]
            /\ new[Len(tok) + 1] = e
        BY <4>1
      <4> HIDE DEF new
      <4>3. Len(tok) + 1 \in 1 .. Len(new) /\ 1 .. Len(tok) \subseteq 1 .. Len(new)
        BY <4>2
      <4>4. \A i \in 1 .. Len(new) : i \in 1 .. Len(tok) \/ i = Len(tok) + 1
        BY <4>2
      <4>5. QED
        BY <4>2, <4>3, <4>4 DEF Taken
    <3>6. ASSUME NEW j \in Kinds, j # k, status[j] # 0 \/ seen[j] # 0
          PROVE  /\ status[j] # 0 => status[j] # e
                 /\ seen[j] # 0 => seen[j] # e
      BY <1>k, <3>3, <3>6 DEF Known, Holds
    <3>7. Due(tok) \ {k} \subseteq Due(new)'
      BY <3>1, <3>5, <3>6 DEF Due, Taken
    <3>8. AccountsFor(todo', Due(new)')
      BY <3>3, <3>7, AccountsMore
    <3>9. ASSUME NEW j \in Kinds, status'[j] # 0, status'[j] \in Taken(new)
          PROVE  Clearing(todo', j)
      <4>1. CASE j = k
        BY <3>3, <4>1
      <4>2. CASE j # k
        <5>1. status[j] \in Taken(tok)
          BY <3>1, <3>5, <3>6, <3>9, <4>2
        <5>2. Clearing(todo, j)
          BY <2>b, <3>1, <3>9, <5>1
        <5>3. QED
          BY <2>b, <3>1, <5>2, RestAccounts
      <4>3. QED
        BY <4>1, <4>2
    <3>10. new \in Seq(Nat)
      BY <3>4 DEF Matches
    <3>11. Books(new)'
      BY <3>4, <3>8, <3>9 DEF Books, Taken
    <3>12. QED
      BY <2>0, <3>1, <3>10, <3>11 DEF Balanced
  <2>6. CASE PollReportsTyped \/ PollClearsLog
    <3>1. todo # <<>> /\ Head(todo).op \in {"typed", "eap"}
      BY <2>6 DEF PollReportsTyped, PollClearsLog, Step
    <3>2. QED
      BY <2>b, <3>1, RestAccounts
  <2>7. CASE PollClears
    <3>1. /\ todo # <<>> /\ Head(todo).op = "clear" /\ todo' = Tail(todo)
          /\ status' = Cleared(Head(todo).bits)
          /\ UNCHANGED <<n, kind, reports, seen, at>>
      BY <2>0, <2>7 DEF PollClears, Step
    <3>2. Head(todo).bits \in SUBSET Kinds
      BY <2>b, <3>1, RestAccounts, OpFields
    <3>3. /\ \A k \in Kinds : status'[k] \in {0, status[k]}
          /\ \A k \in Head(todo).bits : status'[k] = 0
      BY <3>1, <3>2 DEF Cleared
    <3>4. QED
      BY <2>0, <2>1, <3>1, <3>3
  <2>8. CASE PollClearsNext
    <3>1. /\ todo # <<>> /\ Head(todo).op = "next" /\ todo' = Tail(todo)
          /\ UNCHANGED <<n, kind, reports, seen, at, status>>
      BY <2>8 DEF PollClearsNext, Step
    <3>2. QED
      BY <2>0, <2>1, <3>1
  <2>9. ASSUME NEW k \in Kinds, LogError(k) PROVE Balanced'
    <3>1. /\ n' = n + 1 /\ \A e \in 1 .. n : kind'[e] = kind[e]
          /\ \A j \in Kinds : status'[j] = IF j = k /\ status[k] = 0 THEN n' ELSE status[j]
          /\ UNCHANGED <<todo, seen, at, reports>>
      BY <1>k, <2>9, Logging
    <3>2. Matches(tok)'
      BY <1>k, <2>b, <3>1, StillMatches
    <3>3. n' \notin Taken(tok)
      BY <1>k, <2>b, <3>1 DEF Taken, Matches
    <3>4. \A j \in Kinds : status'[j] # 0 /\ status'[j] \in Taken(tok) => Clearing(todo', j)
      BY <2>b, <3>1, <3>3
    <3>5. AccountsFor(todo', Due(tok)')
      BY <2>b, <3>1 DEF Due
    <3>6. Books(tok)'
      BY <3>2, <3>4, <3>5 DEF Books, Taken
    <3>7. QED
      BY <2>0, <3>1, <3>6 DEF Balanced
  <2>10. QED
    <3>1. ~FindController
      BY <2>0 DEF FindController, CountedRow
    <3>2. QED
      BY <2>2, <2>3, <2>4, <2>5, <2>6, <2>7, <2>8, <2>9, <3>1 DEF Next, Program
<1>3. FindController \/ UNCHANGED <<index, bridge, imc>>
  BY DEF Next, Program, PciInit, PollErrors, PollReadsLog, PollReports, PollReportsTyped,
         PollClears, PollClearsNext, PollClearsLog, LogError, SetEccPolling, machine, ctrl, vars
<1>4. QED
  BY <1>1, <1>2, <1>3

-----------------------------------------------------------------------------
(* Reports of the error that they stand for. *)

(* What the reports say is the error that they stand for.                    *)
Genuine == \E tok \in Seq(Nat) : Matches(tok) /\ \A i \in 1 .. Len(tok) : tok[i] = reports[i].error

Unreported(e) == \A i \in 1 .. Len(reports) : reports[i].error # e

LEMMA GenuineReports ==
  ASSUME Genuine
  PROVE  /\ Matched
         /\ \A i \in 1 .. Len(reports) :
              /\ reports[i].error \in 1 .. n
              /\ kind[reports[i].error] = KindOf(reports[i].corrected)
              /\ \A h \in 1 .. Len(reports) : h # i => reports[h].error # reports[i].error
<1>1. PICK tok \in Seq(Nat) : Matches(tok) /\ \A i \in 1 .. Len(tok) : tok[i] = reports[i].error
  BY DEF Genuine
<1>2. Matched
  BY <1>1 DEF Matched
<1>3. /\ Len(tok) = Len(reports)
      /\ \A i \in 1 .. Len(tok) :
           /\ tok[i] \in 1 .. n
           /\ kind[tok[i]] = KindOf(reports[i].corrected)
           /\ \A j \in 1 .. Len(tok) : i # j => tok[i] # tok[j]
  BY <1>1 DEF Matches
<1>4. ASSUME NEW i \in 1 .. Len(reports)
      PROVE  /\ reports[i].error \in 1 .. n
             /\ kind[reports[i].error] = KindOf(reports[i].corrected)
             /\ \A h \in 1 .. Len(reports) : h # i => reports[h].error # reports[i].error
  <2>1. tok[i] = reports[i].error /\ \A h \in 1 .. Len(reports) : tok[h] = reports[h].error
    BY <1>1, <1>3
  <2>2. QED
    BY <1>3, <2>1
<1>5. QED
  BY <1>2, <1>4

(* Before the first one.                                                     *)
LEMMA GenuineNone == reports' = <<>> => Genuine' /\ \A e : Unreported(e)'
<1> SUFFICES ASSUME reports' = <<>> PROVE Genuine' /\ \A e : Unreported(e)'
  OBVIOUS
<1>1. PICK tok \in Seq(Nat) : tok = <<>>
  <2>1. <<>> \in Seq(Nat)
    OBVIOUS
  <2>2. QED
    BY <2>1
<1>2. Genuine'
  <2>1. Matches(tok)' /\ \A i \in 1 .. Len(tok) : tok[i] = reports'[i].error
    BY <1>1 DEF Matches
  <2>2. QED
    BY <2>1 DEF Genuine
<1>3. \A e : Unreported(e)'
  BY DEF Unreported
<1>4. QED
  BY <1>2, <1>3

LEMMA GenuineStill ==
  ASSUME reports' = reports, n \in Nat, n' \in Nat, n <= n', \A e \in 1 .. n : kind'[e] = kind[e]
  PROVE  /\ Genuine => Genuine'
         /\ \A e : Unreported(e)' <=> Unreported(e)
<1>1. ASSUME Genuine PROVE Genuine'
  <2>1. PICK tok \in Seq(Nat) : Matches(tok) /\ \A i \in 1 .. Len(tok) : tok[i] = reports[i].error
    BY <1>1 DEF Genuine
  <2>2. Matches(tok)'
    BY <2>1, StillMatches
  <2>3. QED
    BY <2>1, <2>2 DEF Genuine
<1>2. QED
  BY <1>1 DEF Unreported

LEMMA GenuineMore ==
  ASSUME Genuine, NEW e \in 1 .. n, NEW b \in BOOLEAN, Unreported(e), kind[e] = KindOf(b),
         n \in Nat, UNCHANGED <<n, kind>>,
         reports' = Append(reports, [error |-> e, corrected |-> b])
  PROVE  /\ Genuine'
         /\ \A d : Unreported(d) /\ d # e => Unreported(d)'
<1> DEFINE r == [error |-> e, corrected |-> b]
           R == [error : Nat, corrected : BOOLEAN]
<1>1. PICK tok \in Seq(Nat) : Matches(tok) /\ \A i \in 1 .. Len(tok) : tok[i] = reports[i].error
  BY DEF Genuine
<1>2. r \in R /\ r.error = e
  OBVIOUS
<1>3. reports \in Seq(R) /\ Len(tok) = Len(reports)
  BY <1>1 DEF Matches
<1> DEFINE new == Append(tok, e)
<1>4. Matches(new)'
  <2>1. \A i \in 1 .. Len(tok) : tok[i] # e
    BY <1>1, <1>3 DEF Unreported
  <2>2. e \in Nat
    OBVIOUS
  <2>3. QED
    BY <1>1, <2>1, <2>2, OneMore
<1> HIDE DEF r, R
<1>5. /\ reports' \in Seq(R) /\ Len(reports') = Len(reports) + 1 /\ Len(reports) \in Nat
      /\ \A i \in 1 .. Len(reports) : reports'[i] = reports[i]
      /\ reports'[Len(reports) + 1] = r
  BY <1>2, <1>3 DEF r
<1>6. /\ new \in Seq(Nat) /\ Len(new) = Len(tok) + 1
      /\ \A i \in 1 .. Len(tok) : new[i] = tok[i]
      /\ new[Len(tok) + 1] = e
  OBVIOUS
<1> HIDE DEF new
<1>7. \A i \in 1 .. Len(reports') : i \in 1 .. Len(reports) \/ i = Len(reports) + 1
  BY <1>5
<1>8. ASSUME NEW i \in 1 .. Len(new) PROVE new[i] = reports'[i].error
  <2>1. i \in 1 .. Len(tok) \/ i = Len(tok) + 1
    BY <1>6
  <2>2. CASE i \in 1 .. Len(tok)
    BY <1>1, <1>3, <1>5, <1>6, <2>2
  <2>3. CASE i = Len(tok) + 1
    BY <1>2, <1>3, <1>5, <1>6, <2>3
  <2>4. QED
    BY <2>1, <2>2, <2>3
<1>9. Genuine'
  BY <1>4, <1>6, <1>8 DEF Genuine
<1>10. ASSUME NEW d, Unreported(d), d # e PROVE Unreported(d)'
  BY <1>2, <1>5, <1>7, <1>10 DEF Unreported
<1>11. QED
  BY <1>9, <1>10

(* The i440GX: the location register keeps an unreported error until it is   *)
(* read, and is cleared after the report.                                    *)
GxSteps == PollI440gx({"ce"})
GxRow == index # "off" /\ controllers[index].poll = "i440gx"

GxOnce ==
  /\ at \in 0 .. n /\ Genuine
  /\ todo \in {<<>>, GxSteps, Tail(GxSteps), Tail(Tail(GxSteps)), Tail(Tail(Tail(GxSteps)))}
  /\ todo \in {<<>>, GxSteps} => Unreported(log["ce"])
  /\ todo = Tail(GxSteps) => Unreported(at)

GxInvariant == Known /\ (GxRow => GxOnce)

LEMMA GxLists ==
  LET x == ReadLog("ce")
      y == [op |-> "typed"]
      z == ClearBits(Kinds)
      w == [op |-> "eap"]
  IN  /\ GxSteps = <<x, y, z, w>> /\ Tail(GxSteps) = <<y, z, w>>
      /\ Tail(Tail(GxSteps)) = <<z, w>> /\ Tail(Tail(Tail(GxSteps))) = <<w>>
      /\ Tail(Tail(Tail(Tail(GxSteps)))) = <<>>
      /\ x.op = "log" /\ x.from = "ce" /\ y.op = "typed" /\ z.op = "clear" /\ w.op = "eap"
<1> DEFINE x == ReadLog("ce")
           y == [op |-> "typed"]
           z == ClearBits(Kinds)
           w == [op |-> "eap"]
<1>1. x.op = "log" /\ x.from = "ce" /\ y.op = "typed" /\ z.op = "clear" /\ w.op = "eap"
  BY DEF ReadLog, ClearBits
<1>2. GxSteps = <<x, y, z, w>>
  BY DEF GxSteps, PollI440gx, When
<1> HIDE DEF x, y, z, w
<1>3. /\ Tail(<<x, y, z, w>>) = <<y, z, w>> /\ Tail(<<y, z, w>>) = <<z, w>>
      /\ Tail(<<z, w>>) = <<w>> /\ Tail(<<w>>) = <<>>
  OBVIOUS
<1>4. QED
  BY <1>1, <1>2, <1>3 DEF x, y, z, w

(* Which step is next tells how many are left.                               *)
LEMMA GxNextStep ==
  ASSUME GxOnce, todo # <<>>
  PROVE  /\ Head(todo).op \in {"log", "typed", "clear", "eap"}
         /\ Head(todo).op = "log" =>
              todo = GxSteps /\ Head(todo).from = "ce" /\ Tail(todo) = Tail(GxSteps)
         /\ Head(todo).op = "typed" => todo = Tail(GxSteps)
         /\ Head(todo).op = "clear" => todo = Tail(Tail(GxSteps))
         /\ Head(todo).op = "eap" => Tail(todo) = <<>>
<1>1. todo \in {GxSteps, Tail(GxSteps), Tail(Tail(GxSteps)), Tail(Tail(Tail(GxSteps)))}
  BY DEF GxOnce
<1> DEFINE x == ReadLog("ce")
           y == [op |-> "typed"]
           z == ClearBits(Kinds)
           w == [op |-> "eap"]
<1>2. /\ GxSteps = <<x, y, z, w>> /\ Tail(GxSteps) = <<y, z, w>>
      /\ Tail(Tail(GxSteps)) = <<z, w>> /\ Tail(Tail(Tail(GxSteps))) = <<w>>
      /\ Tail(Tail(Tail(Tail(GxSteps)))) = <<>>
      /\ x.op = "log" /\ x.from = "ce" /\ y.op = "typed" /\ z.op = "clear" /\ w.op = "eap"
  BY GxLists
<1> HIDE DEF x, y, z, w
<1>3. /\ Head(<<x, y, z, w>>) = x /\ Head(<<y, z, w>>) = y /\ Head(<<z, w>>) = z /\ Head(<<w>>) = w
  OBVIOUS
<1>4. QED
  BY <1>1, <1>2, <1>3

LEMMA GxNext == GxInvariant /\ [Next]_vars => GxInvariant'
<1> SUFFICES ASSUME GxInvariant, [Next]_vars, GxRow' PROVE GxOnce'
  BY KnownNext DEF GxInvariant
<1>k. /\ Known /\ Registers /\ n \in Nat /\ "ce" \in Kinds
      /\ kind \in Seq(Kinds) /\ Len(kind) = n
      /\ \A j \in Kinds : log[j] \in 0 .. n
  BY DEF GxInvariant, Known, Registers, Kinds
<1>1. CASE FindController
  <2>1. reports' = <<>> /\ todo' = <<>> /\ at' = 0 /\ n' = n
    BY <1>1, <1>k DEF FindController, Registers, locals
  <2>2. Genuine' /\ \A e : Unreported(e)'
    BY <2>1, GenuineNone
  <2>4. todo' # Tail(GxSteps)
    BY <2>1, GxLists
  <2>5. QED
    BY <1>k, <2>1, <2>2, <2>4 DEF GxOnce
<1>2. CASE index' = index
  <2>0. GxRow /\ GxOnce
    BY <1>2 DEF GxRow, GxInvariant
  <2>s. /\ todo = <<>> => todo \notin {GxSteps, Tail(GxSteps)}
        /\ GxSteps # Tail(GxSteps) /\ <<>> # Tail(GxSteps)
        /\ Tail(Tail(GxSteps)) \notin {<<>>, GxSteps, Tail(GxSteps)}
        /\ Tail(Tail(Tail(GxSteps))) \notin {<<>>, GxSteps, Tail(GxSteps)}
    BY GxLists
  <2>1. ASSUME UNCHANGED <<n, kind, reports, at, log, todo>> PROVE GxOnce'
    <3>1. Genuine' /\ \A e : Unreported(e)' <=> Unreported(e)
      BY <1>k, <2>0, <2>1, GenuineStill DEF GxOnce
    <3>2. QED
      BY <2>0, <2>1, <3>1 DEF GxOnce
  <2>2. CASE PciInit \/ UNCHANGED vars \/ \E val \in -1 .. 1 : SetEccPolling(val)
    BY <2>1, <2>2 DEF PciInit, SetEccPolling, vars, hardware, locals
  <2>3. CASE PollErrors
    <3>1. /\ todo = <<>> /\ todo' = Poll("i440gx", StatusRead, next)
          /\ UNCHANGED <<n, kind, reports, at, log>>
      BY <2>0, <2>3 DEF PollErrors, hardware, GxRow
    <3>2. todo' \in {<<>>, GxSteps}
      BY <3>1 DEF Poll, PollI440gx, GxSteps, When
    <3>3. Genuine' /\ \A e : Unreported(e)' <=> Unreported(e)
      BY <1>k, <2>0, <3>1, GenuineStill DEF GxOnce
    <3>4. QED
      BY <2>0, <2>s, <3>1, <3>2, <3>3 DEF GxOnce
  <2>4. CASE PollReadsLog
    <3>1. /\ todo # <<>> /\ Head(todo).op = "log" /\ todo' = Tail(todo)
          /\ at' = log[Head(todo).from]
          /\ UNCHANGED <<n, kind, reports, log>>
      BY <2>4 DEF PollReadsLog, Step, hardware
    <3>2. todo = GxSteps /\ todo' = Tail(GxSteps) /\ at' = log["ce"]
      BY <2>0, <3>1, GxNextStep
    <3>3. Genuine' /\ \A e : Unreported(e)' <=> Unreported(e)
      BY <1>k, <2>0, <3>1, GenuineStill DEF GxOnce
    <3>4. at' \in 0 .. n'
      BY <1>k, <3>1, <3>2
    <3>5. QED
      BY <2>0, <2>s, <3>2, <3>3, <3>4 DEF GxOnce
  <2>5. CASE PollReportsTyped
    <3>1. /\ todo # <<>> /\ Head(todo).op = "typed" /\ todo' = Tail(todo)
          /\ UNCHANGED <<n, kind, log, at>>
          /\ IF at = 0 THEN reports' = reports
             ELSE reports' = Append(reports, [error |-> at, corrected |-> kind[at] = "ce"])
      BY <2>5 DEF PollReportsTyped, PrintEccErr, Step, hardware
    <3>2. todo' = Tail(Tail(GxSteps)) /\ Unreported(at)
      BY <2>0, <3>1, GxNextStep DEF GxOnce
    <3>3. CASE at = 0
      <4>1. Genuine'
        BY <1>k, <2>0, <3>1, <3>3, GenuineStill DEF GxOnce
      <4>2. QED
        BY <2>0, <2>s, <3>1, <3>2, <4>1 DEF GxOnce
    <3>4. CASE at # 0
      <4>1. PICK e \in 1 .. n, b \in BOOLEAN : e = at /\ b = (kind[at] = "ce")
        <5>1. at \in 1 .. n /\ (kind[at] = "ce") \in BOOLEAN
          BY <1>k, <2>0, <3>4 DEF GxOnce
        <5>2. QED
          BY <5>1
      <4>2. kind[e] = KindOf(b)
        <5>1. kind[e] \in Kinds
          BY <1>k
        <5>2. QED
          BY <4>1, <5>1 DEF Kinds, KindOf
      <4>3. Unreported(e) /\ reports' = Append(reports, [error |-> e, corrected |-> b])
        BY <3>1, <3>2, <3>4, <4>1
      <4>4. Genuine'
        BY <1>k, <2>0, <3>1, <4>2, <4>3, GenuineMore DEF GxOnce
      <4>5. QED
        BY <2>0, <2>s, <3>1, <3>2, <4>4 DEF GxOnce
    <3>5. QED
      BY <3>3, <3>4
  <2>6. CASE PollClears
    <3>1. /\ todo # <<>> /\ Head(todo).op = "clear" /\ todo' = Tail(todo)
          /\ UNCHANGED <<n, kind, reports, log, at>>
      BY <2>6 DEF PollClears, Step
    <3>2. todo' = Tail(Tail(Tail(GxSteps)))
      BY <2>0, <3>1, GxNextStep
    <3>3. Genuine'
      BY <1>k, <2>0, <3>1, GenuineStill DEF GxOnce
    <3>4. QED
      BY <2>0, <2>s, <3>1, <3>2, <3>3 DEF GxOnce
  <2>7. CASE PollClearsLog
    <3>1. /\ todo # <<>> /\ Head(todo).op = "eap" /\ todo' = Tail(todo) /\ log' = Clear
          /\ UNCHANGED <<n, kind, reports, at>>
      BY <2>7 DEF PollClearsLog, Step
    <3>2. todo' = <<>> /\ log'["ce"] = 0
      BY <1>k, <2>0, <3>1, GxNextStep DEF Clear
    <3>3. Genuine'
      BY <1>k, <2>0, <3>1, GenuineStill DEF GxOnce
    <3>4. Unreported(0)'
      <4>1. \A i \in 1 .. Len(reports) : reports[i].error \in 1 .. n
        BY <2>0, GenuineReports DEF GxOnce
      <4>2. QED
        BY <1>k, <3>1, <4>1 DEF Unreported
    <3>5. QED
      BY <2>0, <2>s, <3>1, <3>2, <3>3, <3>4 DEF GxOnce
  <2>8. CASE PollReports \/ PollClearsNext
    <3>1. todo # <<>> /\ Head(todo).op \in {"report", "next"}
      BY <2>8 DEF PollReports, PollClearsNext, Step
    <3>2. QED
      BY <2>0, <3>1, GxNextStep
  <2>9. ASSUME NEW k \in Kinds, LogError(k) PROVE GxOnce'
    <3>1. /\ n' = n + 1 /\ \A e \in 1 .. n : kind'[e] = kind[e]
          /\ \A j \in Kinds : log'[j] \in {log[j], n'}
          /\ UNCHANGED <<todo, at, reports>>
      BY <1>k, <2>9, Logging
    <3>2. Genuine' /\ \A e : Unreported(e)' <=> Unreported(e)
      BY <1>k, <2>0, <3>1, GenuineStill DEF GxOnce
    <3>3. Unreported(n')
      <4>1. \A i \in 1 .. Len(reports) : reports[i].error \in 1 .. n
        BY <2>0, GenuineReports DEF GxOnce
      <4>2. QED
        BY <1>k, <3>1, <4>1 DEF Unreported
    <3>4. Unreported(log["ce"]) => Unreported(log'["ce"])
      BY <1>k, <3>1, <3>3
    <3>5. at' \in 0 .. n'
      BY <1>k, <2>0, <3>1 DEF GxOnce
    <3>6. QED
      BY <2>0, <3>1, <3>2, <3>4, <3>5 DEF GxOnce
  <2>10. QED
    <3>1. ~FindController
      BY <2>0 DEF FindController, GxRow
    <3>2. QED
      BY <2>2, <2>3, <2>4, <2>5, <2>6, <2>7, <2>8, <2>9, <3>1 DEF Next, Program
<1>3. FindController \/ index' = index
  BY DEF Next, Program, PciInit, PollErrors, PollReadsLog, PollReports, PollReportsTyped,
         PollClears, PollClearsNext, PollClearsLog, LogError, SetEccPolling, ctrl, vars
<1>4. QED
  BY <1>1, <1>2, <1>3

-----------------------------------------------------------------------------
(* A location register for each kind. *)

TwoRow == index # "off" /\ index # "amd76x" /\ TwoLogs(index)

LEMMA TwoLogRows ==
  ASSUME NEW c \in Rows, c # "amd76x", TwoLogs(c)
  PROVE  /\ controllers[c].poll \in {"iE7xxx", "iE7520"}
         /\ controllers[c].setup \in {"iE7xxx", "iE7205", "iE7520"}
         /\ c \notin {"unknown", "failsafe"}
BY DEF Rows, controllers, Row, TwoLogs

(* The kinds whose register holds an error that is not reported yet, and the *)
(* kind of the location that has been read if it still is to be reported.    *)
Fetchable == {k \in Kinds : log[k] # 0 /\ Unreported(log[k])}
Held == IF at # 0 /\ Unreported(at) THEN kind[at] ELSE "none"

(* A bit that is set stands for an unreported error, or will be cleared.     *)
LocatedOnce ==
  /\ index = Device /\ at \in 0 .. n /\ Genuine
  /\ \A k \in Kinds : status[k] # 0 => k \in Fetchable \/ Clearing(todo, k)
  /\ Located(todo, Fetchable, Held)

LocationInvariant == CountInvariant /\ (TwoRow => LocatedOnce)

LEMMA LocationNext == LocationInvariant /\ [Next]_vars => LocationInvariant'
<1> SUFFICES ASSUME LocationInvariant, [Next]_vars, TwoRow' PROVE LocatedOnce'
  BY CountNext DEF LocationInvariant
<1>k. /\ Known /\ Registers /\ n \in Nat
      /\ kind \in Seq(Kinds) /\ Len(kind) = n
      /\ \A j \in Kinds : log[j] \in 0 .. n
      /\ CountInvariant /\ Known'
  BY KnownNext DEF LocationInvariant, CountInvariant, Known, Registers
<1>1. CASE FindController
  <2>1. reports' = <<>> /\ todo' = <<>> /\ at' = 0 /\ n' = n /\ UNCHANGED <<imc, bridge>>
    BY <1>1, <1>k DEF FindController, Registers, locals, machine
  <2>2. PICK fail_safe \in BOOLEAN, s \in BOOLEAN, f \in 0 .. 3 :
          /\ index' = Lookup(fail_safe)
          /\ status' = IF Setup(controllers[index'].setup, f, s).clears THEN Clear ELSE status
    BY <1>1 DEF FindController
  <2>3. /\ controllers[index'].setup \in {"iE7xxx", "iE7205", "iE7520"}
        /\ index' \notin {"unknown", "failsafe"}
    <3>1. index' \in Rows
      BY <1>k, <2>2, LookupRow
    <3>2. index' # "amd76x" /\ TwoLogs(index')
      BY DEF TwoRow, TwoLogs
    <3>3. QED
      BY <3>1, <3>2, TwoLogRows
  <2>4. index' = Device'
    BY <2>1, <2>2, <2>3 DEF Lookup, Device
  <2>5. \A k \in Kinds : status'[k] = 0
    BY <2>2, <2>3 DEF Setup, SetupE7xxx, SetupE7205, SetupE7520, Found, Clear
  <2>6. Genuine'
    BY <2>1, GenuineNone
  <2>7. Located(todo, Fetchable, Held)'
    BY <2>1, NoReports
  <2>8. QED
    BY <1>k, <2>1, <2>4, <2>5, <2>6, <2>7 DEF LocatedOnce
<1>2. CASE UNCHANGED <<index, bridge, imc>>
  <2>0. TwoRow /\ LocatedOnce /\ index' = Device'
    BY <1>2 DEF TwoRow, TwoLogs, LocationInvariant, LocatedOnce, Device
  <2>f. controllers[index].poll \in {"iE7xxx", "iE7520"}
    BY <1>k, <2>0, TwoLogRows DEF TwoRow, Registers
  <2>t. TwoLogs(Device) /\ Holds(log) /\ CountedRow /\ ~Misses
    BY <1>k, <2>0, <2>f DEF TwoRow, LocatedOnce, Known, CountedRow, Counted, Misses
  <2>a. PICK A : AccountsFor(todo, A)
    BY <1>k, <2>t DEF CountInvariant, Balanced, Books
  <2>l. Located(todo, Fetchable, Held) /\ Genuine
    BY <2>0 DEF LocatedOnce
  <2>1. ASSUME UNCHANGED <<n, kind, reports, log, at>>,
               \A k \in Kinds : status'[k] \in {0, status[k]},
               \/ todo' = todo
               \/ /\ todo # <<>> /\ todo' = Tail(todo) /\ Head(todo).op \in {"clear", "next"}
                  /\ Head(todo).op = "clear" => \A k \in Head(todo).bits : status'[k] = 0
        PROVE  LocatedOnce'
    <3>1. Genuine' /\ \A e : Unreported(e)' <=> Unreported(e)
      BY <1>k, <2>l, <2>1, GenuineStill
    <3>2. Fetchable' = Fetchable /\ Held' = Held
      BY <2>1, <3>1 DEF Fetchable, Held
    <3>3. Located(todo', Fetchable, Held)
      <4>1. CASE todo' = todo
        BY <2>l, <4>1
      <4>2. CASE todo # <<>> /\ todo' = Tail(todo) /\ Head(todo).op \in {"clear", "next"}
        <5>1. Located(todo', Fetchable, "none")
          BY <2>l, <4>2, RestLocated
        <5>2. QED
          BY <5>1, LocatedMore
      <4>3. QED
        BY <2>1, <4>1, <4>2
    <3>4. ASSUME NEW k \in Kinds, status'[k] # 0
          PROVE  k \in Fetchable \/ Clearing(todo', k)
      <4>1. CASE Clearing(todo, k)
        BY <2>1, <2>a, <3>4, <4>1, RestAccounts
      <4>2. QED
        BY <2>0, <2>1, <3>4, <4>1 DEF LocatedOnce
    <3>5. at' \in 0 .. n'
      BY <2>0, <2>1 DEF LocatedOnce
    <3>6. QED
      BY <2>0, <3>1, <3>2, <3>3, <3>4, <3>5 DEF LocatedOnce
  <2>2. CASE PciInit \/ UNCHANGED vars \/ \E val \in -1 .. 1 : SetEccPolling(val)
    <3>1. UNCHANGED <<n, kind, reports, log, at, status, todo>>
      BY <2>2 DEF PciInit, SetEccPolling, vars, hardware, locals
    <3>2. QED
      BY <2>1, <3>1
  <2>3. CASE PollErrors
    <3>1. /\ todo = <<>> /\ todo' = Poll(controllers[index].poll, Seen(status), next)
          /\ UNCHANGED <<n, kind, reports, log, at, status>>
      BY <2>t, <2>3 DEF PollErrors, StatusRead, hardware
    <3>2. Genuine' /\ \A e : Unreported(e)' <=> Unreported(e)
      BY <1>k, <2>l, <3>1, GenuineStill
    <3>3. Fetchable' = Fetchable /\ Held' = Held
      BY <3>1, <3>2 DEF Fetchable, Held
    <3>4. \A k \in Kinds : status[k] # 0 => k \in Fetchable
      BY <2>0, <3>1 DEF LocatedOnce, Clearing
    <3>5. Seen(status) \subseteq Fetchable /\ Seen(status) \in SUBSET Kinds
      BY <3>4 DEF Seen
    <3>6. Located(todo', Seen(status), "none")
      BY <1>k, <2>f, <3>1, <3>5, LocatingPolls DEF Registers
    <3>7. Located(todo', Fetchable, Held)
      BY <3>5, <3>6, LocatedMore
    <3>8. QED
      BY <2>0, <3>1, <3>2, <3>3, <3>4, <3>7 DEF LocatedOnce
  <2>4. CASE PollReadsLog
    <3>1. /\ todo # <<>> /\ Head(todo).op = "log" /\ todo' = Tail(todo)
          /\ at' = log[Head(todo).from]
          /\ UNCHANGED <<n, kind, reports, log, status>>
      BY <2>4 DEF PollReadsLog, Step, hardware
    <3>2. PICK k \in Fetchable :
            Head(todo).from = k /\ Located(todo', Fetchable \ {k}, k)
      BY <2>l, <3>1, RestLocated
    <3>3. k \in Kinds /\ at' = log[k] /\ at' \in 1 .. n /\ kind[at'] = k /\ Unreported(at')
      BY <2>t, <3>1, <3>2 DEF Fetchable, Holds
    <3>4. Genuine' /\ \A e : Unreported(e)' <=> Unreported(e)
      BY <1>k, <2>l, <3>1, GenuineStill
    <3>5. Fetchable' = Fetchable /\ Held' = k
      BY <3>1, <3>3, <3>4 DEF Fetchable, Held
    <3>6. Located(todo', Fetchable, k)
      BY <3>2, LocatedMore
    <3>7. ASSUME NEW j \in Kinds, status'[j] # 0
          PROVE  j \in Fetchable \/ Clearing(todo', j)
      <4>1. CASE Clearing(todo, j)
        BY <2>a, <3>1, <4>1, RestAccounts
      <4>2. QED
        BY <2>0, <3>1, <3>7, <4>1 DEF LocatedOnce
    <3>8. QED
      BY <2>0, <3>1, <3>3, <3>4, <3>5, <3>6, <3>7 DEF LocatedOnce
  <2>5. CASE PollReports
    <3>1. /\ todo # <<>> /\ Head(todo).op = "report" /\ todo' = Tail(todo)
          /\ reports' = Append(reports, [error |-> at, corrected |-> Head(todo).corrected])
          /\ UNCHANGED <<n, kind, status, log, at>>
      BY <2>5 DEF PollReports, PrintEccErr, Step, hardware
    <3>2. PICK b \in BOOLEAN, k \in Kinds :
            /\ b = Head(todo).corrected /\ KindOf(b) = k /\ k = Held
            /\ Located(todo', Fetchable \ {k}, "none") /\ Clearing(todo', k)
      <4>1. /\ KindOf(Head(todo).corrected) = Held
            /\ Located(todo', Fetchable \ {Held}, "none")
        <5>1. PICK h, F : h = Held /\ F = Fetchable
          OBVIOUS
        <5>2. Located(todo, F, h)
          BY <2>l, <5>1
        <5>3. KindOf(Head(todo).corrected) = h /\ Located(Tail(todo), F \ {h}, "none")
          BY <3>1, <5>2, RestLocated
        <5>4. QED
          BY <3>1, <5>1, <5>3
      <4>2. Head(todo).corrected \in BOOLEAN /\ Clearing(todo', KindOf(Head(todo).corrected))
        BY <2>a, <3>1, RestAccounts, OpFields
      <4>3. QED
        BY <4>1, <4>2, KindNames
    <3>3. PICK e \in 1 .. n : e = at /\ Unreported(e) /\ kind[e] = k
      <4>1. k # "none"
        BY DEF Kinds
      <4>2. at \in 0 .. n /\ at # 0 /\ Unreported(at) /\ kind[at] = k
        BY <2>0, <3>2, <4>1 DEF Held, LocatedOnce
      <4>3. at \in 1 .. n
        BY <1>k, <4>2
      <4>4. QED
        BY <4>2, <4>3
    <3>4. Genuine' /\ \A d : Unreported(d) /\ d # e => Unreported(d)'
      <4>1. reports' = Append(reports, [error |-> e, corrected |-> b])
        BY <3>1, <3>2, <3>3
      <4>2. QED
        BY <1>k, <2>l, <3>1, <3>2, <3>3, <4>1, GenuineMore
    <3>5. \A j \in Kinds : j # k /\ log[j] # 0 => log[j] # e
      BY <2>t, <3>3 DEF Holds
    <3>6. Fetchable \ {k} \subseteq Fetchable'
      BY <3>1, <3>4, <3>5 DEF Fetchable
    <3>7. Located(todo', Fetchable', Held')
      BY <3>2, <3>6, LocatedMore
    <3>8. ASSUME NEW j \in Kinds, status'[j] # 0
          PROVE  j \in Fetchable' \/ Clearing(todo', j)
      <4>1. CASE j = k
        BY <3>2, <4>1
      <4>2. CASE Clearing(todo, j)
        BY <2>a, <3>1, <4>2, RestAccounts
      <4>3. CASE j # k /\ j \in Fetchable
        BY <3>6, <4>3
      <4>4. QED
        BY <2>0, <3>1, <3>8, <4>1, <4>2, <4>3 DEF LocatedOnce
    <3>9. QED
      BY <2>0, <3>1, <3>4, <3>7, <3>8 DEF LocatedOnce
  <2>6. CASE PollReportsTyped \/ PollClearsLog
    <3>1. todo # <<>> /\ Head(todo).op \in {"typed", "eap"}
      BY <2>6 DEF PollReportsTyped, PollClearsLog, Step
    <3>2. QED
      BY <2>a, <3>1, RestAccounts
  <2>7. CASE PollClears
    <3>1. /\ todo # <<>> /\ Head(todo).op = "clear" /\ todo' = Tail(todo)
          /\ status' = Cleared(Head(todo).bits)
          /\ UNCHANGED <<n, kind, reports, log, at>>
      BY <2>t, <2>7 DEF PollClears, Step
    <3>2. Head(todo).bits \in SUBSET Kinds
      BY <2>a, <3>1, RestAccounts, OpFields
    <3>3. /\ \A k \in Kinds : status'[k] \in {0, status[k]}
          /\ \A k \in Head(todo).bits : status'[k] = 0
      BY <3>1, <3>2 DEF Cleared
    <3>4. QED
      BY <2>1, <3>1, <3>3
  <2>8. CASE PollClearsNext
    <3>1. /\ todo # <<>> /\ Head(todo).op = "next" /\ todo' = Tail(todo)
          /\ UNCHANGED <<n, kind, reports, log, at, status>>
      BY <2>8 DEF PollClearsNext, Step
    <3>2. QED
      BY <2>1, <3>1
  <2>9. ASSUME NEW k \in Kinds, LogError(k) PROVE LocatedOnce'
    <3>1. /\ n' = n + 1 /\ \A e \in 1 .. n : kind'[e] = kind[e]
          /\ \A j \in Kinds : status'[j] = IF j = k /\ status[k] = 0 THEN n' ELSE status[j]
          /\ \A j \in Kinds : log'[j] = IF j = k /\ status[k] = 0 THEN n' ELSE log[j]
          /\ UNCHANGED <<todo, at, reports>>
      BY <1>k, <2>t, <2>9, Logging
    <3>2. Genuine' /\ \A e : Unreported(e)' <=> Unreported(e)
      BY <1>k, <2>l, <3>1, GenuineStill
    <3>3. n' # 0 /\ Unreported(n')
      <4>1. \A i \in 1 .. Len(reports) : reports[i].error \in 1 .. n
        BY <2>l, GenuineReports
      <4>2. QED
        BY <1>k, <3>1, <4>1 DEF Unreported
    <3>4. Fetchable \subseteq Fetchable'
      BY <3>1, <3>2, <3>3 DEF Fetchable
    <3>5. status[k] = 0 => k \in Fetchable'
      BY <3>1, <3>2, <3>3 DEF Fetchable
    <3>6. Held' = Held
      <4>1. at # 0 => at \in 1 .. n
        BY <1>k, <2>0 DEF LocatedOnce
      <4>2. QED
        BY <3>1, <3>2, <4>1 DEF Held
    <3>7. Located(todo', Fetchable', Held')
      BY <2>l, <3>1, <3>4, <3>6, LocatedMore
    <3>8. \A j \in Kinds : status'[j] # 0 => j \in Fetchable' \/ Clearing(todo', j)
      BY <2>0, <3>1, <3>4, <3>5 DEF LocatedOnce
    <3>9. at' \in 0 .. n'
      BY <1>k, <2>0, <3>1 DEF LocatedOnce
    <3>10. QED
      BY <2>0, <3>2, <3>7, <3>8, <3>9 DEF LocatedOnce
  <2>10. QED
    <3>1. ~FindController
      BY <2>0 DEF FindController, TwoRow
    <3>2. QED
      BY <2>2, <2>3, <2>4, <2>5, <2>6, <2>7, <2>8, <2>9, <3>1 DEF Next, Program
<1>3. FindController \/ UNCHANGED <<index, bridge, imc>>
  BY DEF Next, Program, PciInit, PollErrors, PollReadsLog, PollReports, PollReportsTyped,
         PollClears, PollClearsNext, PollClearsLog, LogError, SetEccPolling, machine, ctrl, vars
<1>4. QED
  BY <1>1, <1>2, <1>3

-----------------------------------------------------------------------------
LEMMA RowsOffInit == Init => CountInvariant /\ LocationInvariant /\ GxInvariant
BY KnownInit DEF Init, CountInvariant, LocationInvariant, GxInvariant, CountedRow, TwoRow, GxRow

(* Of the E7500, E7505, E7205 and E7320 each report is of an error of its    *)
(* kind, and none is reported twice, whatever is logged during a poll.       *)
THEOREM LocationsRight == Spec => []RightLocation
<1>1. LocationInvariant => RightLocation
  <2> SUFFICES ASSUME LocationInvariant, TwoRow PROVE RightLocation
    BY DEF RightLocation, TwoRow
  <2>1. Genuine
    BY DEF LocationInvariant, LocatedOnce
  <2>2. DOMAIN reports = 1 .. Len(reports) /\ Len(reports) \in Nat
    BY <2>1 DEF Genuine, Matches
  <2>3. \A i \in 1 .. Len(reports) :
          /\ reports[i].error \in 1 .. n
          /\ kind[reports[i].error] = KindOf(reports[i].corrected)
          /\ \A h \in 1 .. Len(reports) : h # i => reports[h].error # reports[i].error
    BY <2>1, GenuineReports
  <2>4. ASSUME NEW i \in 1 .. Len(reports)
        PROVE  /\ reports[i].error # 0
               /\ kind[reports[i].error] = IF reports[i].corrected THEN "ce" ELSE "ue"
               /\ \A h \in 1 .. i - 1 : reports[h].error # reports[i].error
    <3>1. reports[i].error # 0
      BY <2>3
    <3>2. kind[reports[i].error] = IF reports[i].corrected THEN "ce" ELSE "ue"
      BY <2>3 DEF KindOf
    <3>3. ASSUME NEW h \in 1 .. i - 1 PROVE reports[h].error # reports[i].error
      <4>1. h \in 1 .. Len(reports) /\ h # i
        BY <2>2
      <4>2. QED
        BY <2>3, <4>1
    <3>4. QED
      BY <3>1, <3>2, <3>3
  <2>5. QED
    BY <2>2, <2>4 DEF RightLocation
<1>2. QED
  BY <1>1, RowsOffInit, LocationNext, PTL DEF Spec

(* No more errors of either kind are reported than the controller logged:    *)
(* every report of every poll function stands for an error of its own.       *)
THEOREM NoneInvented == Spec => []NothingInvented
<1>1. CountInvariant /\ GxInvariant => NothingInvented
  <2> SUFFICES ASSUME CountInvariant, GxInvariant, index # "amd76x" PROVE NothingInvented
    BY DEF NothingInvented
  <2>1. Known /\ index \in Rows \cup {"off"} /\ (index = "off" => reports = <<>>)
    BY DEF CountInvariant, Known, Registers
  <2>2. Matched
    <3>1. CASE index = "off"
      <4>1. <<>> \in Seq(Nat) /\ Matches(<<>>)
        BY <2>1, <3>1 DEF Matches
      <4>2. QED
        BY <4>1 DEF Matched
    <3>2. CASE CountedRow
      BY <3>2 DEF CountInvariant, Balanced, Books, Matched
    <3>3. CASE GxRow
      BY <3>3, GenuineReports DEF GxInvariant, GxOnce
    <3>4. QED
      BY <2>1, <3>1, <3>2, <3>3, RowsCounted DEF CountedRow, GxRow
  <2>3. QED
    BY <2>1, <2>2, Invented DEF NothingInvented
<1>2. QED
  BY <1>1, RowsOffInit, CountNext, GxNext, PTL DEF Spec
=============================================================================
