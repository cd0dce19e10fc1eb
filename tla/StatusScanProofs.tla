-------------------------- MODULE StatusScanProofs --------------------------
(***************************************************************************)
(* The tables of SwitchTable agree with the file, for every file, and a    *)
(* round of status queries asks for every register of every switch, and    *)
(* for none twice, for every file, address space and size of a query.      *)
(*                                                                         *)
(* The frames of these queries, and of commands: their CRC is the one of   *)
(* the polynomial for every sequence of bytes, and what the receiver reads *)
(* from their text is what was asked.                                      *)
(***************************************************************************)
EXTENDS StatusScan, DataProofs

-----------------------------------------------------------------------------
(* The switch table.                                                       *)

TableInv ==
  TableTypeOK /\ BoundsTight /\ ChannelsOfFile /\ EachPlcOnce /\ ListReversed /\ NamesOfFile

\* The switch that is read next is a switch.
LEMMA NextSwitch ==
  ASSUME TableTypeOK, pos < Len(switches)
  PROVE  /\ switches \in Seq(Switch)
         /\ pos + 1 \in DOMAIN switches /\ pos \in Nat
         /\ switches[pos + 1] \in Switch
<1>1. switches \in Seq(Switch) /\ pos \in Nat
  BY ConstantsAssumption DEF TableTypeOK
<1>2. pos + 1 \in 1 .. Len(switches)
  BY <1>1
<1> QED BY <1>1, <1>2

LEMMA ReportRegInReg == \A s \in Switch : ReportReg(s) \in Reg /\ s.plc \in Plc /\ s.name \in Name
BY DEF Switch, ReportReg, Reg

LEMMA RegInInt == ASSUME NEW r \in Reg PROVE r \in Int /\ 0 <= r /\ r <= MaxRegAddr
BY ConstantsAssumption DEF Reg

\* A pass of the loop keeps the types.
LEMMA ReadTypeOK == ASSUME TableTypeOK, ReadSwitch PROVE TableTypeOK'
<1> DEFINE s == switches[pos + 1]
           r == ReportReg(s)
<1>1. /\ switches \in Seq(Switch) /\ s \in Switch /\ r \in Reg
      /\ s.plc \in Plc /\ s.name \in Name /\ pos \in Nat
  BY NextSwitch, ReportRegInReg DEF ReadSwitch
<1>2. switches' \in File /\ pos' \in 0 .. Len(switches')
  BY <1>1 DEF ReadSwitch, TableTypeOK
<1>3. switch_list' \in Seq(Switch)
  BY <1>1 DEF ReadSwitch, TableTypeOK, AddSwitch
<1>4. plc_list' \in Seq(Plc)
  BY <1>1 DEF ReadSwitch, TableTypeOK, ListPlc
<1>5. reg2name' \in [Plc -> [Reg -> Name \cup {NULL}]]
  BY <1>1 DEF ReadSwitch, TableTypeOK, NameReg
<1>6. /\ first' \in [Plc -> [Size -> 0 .. MaxRegAddr + 1]]
      /\ last' \in [Plc -> [Size -> -1 .. MaxRegAddr]]
      /\ channel' \in [Plc -> [Size -> SUBSET Reg]]
  <2>1. CASE s.reg_len \in Size
    <3>1. r \in 0 .. MaxRegAddr + 1 /\ r \in -1 .. MaxRegAddr
      BY <1>1, RegInInt, ConstantsAssumption
    <3>2. MarkChannel(s.plc, s.reg_len, r)
      BY <2>1 DEF ReadSwitch
    <3> HIDE DEF s, r
    <3> QED BY <1>1, <2>1, <3>1, <3>2 DEF TableTypeOK, MarkChannel
  <2>2. CASE s.reg_len \notin Size
    BY <2>2 DEF ReadSwitch, TableTypeOK
  <2> QED BY <2>1, <2>2
<1> QED BY <1>2, <1>3, <1>4, <1>5, <1>6 DEF TableTypeOK

\* Widening the bounds by a register that is added keeps them tight.
LEMMA MarkTight ==
  ASSUME TableTypeOK, BoundsTight, NEW q \in Plc, NEW y \in Size, NEW r \in Reg, MarkChannel(q, y, r)
  PROVE  BoundsTight'
<1> SUFFICES ASSUME NEW p \in Plc, NEW z \in Size
             PROVE  IF channel'[p][z] = {}
                    THEN first'[p][z] = MaxRegAddr + 1 /\ last'[p][z] = -1
                    ELSE /\ first'[p][z] \in channel'[p][z] /\ last'[p][z] \in channel'[p][z]
                         /\ \A x \in channel'[p][z] : first'[p][z] <= x /\ x <= last'[p][z]
  BY DEF BoundsTight
<1>1. /\ first[p][z] \in 0 .. MaxRegAddr + 1 /\ last[p][z] \in -1 .. MaxRegAddr
      /\ channel[p][z] \subseteq Reg
  BY DEF TableTypeOK
<1>2. CASE p = q /\ z = y
  <2>1. /\ channel'[p][z] = channel[p][z] \cup {r}
        /\ first'[p][z] = IF r <= first[p][z] THEN r ELSE first[p][z]
        /\ last'[p][z] = IF r >= last[p][z] THEN r ELSE last[p][z]
    BY <1>2 DEF MarkChannel, TableTypeOK
  <2>2. r \in Int /\ 0 <= r /\ r <= MaxRegAddr
    BY RegInInt
  <2>3. \A x \in channel[p][z] : x \in Int /\ first[p][z] <= x /\ x <= last[p][z]
    BY <1>1, RegInInt DEF BoundsTight
  <2>4. CASE channel[p][z] = {}
    BY <2>1, <2>2, <2>4, ConstantsAssumption DEF BoundsTight
  <2>5. CASE channel[p][z] # {}
    <3>1. first[p][z] \in channel[p][z] /\ last[p][z] \in channel[p][z]
      BY <2>5 DEF BoundsTight
    <3> QED BY <1>1, <2>1, <2>2, <2>3, <3>1, ConstantsAssumption
  <2> QED BY <2>4, <2>5
<1>3. CASE ~ (p = q /\ z = y)
  <2>1. channel'[p][z] = channel[p][z] /\ first'[p][z] = first[p][z] /\ last'[p][z] = last[p][z]
    BY <1>3 DEF MarkChannel, TableTypeOK
  <2> QED BY <2>1 DEF BoundsTight
<1> QED BY <1>2, <1>3

LEMMA ReadTight == ASSUME TableTypeOK, BoundsTight, ReadSwitch PROVE BoundsTight'
<1> DEFINE s == switches[pos + 1]
<1>1. s \in Switch /\ s.plc \in Plc /\ ReportReg(s) \in Reg
  BY NextSwitch, ReportRegInReg DEF ReadSwitch
<1>2. CASE s.reg_len \in Size
  <2>1. MarkChannel(s.plc, s.reg_len, ReportReg(s))
    BY <1>2 DEF ReadSwitch
  <2> QED BY <1>1, <1>2, <2>1, MarkTight
<1>3. CASE s.reg_len \notin Size
  BY <1>3 DEF ReadSwitch, BoundsTight
<1> QED BY <1>2, <1>3

LEMMA ReadChannels == ASSUME TableTypeOK, ChannelsOfFile, ReadSwitch PROVE ChannelsOfFile'
<1> DEFINE s == switches[pos + 1]
           Of(n, p, z) == {ReportReg(switches[k]) : k \in {i \in 1 .. n : switches[i].plc = p /\ switches[i].reg_len = z}}
<1>1. s \in Switch /\ s.plc \in Plc /\ pos \in Nat /\ pos' = pos + 1 /\ switches' = switches
  BY NextSwitch, ReportRegInReg DEF ReadSwitch
<1> SUFFICES ASSUME NEW p \in Plc, NEW z \in Size PROVE channel'[p][z] = Of(pos + 1, p, z)
  BY <1>1 DEF ChannelsOfFile, Done
<1>2. channel[p][z] = Of(pos, p, z)
  BY DEF ChannelsOfFile, Done
<1>3. 1 .. (pos + 1) = (1 .. pos) \cup {pos + 1}
  BY <1>1
<1>4. CASE p = s.plc /\ z = s.reg_len
  <2>1. channel'[p][z] = channel[p][z] \cup {ReportReg(s)}
    BY <1>1, <1>4 DEF ReadSwitch, MarkChannel, TableTypeOK
  <2>2. Of(pos + 1, p, z) = Of(pos, p, z) \cup {ReportReg(s)}
    BY <1>3, <1>4
  <2> QED BY <1>2, <2>1, <2>2
<1>5. CASE ~ (p = s.plc /\ z = s.reg_len)
  <2>1. channel'[p][z] = channel[p][z]
    <3>1. CASE s.reg_len \in Size
      <4>1. channel' = [channel EXCEPT ![s.plc][s.reg_len] = @ \cup {ReportReg(s)}]
        BY <3>1 DEF ReadSwitch, MarkChannel
      <4>2. channel \in [Plc -> [Size -> SUBSET Reg]]
        BY DEF TableTypeOK
      <4> HIDE DEF s
      <4> QED BY <1>1, <1>5, <3>1, <4>1, <4>2
    <3>2. CASE s.reg_len \notin Size
      BY <3>2 DEF ReadSwitch
    <3> QED BY <3>1, <3>2
  <2>2. Of(pos + 1, p, z) = Of(pos, p, z)
    BY <1>3, <1>5
  <2> QED BY <1>2, <2>1, <2>2
<1> QED BY <1>4, <1>5

LEMMA ReadPlcs == ASSUME TableTypeOK, EachPlcOnce, ReadSwitch PROVE EachPlcOnce'
<1> DEFINE s == switches[pos + 1]
<1>1. s \in Switch /\ s.plc \in Plc /\ pos \in Nat /\ pos' = pos + 1 /\ switches' = switches
  BY NextSwitch, ReportRegInReg DEF ReadSwitch
<1>2. {switches[k].plc : k \in Done}' = {switches[k].plc : k \in Done} \cup {s.plc}
  <2>1. Done' = Done \cup {pos + 1}
    BY <1>1 DEF Done
  <2> QED BY <1>1, <2>1
<1>3. CASE s.plc \in Range(plc_list)
  <2>1. plc_list' = plc_list
    BY <1>3 DEF ReadSwitch, ListPlc
  <2> QED BY <1>2, <1>3, <2>1 DEF EachPlcOnce
<1>4. CASE s.plc \notin Range(plc_list)
  <2>0. plc_list \in Seq(Plc)
    BY DEF TableTypeOK
  <2>1. plc_list' = <<s.plc>> \o plc_list
    BY <1>4 DEF ReadSwitch, ListPlc
  <2> HIDE DEF s
  <2>2. /\ Len(plc_list') = Len(plc_list) + 1
        /\ plc_list'[1] = s.plc
        /\ \A i \in 1 .. Len(plc_list) : plc_list'[i + 1] = plc_list[i]
    BY <1>1, <2>0, <2>1
  <2>3. DOMAIN plc_list' = 1 .. Len(plc_list) + 1 /\ DOMAIN plc_list = 1 .. Len(plc_list)
    BY <1>1, <2>0, <2>1
  <2>4. \A i \in DOMAIN plc_list' : i # 1 => i - 1 \in DOMAIN plc_list /\ plc_list'[i] = plc_list[i - 1]
    BY <2>0, <2>2, <2>3
  <2>5. Range(plc_list') = Range(plc_list) \cup {s.plc}
    <3>1. \A x \in Range(plc_list') : x \in Range(plc_list) \cup {s.plc}
      BY <2>2, <2>4 DEF Range
    <3>2. \A x \in Range(plc_list) : x \in Range(plc_list')
      <4> SUFFICES ASSUME NEW i \in DOMAIN plc_list PROVE plc_list[i] \in Range(plc_list')
        BY DEF Range
      <4>1. i + 1 \in DOMAIN plc_list' /\ plc_list'[i + 1] = plc_list[i]
        BY <2>0, <2>2, <2>3
      <4> QED BY <4>1 DEF Range
    <3>3. s.plc \in Range(plc_list')
      <4>1. 1 \in DOMAIN plc_list'
        BY <2>0, <2>3
      <4> QED BY <4>1, <2>2 DEF Range
    <3> QED BY <3>1, <3>2, <3>3
  <2>6. \A i, j \in DOMAIN plc_list' : i # j => plc_list'[i] # plc_list'[j]
    <3> SUFFICES ASSUME NEW i \in DOMAIN plc_list', NEW j \in DOMAIN plc_list', i # j,
                        plc_list'[i] = plc_list'[j]
                 PROVE  FALSE
      OBVIOUS
    <3>1. CASE i = 1
      BY <1>4, <2>2, <2>4, <3>1 DEF Range
    <3>2. CASE j = 1
      BY <1>4, <2>2, <2>4, <3>2 DEF Range
    <3>3. CASE i # 1 /\ j # 1
      BY <2>3, <2>4, <3>3 DEF EachPlcOnce
    <3> QED BY <3>1, <3>2, <3>3
  <2> QED BY <1>2, <2>5, <2>6 DEF EachPlcOnce
<1> QED BY <1>3, <1>4

LEMMA ReadList == ASSUME TableTypeOK, ListReversed, ReadSwitch PROVE ListReversed'
<1> DEFINE s == switches[pos + 1]
<1>1. s \in Switch /\ pos \in Nat /\ pos' = pos + 1 /\ switches' = switches
  BY NextSwitch DEF ReadSwitch
<1>2. switch_list \in Seq(Switch) /\ switch_list' = <<s>> \o switch_list
  BY DEF ReadSwitch, AddSwitch, TableTypeOK
<1> HIDE DEF s
<1>3. /\ Len(switch_list') = Len(switch_list) + 1
      /\ switch_list'[1] = s
      /\ \A i \in 2 .. Len(switch_list) + 1 : switch_list'[i] = switch_list[i - 1]
  BY <1>1, <1>2
<1> SUFFICES ASSUME NEW i \in 1 .. pos + 1 PROVE switch_list'[i] = switches[pos + 1 + 1 - i]
  BY <1>1, <1>3 DEF ListReversed, Done
<1>4. CASE i = 1
  BY <1>1, <1>3, <1>4 DEF s
<1>5. CASE i # 1
  <2>1. i - 1 \in 1 .. pos /\ i \in 2 .. pos + 1 /\ pos + 1 - (i - 1) = pos + 1 + 1 - i
    BY <1>1, <1>5
  <2> QED BY <1>3, <2>1 DEF ListReversed, Done
<1> QED BY <1>4, <1>5

LEMMA ReadNames == ASSUME TableTypeOK, NamesOfFile, ReadSwitch PROVE NamesOfFile'
<1> DEFINE s == switches[pos + 1]
           Same(j, k) == switches[j].plc = switches[k].plc /\ ReportReg(switches[j]) = ReportReg(switches[k])
<1>1. /\ s \in Switch /\ s.plc \in Plc /\ ReportReg(s) \in Reg
      /\ pos \in Nat /\ pos' = pos + 1 /\ switches' = switches
      /\ switches \in Seq(Switch) /\ pos < Len(switches)
  BY NextSwitch, ReportRegInReg DEF ReadSwitch
<1>2. reg2name' = [reg2name EXCEPT ![s.plc][ReportReg(s)] = s.name] /\ reg2name \in [Plc -> [Reg -> Name \cup {NULL}]]
  BY DEF ReadSwitch, NameReg, TableTypeOK
<1> SUFFICES ASSUME NEW k \in 1 .. pos + 1, \A j \in 1 .. pos + 1 : j > k => ~ Same(j, k)
             PROVE  reg2name'[switches[k].plc][ReportReg(switches[k])] = switches[k].name
  BY <1>1 DEF NamesOfFile, Done
<1>3. CASE k = pos + 1
  BY <1>1, <1>2, <1>3
<1>4. CASE k # pos + 1
  <2>1. k \in 1 .. pos /\ pos + 1 > k /\ k \in 1 .. Len(switches)
    BY <1>1, <1>4
  <2>2. switches[k].plc \in Plc /\ ReportReg(switches[k]) \in Reg
    BY <1>1, <2>1, ReportRegInReg
  <2>3. ~ Same(pos + 1, k)
    BY <1>1, <2>1
  <2>4. reg2name'[switches[k].plc][ReportReg(switches[k])] = reg2name[switches[k].plc][ReportReg(switches[k])]
    <3>1. ~ (s.plc = switches[k].plc /\ ReportReg(s) = ReportReg(switches[k]))
      BY <2>3
    <3> HIDE DEF s
    <3> QED BY <1>1, <1>2, <2>2, <3>1
  <2>5. \A j \in 1 .. pos : j > k => ~ Same(j, k)
    BY <1>1
  <2> QED BY <2>1, <2>4, <2>5 DEF NamesOfFile, Done
<1> QED BY <1>3, <1>4

\* The inductive step, cited where the tables are only a part of the state.
LEMMA ReadInv == ASSUME TableInv, ReadSwitch PROVE TableInv'
BY ReadTypeOK, ReadTight, ReadChannels, ReadPlcs, ReadList, ReadNames DEF TableInv

LEMMA TableInitInv == TableInit => TableInv
<1> SUFFICES ASSUME TableInit PROVE TableInv
  OBVIOUS
<1>1. switches \in Seq(Switch)
  BY ConstantsAssumption DEF TableInit
<1>2. TableTypeOK
  BY <1>1, ConstantsAssumption DEF TableInit, TableTypeOK, Size
<1>3. BoundsTight
  BY DEF TableInit, BoundsTight
<1>4. ChannelsOfFile
  BY DEF TableInit, ChannelsOfFile, Done
<1>5. EachPlcOnce
  BY DEF TableInit, EachPlcOnce, Done, Range
<1>6. ListReversed /\ NamesOfFile
  BY DEF TableInit, ListReversed, NamesOfFile, Done
<1> QED BY <1>2, <1>3, <1>4, <1>5, <1>6 DEF TableInv

LEMMA TableStutter == ASSUME TableInv, UNCHANGED tableVars PROVE TableInv'
<1>1. TableTypeOK'
  BY DEF TableInv, tableVars, plcVars, TableTypeOK
<1>2. BoundsTight'
  BY DEF TableInv, tableVars, plcVars, BoundsTight
<1>3. ChannelsOfFile'
  BY DEF TableInv, tableVars, plcVars, ChannelsOfFile, Done
<1>4. EachPlcOnce'
  BY DEF TableInv, tableVars, plcVars, EachPlcOnce, Done
<1>5. ListReversed'
  BY DEF TableInv, tableVars, plcVars, ListReversed, Done
<1>6. NamesOfFile'
  BY DEF TableInv, tableVars, plcVars, NamesOfFile, Done
<1> QED BY <1>1, <1>2, <1>3, <1>4, <1>5, <1>6 DEF TableInv

\* The set of members below the least one is minimal among all such sets.
LEMMA LeastProperties ==
  ASSUME NEW n \in Nat, NEW S, S \subseteq 0 .. n, S # {}
  PROVE  Least(S) \in S /\ \A y \in S : Least(S) <= y
<1> DEFINE Smaller(x) == {y \in S : y < x}
           T == {Smaller(x) : x \in S}
<1>1. IsFiniteSet(S)
  <2>1. IsFiniteSet(0 .. n)
    BY FS_Interval
  <2> QED BY <2>1, FS_Subset
<1>2. T \subseteq SUBSET S /\ T # {}
  OBVIOUS
<1>3. PICK B \in T : \A C \in T : ~ (<<C, B>> \in StrictSubsetOrdering(S))
  <2>1. IsWellFoundedOn(StrictSubsetOrdering(S), SUBSET S)
    BY <1>1, FS_StrictSubsetOrderingWellFounded, FS_FiniteSubsetsOfFinite
  <2> QED BY <2>1, <1>2, WFMin
<1>4. PICK x \in S : B = Smaller(x)
  OBVIOUS
<1>5. \A y \in S : x <= y
  <2> SUFFICES ASSUME NEW y \in S, y < x PROVE FALSE
    OBVIOUS
  <2>0. \A z \in S : z \in Int
    OBVIOUS
  <2>1. y \in Smaller(x) /\ y \notin Smaller(y)
    BY <2>0
  <2>3. \A z \in Smaller(y) : z \in Smaller(x)
    <3> SUFFICES ASSUME NEW z \in S, z < y PROVE z < x
      OBVIOUS
    <3> QED BY <2>0
  <2>2. <<Smaller(y), B>> \in StrictSubsetOrdering(S)
    BY <1>4, <2>1, <2>3 DEF StrictSubsetOrdering
  <2> QED BY <1>3, <2>2
<1> QED BY <1>5 DEF Least

\* The first node of a name in the list is the last switch of it in the file.
LEMMA FindsLast == TableInv => CommandsFindLastDefinition
<1> SUFFICES ASSUME TableInv, NEW name \in Name
             PROVE  LET defs == {k \in Done : switches[k].name = name}
                    IN get_switch_node(name) =
                         IF defs = {} THEN NULL
                         ELSE switches[CHOOSE k \in defs : \A j \in defs : j <= k]
  BY DEF CommandsFindLastDefinition
<1> DEFINE defs == {k \in Done : switches[k].name = name}
           found == {i \in DOMAIN switch_list : switch_list[i].name = name}
<1>1. /\ pos \in Nat /\ DOMAIN switch_list = 1 .. pos /\ Done = 1 .. pos
      /\ \A i \in 1 .. pos : switch_list[i] = switches[pos + 1 - i]
  BY ConstantsAssumption DEF TableInv, TableTypeOK, ListReversed, Done
<1>2. \A i \in 1 .. pos : i \in found <=> pos + 1 - i \in defs
  BY <1>1
<1>3. \A k \in defs : k \in 1 .. pos /\ pos + 1 - k \in found
  <2> SUFFICES ASSUME NEW k \in defs PROVE k \in 1 .. pos /\ pos + 1 - k \in found
    OBVIOUS
  <2>1. k \in 1 .. pos /\ pos + 1 - k \in 1 .. pos /\ pos + 1 - (pos + 1 - k) = k
    BY <1>1
  <2> QED BY <1>2, <2>1
<1>4. get_switch_node(name) = IF found = {} THEN NULL ELSE switch_list[Least(found)]
  BY DEF get_switch_node
<1>5. found \subseteq 1 .. pos /\ found \subseteq 0 .. pos
  BY <1>1
<1> HIDE DEF defs, found
<1>6. CASE found = {}
  <2>1. defs = {}
    BY <1>3, <1>6
  <2> QED BY <1>4, <1>6, <2>1 DEF defs
<1>7. CASE found # {}
  <2> DEFINE m == Least(found)
  <2>1. m \in found /\ \A y \in found : m <= y
    BY <1>1, <1>5, <1>7, LeastProperties
  <2> HIDE DEF m
  <2>2. m \in 1 .. pos /\ pos + 1 - m \in defs
    BY <1>2, <1>5, <2>1
  <2>3. \A j \in defs : j <= pos + 1 - m
    BY <1>1, <1>3, <2>1, <2>2
  <2>4. \A k \in defs : (\A j \in defs : j <= k) => k = pos + 1 - m
    BY <1>1, <1>3, <2>2, <2>3
  <2>5. (CHOOSE k \in defs : \A j \in defs : j <= k) = pos + 1 - m
    BY <2>2, <2>3, <2>4
  <2>6. defs # {} /\ switch_list[m] = switches[pos + 1 - m]
    BY <1>1, <2>2
  <2> QED BY <1>4, <1>7, <2>5, <2>6 DEF defs, m
<1> QED BY <1>6, <1>7

\* With unique names and registers the two tables are inverse to each other.
LEMMA NamesAgree == TableInv => ReportsUnderCommandName
<1> SUFFICES ASSUME TableInv,
                    \A i, j \in Done : i # j =>
                      /\ switches[i].name # switches[j].name
                      /\ switches[i].plc = switches[j].plc => ReportReg(switches[i]) # ReportReg(switches[j]),
                    NEW k \in Done
             PROVE  /\ reg2name[switches[k].plc][ReportReg(switches[k])] = switches[k].name
                    /\ get_switch_node(switches[k].name) = switches[k]
  BY DEF ReportsUnderCommandName
<1>1. switches \in Seq(Switch) /\ pos \in 0 .. Len(switches) /\ Done = 1 .. pos
  BY ConstantsAssumption DEF TableInv, TableTypeOK, Done
<1>2. reg2name[switches[k].plc][ReportReg(switches[k])] = switches[k].name
  BY <1>1 DEF TableInv, NamesOfFile
<1>3. switches[k].name \in Name
  BY <1>1, ReportRegInReg
<1>4. get_switch_node(switches[k].name) = switches[k]
  <2> DEFINE defs == {j \in Done : switches[j].name = switches[k].name}
  <2>1. defs = {k}
    OBVIOUS
  <2>2. (CHOOSE i \in defs : \A j \in defs : j <= i) = k
    BY <1>1, <2>1
  <2> QED BY <1>3, <2>1, <2>2, FindsLast DEF CommandsFindLastDefinition
<1> QED BY <1>2, <1>4

\* For every file, the tables agree with the part of the file that is read: the
\* bounds are tight, the registers are those of the file, every PLC has one node.
THEOREM TableInvariance == TableSpec => []TableInv
<1>1. TableInv /\ [ReadSwitch]_tableVars => TableInv'
  BY ReadInv, TableStutter
<1> QED BY <1>1, TableInitInv, PTL DEF TableSpec

\* For every file, what the status query goes by is what the file says: tight
\* bounds, the registers in use, every PLC once.
THEOREM TablesMatchFile == TableSpec => []TablesOfFile
<1>1. TableInv => TablesOfFile
  BY DEF TableInv, TablesOfFile
<1> QED BY <1>1, TableInvariance, PTL

\* For every file a command goes to the last switch of its name.
THEOREM CommandsFindTheirSwitch == TableSpec => []CommandsFindLastDefinition
BY FindsLast, TableInvariance, PTL

\* For every file without duplicates a reply is reported under the name that
\* commands its switch.
THEOREM ReportsMatchCommands == TableSpec => []ReportsUnderCommandName
BY NamesAgree, TableInvariance, PTL

-----------------------------------------------------------------------------
(* The scan.                                                               *)

\* From a register in use, a run is not empty, fits in a query and is in use.
LEMMA RunEndProperties ==
  ASSUME NEW used \in SUBSET Reg, NEW r \in used
  PROVE  /\ RunEnd(used, r) \in r + 1 .. MaxRegAddr + 1
         /\ RunEnd(used, r) <= r + MaxRead
         /\ \A k \in r .. RunEnd(used, r) - 1 : k \in used
<1> DEFINE S == {i \in r .. MaxRegAddr + 1 : i > MaxRegAddr \/ i \notin used \/ i = r + MaxRead}
<1>1. r \in Int /\ 0 <= r /\ r <= MaxRegAddr /\ MaxRegAddr \in Nat /\ MaxRead \in Nat \ {0}
  BY RegInInt, ConstantsAssumption, ScanAssumption
<1>2. MaxRegAddr + 1 \in Nat /\ S \subseteq 0 .. MaxRegAddr + 1 /\ MaxRegAddr + 1 \in S
  BY <1>1
<1>3. Least(S) \in S /\ \A y \in S : Least(S) <= y
  BY <1>2, LeastProperties
<1>4. RunEnd(used, r) = Least(S)
  BY DEF RunEnd
<1>5. \A k \in r .. MaxRegAddr + 1 : k < Least(S) => k \in used /\ k # r + MaxRead
  <2> SUFFICES ASSUME NEW k \in r .. MaxRegAddr + 1, k < Least(S) PROVE k \in used /\ k # r + MaxRead
    OBVIOUS
  <2>1. k \notin S
    BY <1>1, <1>2, <1>3
  <2> QED BY <2>1
<1>6. r \notin S
  BY <1>1
<1> HIDE DEF S
<1>7. Least(S) \in r .. MaxRegAddr + 1 /\ Least(S) # r
  BY <1>3, <1>6 DEF S
<1> QED BY <1>1, <1>4, <1>5, <1>7

\* The search stops at the next register in use, or behind the last one.
LEMMA NextUsedProperties ==
  ASSUME NEW used \in SUBSET Reg, NEW i \in 0 .. MaxRegAddr + 1
  PROVE  /\ NextUsed(used, i) \in i .. MaxRegAddr + 1
         /\ NextUsed(used, i) <= MaxRegAddr => NextUsed(used, i) \in used
         /\ \A r \in used : i <= r => NextUsed(used, i) <= r
<1> DEFINE S == {r \in i .. MaxRegAddr + 1 : r > MaxRegAddr \/ r \in used}
<1>1. /\ S \subseteq 0 .. MaxRegAddr + 1 /\ MaxRegAddr + 1 \in S
      /\ MaxRegAddr \in Nat /\ MaxRegAddr + 1 \in Nat
  BY ConstantsAssumption
<1>2. Least(S) \in S /\ \A y \in S : Least(S) <= y
  BY <1>1, LeastProperties
<1>3. NextUsed(used, i) = Least(S)
  BY DEF NextUsed
<1>4. \A r \in used : i <= r => r \in S
  BY <1>1, RegInInt
<1>5. Least(S) \in i .. MaxRegAddr + 1 /\ (Least(S) <= MaxRegAddr => Least(S) \in used)
  BY <1>1, <1>2
<1> QED BY <1>2, <1>3, <1>4, <1>5

-----------------------------------------------------------------------------

IInv == TypeOK /\ TableInv /\ ScanInv /\ AskedSoFar /\ QueriesFit

LEMMA InitIInv == Init => IInv
<1> SUFFICES ASSUME Init PROVE IInv
  OBVIOUS
<1>1. TableInv
  BY TableInitInv DEF Init
<1>2. TypeOK
  BY <1>1, ConstantsAssumption, ScanAssumption DEF Init, TypeOK, TableInv, TableInit, Size
<1>3. ScanInv /\ AskedSoFar /\ QueriesFit
  BY DEF Init, ScanInv, AskedSoFar, QueriesFit
<1> QED BY <1>1, <1>2, <1>3 DEF IInv

\* Reading a switch only lets the list of PLCs grow.
LEMMA ParseStep == ASSUME IInv, Parse PROVE IInv'
<1>1. TableInv'
  BY ReadInv DEF IInv, Parse
<1>2. Len(plc_list') \in Nat /\ Len(plc_list) \in Nat /\ Len(plc_list) <= Len(plc_list')
  <2>1. plc_list \in Seq(Plc) /\ plc_list' \in Seq(Plc)
    BY <1>1 DEF IInv, TableInv, TableTypeOK
  <2>2. PICK p : ListPlc(p)
    BY DEF Parse, ReadSwitch
  <2>3. CASE p \in Range(plc_list)
    BY <2>1, <2>2, <2>3 DEF ListPlc
  <2>4. CASE p \notin Range(plc_list)
    <3>1. plc_list' = <<p>> \o plc_list
      BY <2>2, <2>4 DEF ListPlc
    <3> QED BY <2>1, <3>1
  <2> QED BY <2>3, <2>4
<1>3. TypeOK'
  <2>1. UNCHANGED scanVars
    BY DEF Parse
  <2>2. plc \in 1 .. Len(plc_list') + 1
    BY <1>2 DEF IInv, TypeOK
  <2>3. asked \in SUBSET ((1 .. LoraNodes) \X (1 .. Len(plc_list')) \X Size \X Reg)
    BY <1>2 DEF IInv, TypeOK
  <2> QED BY <1>1, <2>1, <2>2, <2>3 DEF IInv, TypeOK, TableInv, scanVars
<1>4. ScanInv' /\ AskedSoFar' /\ QueriesFit'
  BY DEF IInv, Parse, ScanInv, AskedSoFar, QueriesFit, scanVars
<1> QED BY <1>1, <1>3, <1>4 DEF IInv

\* What the steps of a scan have in common: the tables stand.
LEMMA TablesStand ==
  ASSUME IInv, UNCHANGED tableVars
  PROVE  /\ TableInv'
         /\ pos' = pos /\ switches' = switches /\ plc_list' = plc_list
         /\ channel' = channel
         /\ plc_list \in Seq(Plc) /\ Len(plc_list) \in Nat /\ DOMAIN plc_list = 1 .. Len(plc_list)
         /\ LoraNodes \in Nat /\ MaxRegAddr \in Nat
<1>1. TableInv'
  BY TableStutter DEF IInv
<1>2. plc_list \in Seq(Plc)
  BY DEF IInv, TableInv, TableTypeOK
<1> QED BY <1>1, <1>2, ConstantsAssumption, ScanAssumption DEF tableVars, plcVars

LEMMA InUseRegs ==
  ASSUME IInv, NEW j \in DOMAIN plc_list, NEW z \in Size
  PROVE  /\ InUse(j, z) \in SUBSET Reg
         /\ first[plc_list[j]][z] \in 0 .. MaxRegAddr + 1
         /\ first[plc_list[j]][z] <= MaxRegAddr => first[plc_list[j]][z] \in InUse(j, z)
         /\ \A r \in InUse(j, z) : first[plc_list[j]][z] <= r
<1>1. plc_list[j] \in Plc
  BY DEF IInv, TableInv, TableTypeOK
<1>2. BoundsTight /\ TableTypeOK
  BY DEF IInv, TableInv
<1>3. /\ InUse(j, z) \in SUBSET Reg
      /\ first[plc_list[j]][z] \in 0 .. MaxRegAddr + 1
  BY <1>1, <1>2 DEF InUse, TableTypeOK
<1>4. CASE InUse(j, z) = {}
  BY <1>1, <1>2, <1>3, <1>4, ConstantsAssumption DEF InUse, BoundsTight
<1>5. CASE InUse(j, z) # {}
  BY <1>1, <1>2, <1>3, <1>5 DEF InUse, BoundsTight
<1> QED BY <1>3, <1>4, <1>5

LEMMA PassStep ==
  ASSUME IInv, Ready \/ BeginRound \/ EndRound
  PROVE  IInv'
<1>1. UNCHANGED tableVars
  BY DEF Ready, BeginRound, EndRound
<1>2. TypeOK'
  BY <1>1, TablesStand DEF IInv, TypeOK, TableInv, Ready, BeginRound, EndRound, Size
<1>3. ScanInv'
  BY <1>1, TablesStand DEF IInv, ScanInv, Ready, BeginRound, EndRound
<1>4. AskedSoFar'
  <2>1. CASE BeginRound
    BY <1>1, <2>1, TablesStand DEF BeginRound, AskedSoFar, Passed, Size
  <2>2. CASE Ready \/ EndRound
    BY <2>2 DEF Ready, EndRound, AskedSoFar
  <2> QED BY <2>1, <2>2
<1>5. QueriesFit'
  BY DEF IInv, QueriesFit, Ready, BeginRound, EndRound
<1> QED BY <1>1, <1>2, <1>3, <1>4, <1>5, TablesStand DEF IInv

LEMMA NextLoraStep == ASSUME IInv, NextLora PROVE IInv'
<1>1. UNCHANGED tableVars
  BY DEF NextLora
<1>2. TypeOK'
  BY <1>1, TablesStand DEF IInv, TypeOK, TableInv, NextLora, Size
<1>3. ScanInv' /\ QueriesFit'
  BY <1>1, TablesStand DEF IInv, ScanInv, QueriesFit, NextLora
<1>4. AskedSoFar'
  <2> SUFFICES ASSUME NEW l \in 1 .. LoraNodes, NEW j \in DOMAIN plc_list, NEW z \in Size, NEW r \in Reg
               PROVE  <<l, j, z, r>> \in asked' <=>
                        /\ r \in InUse(j, z)
                        /\ \/ Passed(l, j, z)'
                           \/ at' = "block" /\ l = lora' /\ j = plc' /\ z = size' /\ r < start_reg'
    BY <1>1, TablesStand DEF AskedSoFar, Passed, InUse
  <2>0. at \in {"plc", "block"} =>
          (<<l, j, z, r>> \in asked <=>
             /\ r \in InUse(j, z)
             /\ \/ Passed(l, j, z)
                \/ at = "block" /\ l = lora /\ j = plc /\ z = size /\ r < start_reg)
    BY DEF IInv, AskedSoFar
  <2>1. Passed(l, j, z)' <=> Passed(l, j, z)
    BY <1>1, TablesStand DEF IInv, TypeOK, NextLora, Passed, Size
  <2> QED BY <2>0, <2>1 DEF NextLora
<1> QED BY <1>1, <1>2, <1>3, <1>4, TablesStand DEF IInv

\* Below the bound a block starts from nothing is in use.
LEMMA EnterBlockStep == ASSUME IInv, EnterBlock PROVE IInv'
<1>1. UNCHANGED tableVars
  BY DEF EnterBlock
<1>2. plc \in DOMAIN plc_list /\ size \in Size
  BY <1>1, TablesStand DEF IInv, TypeOK, EnterBlock
<1>3. start_reg' \in 0 .. MaxRegAddr + 1
  BY <1>2, InUseRegs DEF EnterBlock
<1>4. TypeOK'
  BY <1>1, <1>3, TablesStand DEF IInv, TypeOK, TableInv, EnterBlock
<1>5. ScanInv' /\ QueriesFit'
  BY <1>1, <1>2, InUseRegs, TablesStand DEF IInv, ScanInv, QueriesFit, EnterBlock, InUse
<1>6. AskedSoFar'
  <2> SUFFICES ASSUME NEW l \in 1 .. LoraNodes, NEW j \in DOMAIN plc_list, NEW z \in Size, NEW r \in Reg
               PROVE  <<l, j, z, r>> \in asked' <=>
                        /\ r \in InUse(j, z)
                        /\ \/ Passed(l, j, z)'
                           \/ at' = "block" /\ l = lora' /\ j = plc' /\ z = size' /\ r < start_reg'
    BY <1>1, TablesStand DEF AskedSoFar, Passed, InUse
  <2>0. at \in {"plc", "block"} =>
          (<<l, j, z, r>> \in asked <=>
             /\ r \in InUse(j, z)
             /\ \/ Passed(l, j, z)
                \/ at = "block" /\ l = lora /\ j = plc /\ z = size /\ r < start_reg)
    BY DEF IInv, AskedSoFar
  <2>1. r \in InUse(plc, size) => ~ (r < start_reg')
    BY <1>2, <1>3, InUseRegs, RegInInt DEF EnterBlock
  <2>2. Passed(l, j, z)' <=> Passed(l, j, z)
    BY DEF EnterBlock, Passed
  <2> QED BY <2>0, <2>1, <2>2 DEF EnterBlock
<1> QED BY <1>1, <1>4, <1>5, <1>6, TablesStand DEF IInv

LEMMA LeaveBlockStep == ASSUME IInv, LeaveBlock PROVE IInv'
<1>1. UNCHANGED tableVars
  BY DEF LeaveBlock
<1>2. plc \in 1 .. Len(plc_list) /\ size \in Size /\ lora \in 1 .. LoraNodes
  BY <1>1, TablesStand DEF IInv, TypeOK, ScanInv, LeaveBlock
<1>3. TypeOK'
  BY <1>1, <1>2, TablesStand DEF IInv, TypeOK, TableInv, LeaveBlock, Size
<1>4. ScanInv' /\ QueriesFit'
  BY <1>1, TablesStand DEF IInv, ScanInv, QueriesFit, LeaveBlock
<1>5. AskedSoFar'
  <2> SUFFICES ASSUME NEW l \in 1 .. LoraNodes, NEW j \in DOMAIN plc_list, NEW z \in Size, NEW r \in Reg
               PROVE  <<l, j, z, r>> \in asked' <=>
                        /\ r \in InUse(j, z)
                        /\ \/ Passed(l, j, z)'
                           \/ at' = "block" /\ l = lora' /\ j = plc' /\ z = size' /\ r < start_reg'
    BY <1>1, TablesStand DEF AskedSoFar, Passed, InUse
  <2>0. at \in {"plc", "block"} =>
          (<<l, j, z, r>> \in asked <=>
             /\ r \in InUse(j, z)
             /\ \/ Passed(l, j, z)
                \/ at = "block" /\ l = lora /\ j = plc /\ z = size /\ r < start_reg)
    BY DEF IInv, AskedSoFar
  <2>1. Passed(l, j, z)' <=> Passed(l, j, z) \/ (l = lora /\ j = plc /\ z = size)
    BY <1>1, <1>2, TablesStand DEF LeaveBlock, Passed, Size
  <2>2. r < start_reg
    <3>1. start_reg > MaxRegAddr /\ start_reg \in Int /\ MaxRegAddr \in Int
      BY ConstantsAssumption DEF LeaveBlock, IInv, TypeOK
    <3> QED BY <3>1, RegInInt
  <2> QED BY <2>0, <2>1, <2>2 DEF LeaveBlock
<1> QED BY <1>1, <1>3, <1>4, <1>5, TablesStand DEF IInv

\* What a query does, in terms of the registers in use.
LEMMA QueryEffect ==
  ASSUME IInv, Query
  PROVE  /\ plc \in DOMAIN plc_list /\ size \in Size /\ lora \in 1 .. LoraNodes
         /\ start_reg \in query' /\ query' \subseteq InUse(plc, size)
         /\ \A r \in query' : r >= start_reg
         /\ \E n \in 1 .. MaxRead : query' = start_reg .. start_reg + n - 1
         /\ start_reg' \in 0 .. MaxRegAddr + 1
         /\ start_reg' <= MaxRegAddr => start_reg' \in InUse(plc, size)
         /\ \A r \in InUse(plc, size) : r < start_reg' <=> r < start_reg \/ r \in query'
<1> DEFINE used == InUse(plc, size)
           i == RunEnd(used, start_reg)
<1>1. UNCHANGED tableVars /\ query' = start_reg .. i - 1 /\ start_reg' = NextUsed(used, i)
  BY DEF Query, InUse
<1>2. plc \in DOMAIN plc_list /\ size \in Size /\ lora \in 1 .. LoraNodes
  BY <1>1, TablesStand DEF IInv, TypeOK, ScanInv, Query
<1>3. used \in SUBSET Reg /\ start_reg \in used
  BY <1>2, InUseRegs DEF IInv, ScanInv, Query
<1>4. /\ start_reg \in Int /\ 0 <= start_reg /\ start_reg <= MaxRegAddr
      /\ MaxRegAddr \in Nat /\ MaxRead \in Nat \ {0}
  BY <1>3, RegInInt, ConstantsAssumption, ScanAssumption
<1>5. /\ i \in start_reg + 1 .. MaxRegAddr + 1
      /\ i <= start_reg + MaxRead
      /\ \A k \in start_reg .. i - 1 : k \in used
  BY <1>3, RunEndProperties
<1> HIDE DEF i, used
<1>6. i \in 0 .. MaxRegAddr + 1
  BY <1>4, <1>5
<1>7. /\ start_reg' \in i .. MaxRegAddr + 1
      /\ start_reg' <= MaxRegAddr => start_reg' \in used
      /\ \A r \in used : i <= r => start_reg' <= r
  BY <1>1, <1>3, <1>6, NextUsedProperties
<1>8. \A r \in used : r \in Int
  BY <1>3, RegInInt
<1>9. \E n \in 1 .. MaxRead : query' = start_reg .. start_reg + n - 1
  <2>1. i - start_reg \in 1 .. MaxRead /\ start_reg + (i - start_reg) - 1 = i - 1
    BY <1>4, <1>5
  <2> QED BY <1>1, <2>1
<1>10. \A r \in used : r < start_reg' <=> r < start_reg \/ r \in query'
  BY <1>1, <1>4, <1>5, <1>7, <1>8
<1>11. start_reg \in query' /\ query' \subseteq used /\ \A r \in query' : r >= start_reg
  BY <1>1, <1>4, <1>5
<1>12. start_reg' \in 0 .. MaxRegAddr + 1
  BY <1>4, <1>6, <1>7
<1> QED BY <1>2, <1>7, <1>9, <1>10, <1>11, <1>12 DEF used

LEMMA QueryStep == ASSUME IInv, Query PROVE IInv'
<1>1. /\ UNCHANGED tableVars /\ at = "block" /\ at' = at /\ lora' = lora /\ plc' = plc /\ size' = size
      /\ asked' = asked \cup {<<lora, plc, size, r>> : r \in query'}
  BY DEF Query
<1>2. InUse(plc, size) \subseteq Reg
  BY QueryEffect, InUseRegs
<1>3. TypeOK'
  <2>1. asked' \in SUBSET ((1 .. LoraNodes) \X (1 .. Len(plc_list)) \X Size \X Reg)
    <3>1. \A r \in query' : <<lora, plc, size, r>> \in (1 .. LoraNodes) \X (1 .. Len(plc_list)) \X Size \X Reg
      BY <1>1, <1>2, QueryEffect, TablesStand
    <3>2. asked \in SUBSET ((1 .. LoraNodes) \X (1 .. Len(plc_list)) \X Size \X Reg)
      BY DEF IInv, TypeOK
    <3> QED BY <1>1, <3>1, <3>2
  <2>2. query' \in SUBSET Reg /\ start_reg' \in 0 .. MaxRegAddr + 1
    BY <1>2, QueryEffect
  <2> QED BY <1>1, <2>1, <2>2, TablesStand DEF IInv, TypeOK, TableInv
<1>4. ScanInv'
  BY <1>1, QueryEffect, TablesStand DEF IInv, ScanInv, InUse
<1>5. QueriesFit'
  BY <1>2, QueryEffect DEF QueriesFit
<1>6. AskedSoFar'
  <2> SUFFICES ASSUME NEW l \in 1 .. LoraNodes, NEW j \in DOMAIN plc_list, NEW z \in Size, NEW r \in Reg
               PROVE  <<l, j, z, r>> \in asked' <=>
                        /\ r \in InUse(j, z)
                        /\ \/ Passed(l, j, z)'
                           \/ at' = "block" /\ l = lora' /\ j = plc' /\ z = size' /\ r < start_reg'
    BY <1>1, TablesStand DEF AskedSoFar, Passed, InUse
  <2>0. at \in {"plc", "block"} =>
          (<<l, j, z, r>> \in asked <=>
             /\ r \in InUse(j, z)
             /\ \/ Passed(l, j, z)
                \/ at = "block" /\ l = lora /\ j = plc /\ z = size /\ r < start_reg)
    BY DEF IInv, AskedSoFar
  <2>1. Passed(l, j, z)' <=> Passed(l, j, z)
    BY <1>1 DEF Passed
  <2>2. <<l, j, z, r>> \in asked' <=>
          <<l, j, z, r>> \in asked \/ (l = lora /\ j = plc /\ z = size /\ r \in query')
    BY <1>1
  <2>3. r \in InUse(plc, size) => (r < start_reg' <=> r < start_reg \/ r \in query')
    BY QueryEffect
  <2>4. query' \subseteq InUse(plc, size)
    BY QueryEffect
  <2> QED BY <1>1, <2>0, <2>1, <2>2, <2>3, <2>4
<1> QED BY <1>1, <1>3, <1>4, <1>5, <1>6, TablesStand DEF IInv

LEMMA StutterStep == ASSUME IInv, UNCHANGED vars PROVE IInv'
<1>1. UNCHANGED tableVars /\ UNCHANGED scanVars
  BY DEF vars
<1>2. TypeOK'
  BY <1>1, TablesStand DEF IInv, TypeOK, TableInv, scanVars
<1>3. ScanInv' /\ QueriesFit'
  BY <1>1, TablesStand DEF IInv, ScanInv, QueriesFit, scanVars, InUse
<1>4. AskedSoFar'
  <2> SUFFICES ASSUME NEW l \in 1 .. LoraNodes, NEW j \in DOMAIN plc_list, NEW z \in Size, NEW r \in Reg,
                      at' \in {"plc", "block"}
               PROVE  <<l, j, z, r>> \in asked' <=>
                        /\ r \in InUse(j, z)
                        /\ \/ Passed(l, j, z)'
                           \/ at' = "block" /\ l = lora' /\ j = plc' /\ z = size' /\ r < start_reg'
    BY <1>1, TablesStand DEF AskedSoFar, Passed, InUse
  <2>0. at \in {"plc", "block"} =>
          (<<l, j, z, r>> \in asked <=>
             /\ r \in InUse(j, z)
             /\ \/ Passed(l, j, z)
                \/ at = "block" /\ l = lora /\ j = plc /\ z = size /\ r < start_reg)
    BY DEF IInv, AskedSoFar
  <2>1. Passed(l, j, z)' <=> Passed(l, j, z)
    BY <1>1 DEF Passed, scanVars
  <2>2. at' = at /\ lora' = lora /\ plc' = plc /\ size' = size /\ start_reg' = start_reg /\ asked' = asked
    BY <1>1 DEF scanVars
  <2> QED BY <2>0, <2>1, <2>2
<1> QED BY <1>1, <1>2, <1>3, <1>4, TablesStand DEF IInv

LEMMA NextIInv == IInv /\ [Next]_vars => IInv'
BY ParseStep, PassStep, NextLoraStep, EnterBlockStep, LeaveBlockStep, QueryStep, StutterStep DEF Next, Scan

\* In the middle of a round the registers behind the scan are exactly those that
\* have been asked for.
THEOREM ScanInvariance == Spec => []AskedSoFar
<1>1. IInv => AskedSoFar
  BY DEF IInv
<1> QED BY <1>1, InitIInv, NextIInv, PTL DEF Spec

\* A query asks for consecutive registers, no more than a LoRa frame holds.
THEOREM QueriesFitFrames == Spec => []QueriesFit
<1>1. IInv => QueriesFit
  BY DEF IInv
<1> QED BY <1>1, InitIInv, NextIInv, PTL DEF Spec

\* When a round ends every LoRa node has been asked for every switch of the file.
THEOREM RoundIsComplete == Spec => []RoundComplete
<1>1. IInv => RoundComplete
  <2> SUFFICES ASSUME IInv, at = "plc", lora > LoraNodes,
                      NEW k \in DOMAIN switches, NEW l \in 1 .. LoraNodes, switches[k].reg_len \in Size
               PROVE  \E j \in DOMAIN plc_list :
                        /\ plc_list[j] = switches[k].plc
                        /\ <<l, j, switches[k].reg_len, ReportReg(switches[k])>> \in asked
    BY DEF RoundComplete
  <2>1. switches \in Seq(Switch) /\ pos = Len(switches) /\ k \in Done
    BY ConstantsAssumption DEF IInv, TableInv, TableTypeOK, ScanInv, Done
  <2>2. switches[k] \in Switch
    BY <2>1
  <2>3. switches[k].plc \in Range(plc_list)
    BY <2>1 DEF IInv, TableInv, EachPlcOnce
  <2>4. PICK j \in DOMAIN plc_list : plc_list[j] = switches[k].plc
    BY <2>3 DEF Range
  <2>5. ReportReg(switches[k]) \in InUse(j, switches[k].reg_len)
    BY <2>1, <2>2, <2>4, ReportRegInReg DEF IInv, TableInv, ChannelsOfFile, InUse
  <2>6. Passed(l, j, switches[k].reg_len)
    BY ScanAssumption DEF IInv, TypeOK, Passed, InUse
  <2> QED BY <2>2, <2>4, <2>5, <2>6, ReportRegInReg DEF IInv, AskedSoFar
<1> QED BY <1>1, InitIInv, NextIInv, PTL DEF Spec

\* No query is for nothing and no register is asked for twice in a round.
THEOREM NothingAskedTwice == Spec => NoRegisterTwice
<1> DEFINE NotAsked == Query => /\ query' # {}
                             /\ \A r \in query' : <<lora, plc, size, r>> \notin asked
<1>1. ASSUME IInv, Query PROVE NotAsked
  <2>1. InUse(plc, size) \subseteq Reg /\ at = "block"
    BY <1>1, QueryEffect, InUseRegs DEF Query
  <2>2. ~ Passed(lora, plc, size)
    BY <1>1, ConstantsAssumption DEF Passed, Size, IInv, TypeOK, TableInv, TableTypeOK
  <2>3. \A r \in query' : r \in Reg /\ ~ (r < start_reg)
    BY <1>1, <2>1, QueryEffect, RegInInt DEF IInv, TypeOK
  <2> QED BY <1>1, <2>1, <2>2, <2>3, QueryEffect DEF IInv, AskedSoFar
<1>2. IInv /\ [Next]_vars => [NotAsked]_vars
  BY <1>1
<1> QED BY <1>2, InitIInv, NextIInv, PTL DEF Spec, NoRegisterTwice

\* The scan leaves the tables alone, so what they hold after reading they hold in
\* every round: what readSwitches promises is a promise of the whole specification.
THEOREM TablesHold ==
  Spec => [](TablesOfFile /\ CommandsFindLastDefinition /\ ReportsUnderCommandName)
<1>1. Init => TableInit
  BY DEF Init
<1>2. [Next]_vars => [ReadSwitch]_tableVars
  BY DEF Next, vars, Parse, Ready, Scan, BeginRound, EndRound, NextLora, EnterBlock, Query, LeaveBlock, tableVars, plcVars
<1>3. Spec => TableSpec
  BY <1>1, <1>2, PTL DEF Spec, TableSpec
<1> QED BY <1>3, TablesMatchFile, CommandsFindTheirSwitch, ReportsMatchCommands, PTL


=============================================================================
