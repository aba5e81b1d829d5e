-------------------------- MODULE LogConfigProofs --------------------------
(***************************************************************************)
(* Proofs about the pure parts of the operator.                            *)
(*                                                                         *)
(* The log adapters: what Wrap's hclog.Logger says of itself is what it    *)
(* does, a plugin's line is written at the level the plugin gave it, and   *)
(* convertToZapAny loses no argument, for every logger level, every line   *)
(* and every list of arguments, however long.                              *)
(*                                                                         *)
(* The configuration: for any number of files, every key has the value of  *)
(* the last layer that sets it (LoadConfig).                               *)
(*                                                                         *)
(* Both are recursive, over the arguments and over the files.  The         *)
(* induction this needs is the argument by a least counterexample, WFMin   *)
(* for the order of the naturals.                                          *)
(***************************************************************************)
EXTENDS PluginLog, Config, FiniteSetTheorems, WellFoundedInduction, TLAPS

(* Induction over the natural numbers, for a set: a number outside of it   *)
(* would have a least one beside it.                                       *)
LEMMA SetInduction ==
    ASSUME NEW S, 0 \in S, \A n \in Nat : n \in S => n + 1 \in S
    PROVE  Nat \subseteq S
<1> DEFINE Less == {ss \in Nat \X Nat : ss[1] < ss[2]}
           Others == Nat \ S
<1>1. SUFFICES ASSUME Others # {} PROVE FALSE
  OBVIOUS
<1>2. PICK x \in Others : \A y \in Others : ~(<<y, x>> \in Less)
  <2>1. IsWellFoundedOn(Less, Nat)
    BY Zenon, NatLessThanWellFounded DEF OpToRel
  <2>2. Others \subseteq Nat
    OBVIOUS
  <2> HIDE DEF Less, Others
  <2> QED  BY Zenon, <1>1, <2>1, <2>2, WFMin
<1>3. x \in Nat /\ x # 0
  OBVIOUS
<1>4. x - 1 \in Nat /\ x - 1 < x /\ (x - 1) + 1 = x
  BY <1>3
<1>5. x - 1 \in S
  BY Zenon, <1>2, <1>3, <1>4
<1> QED  BY <1>4, <1>5

-----------------------------------------------------------------------------
(* The levels.                                                             *)

(* hclog's levels are the operator's, shifted by three: the methods of the *)
(* wrapper and Log's switch.                                               *)
LEMMA LogOf ==
    ASSUME NEW t \in Int, NEW i \in 1..5
    PROVE  /\ Log(t, HclogLevels[i]) = Check(t, i - 3)
           /\ Is(t, HclogLevels[i]) <=> t <= i - 3
<1>1. /\ Log(t, "Trace") = Check(t, TraceLevel) /\ Is(t, "Trace") = (t <= TraceLevel)
      /\ Log(t, "Debug") = Check(t, DebugLevel) /\ Is(t, "Debug") = (t <= DebugLevel)
      /\ Log(t, "Info") = Check(t, InfoLevel) /\ Is(t, "Info") = (t <= InfoLevel)
      /\ Log(t, "Warn") = Check(t, WarnLevel) /\ Is(t, "Warn") = (t <= WarnLevel)
      /\ Log(t, "Error") = Check(t, ErrorLevel) /\ Is(t, "Error") = (t <= ErrorLevel)
  BY Zenon DEF Log, Is
<1>2. /\ HclogLevels[1] = "Trace" /\ HclogLevels[2] = "Debug" /\ HclogLevels[3] = "Info"
      /\ HclogLevels[4] = "Warn" /\ HclogLevels[5] = "Error"
  BY DEF HclogLevels
<1>3. TraceLevel = 1 - 3 /\ DebugLevel = 2 - 3 /\ InfoLevel = 3 - 3 /\ WarnLevel = 4 - 3
      /\ ErrorLevel = 5 - 3
  BY DEF TraceLevel, DebugLevel, InfoLevel, WarnLevel, ErrorLevel
<1>4. i = 1 \/ i = 2 \/ i = 3 \/ i = 4 \/ i = 5
  OBVIOUS
<1> QED  BY Zenon, <1>1, <1>2, <1>3, <1>4

(* What GetLevel answers, to go-plugin's logging and to its copying of a   *)
(* plugin's stderr.                                                        *)
LEMMA GetLevelOf ==
    ASSUME NEW t \in TraceLevel..FatalLevel
    PROVE  /\ GetLevel(t, TRUE) = "Off"
           /\ t <= ErrorLevel => GetLevel(t, FALSE) = HclogLevels[t + 3]
           /\ t > ErrorLevel => GetLevel(t, FALSE) = NoLevel
<1>1. t <= ErrorLevel => t \in TraceLevel..ErrorLevel
  BY DEF TraceLevel, DebugLevel, ErrorLevel, FatalLevel
<1>2. t > ErrorLevel => t \notin TraceLevel..ErrorLevel
  BY DEF TraceLevel, DebugLevel, ErrorLevel, FatalLevel
<1> QED  BY Zenon, <1>1, <1>2 DEF GetLevel

(* The adapter of a logger is consistent: GetLevel names the lowest level  *)
(* that is written, IsTrace ... IsError are true of exactly the levels     *)
(* that Log writes, and to go-plugin's copy of a plugin's stderr it is     *)
(* off (wrapper, Wrap).                                                    *)
THEOREM AdapterConsistent ==
    \A t \in TraceLevel..FatalLevel : LevelsAgree(t) /\ GetLevel(t, TRUE) = "Off"
<1> SUFFICES ASSUME NEW t \in TraceLevel..FatalLevel
             PROVE  LevelsAgree(t) /\ GetLevel(t, TRUE) = "Off"
  BY Zenon
<1>t. t \in Int /\ t >= -2
  BY DEF TraceLevel, DebugLevel, FatalLevel
<1>1. GetLevel(t, TRUE) = "Off"
  BY Zenon, GetLevelOf
<1> DEFINE Written(i) == Log(t, HclogLevels[i]) # Nothing
<1>2. ASSUME NEW i \in 1..5
      PROVE  /\ Written(i) <=> t <= i - 3
             /\ Written(i) => Log(t, HclogLevels[i]) = i - 3
  BY <1>t, LogOf DEF Check, Nothing
<1> DEFINE level == GetLevel(t, FALSE)
<1>l. (t <= 2 => level = HclogLevels[t + 3]) /\ (t > 2 => level = NoLevel)
  BY Zenon, GetLevelOf DEF ErrorLevel
<1>3. ASSUME NEW i \in 1..5
      PROVE  t <= i - 3 <=> \E j \in 1..i : HclogLevels[j] = level
  <2> HIDE DEF level
  <2>1. CASE t <= 2
    <3>1. level = HclogLevels[t + 3] /\ t + 3 \in 1..5
      BY <1>t, <1>l, <2>1
    <3>2. \A j, k \in 1..5 : HclogLevels[j] = HclogLevels[k] => j = k
      BY DEF HclogLevels
    <3>3. 1..i \subseteq 1..5
      OBVIOUS
    <3>4. t <= i - 3 <=> t + 3 \in 1..i
      BY <1>t, <3>1
    <3> QED  BY <3>1, <3>2, <3>3, <3>4
  <2>2. CASE t > 2
    <3>1. level = NoLevel /\ ~(t <= i - 3)
      BY <1>t, <1>l, <2>2
    <3>2. \A j \in 1..5 : HclogLevels[j] # NoLevel
      BY DEF HclogLevels, NoLevel
    <3>3. 1..i \subseteq 1..5
      OBVIOUS
    <3> QED  BY <3>1, <3>2, <3>3
  <2> QED  BY <1>t, <2>1, <2>2
<1>4. ASSUME NEW i \in 1..5, NEW j \in 1..(i - 1), Written(i)
      PROVE  Log(t, HclogLevels[j]) < Log(t, HclogLevels[i])
  <2>1. j \in 1..5 /\ j < i
    OBVIOUS
  <2>2. Log(t, HclogLevels[i]) = i - 3
    BY <1>2, <1>4
  <2>3. Log(t, HclogLevels[j]) \in {j - 3, -3}
    BY <1>t, <2>1, LogOf DEF Check, Nothing
  <2> QED  BY <2>1, <2>2, <2>3
<1>5. ASSUME NEW i \in 1..5
      PROVE  Is(t, HclogLevels[i]) <=> Written(i)
  BY <1>t, <1>2, LogOf
<1>6. LevelsAgree(t)
  <2> HIDE DEF Written
  <2>1. \A i \in 1..5 : /\ Is(t, HclogLevels[i]) <=> Written(i)
                        /\ Written(i) <=> \E j \in 1..i : HclogLevels[j] = GetLevel(t, FALSE)
                        /\ \A j \in 1..(i - 1) : Written(i) =>
                               Log(t, HclogLevels[j]) < Log(t, HclogLevels[i])
    BY Zenon, <1>2, <1>3, <1>4, <1>5
  <2> QED  BY Zenon, <2>1 DEF LevelsAgree, Written
<1> QED  BY Zenon, <1>1, <1>6


-----------------------------------------------------------------------------
(* The lines.                                                              *)

(* What getLevel and PrefixLevel return is a level of an entry.            *)
LEMMA EntryLevels ==
    /\ \A s : getLevel(s) \in TraceLevel..ErrorLevel
    /\ \A p : PrefixLevel(p) \in TraceLevel..ErrorLevel
    /\ getLevel("none") = InfoLevel
<1>1. /\ \A s : getLevel(s) \in {TraceLevel, DebugLevel, InfoLevel, WarnLevel, ErrorLevel}
      /\ \A p : PrefixLevel(p) \in {TraceLevel, DebugLevel, InfoLevel, WarnLevel, ErrorLevel}
      /\ getLevel("none") = InfoLevel
  BY Zenon DEF getLevel, PrefixLevel
<1>2. {TraceLevel, DebugLevel, InfoLevel, WarnLevel, ErrorLevel} \subseteq TraceLevel..ErrorLevel
  BY DEF TraceLevel, DebugLevel, InfoLevel, WarnLevel, ErrorLevel
<1> QED  BY Zenon, <1>1, <1>2

(* A line that a plugin prints is written at the level the plugin gave it, *)
(* or dropped because the logger filters that level, unless it panics or   *)
(* has a malformed timestamp (pluginOutputMonitor, logJsonLog).            *)
THEOREM LinesKept ==
    \A t \in Int : \A line \in PluginLines \ {Blank, TooLong} : LineKept(t, line)
<1> SUFFICES ASSUME NEW t \in Int, NEW line \in PluginLines \ {Blank, TooLong}
             PROVE  LineKept(t, line)
  OBVIOUS
<1>1. CASE line.form = "text"
  <2>1. LogLine(t, line) = Check(t, PrefixLevel(line.prefix))
    BY <1>1 DEF LogLine, logJsonLog
  <2> QED  BY <1>1, <2>1 DEF LineKept
<1>2. CASE line.form = "json"
  <2> DEFINE level == getLevel(line.level)
  <2>1. level \in -2..2 /\ Check(t, level) \in {level, Nothing}
        /\ level = IF line.level = "none" THEN InfoLevel ELSE getLevel(line.level)
    BY EntryLevels DEF Check, TraceLevel, DebugLevel, ErrorLevel
  <2> HIDE DEF level
  <2>2. logJsonLog(t, line) \in {Panic, Check(t, level)} \/ line.timestamp = "bad"
    BY <1>2, <2>1 DEF logJsonLog
  <2>3. logJsonLog(t, line) # Err \/ line.timestamp = "bad"
    BY <2>1, <2>2 DEF Nothing, Panic, Err
  <2>4. LogLine(t, line) \in {Panic, Check(t, level)} \/ line.timestamp = "bad"
    BY <2>2, <2>3 DEF LogLine
  <2> QED  BY <1>2, <2>4 DEF LineKept, level
<1>3. line.form \in {"text", "json"}
  BY DEF PluginLines, Text, JsonLines
<1> QED  BY <1>1, <1>2, <1>3


-----------------------------------------------------------------------------
(* The arguments.                                                          *)

(* The fields that convertToZapAny makes of the first i arguments, given   *)
(* those of fewer.                                                         *)
FieldsOf(args, fields, i) ==
    CASE i = 0 -> <<>>
      [] i = 1 -> <<<<0, 1>>>>
      [] OTHER -> Pair(args, i) \o fields[i - 2]

(* fields is what convertToZapAny's recursion defines, up to n arguments.  *)
Defines(args, fields, n) == fields = [i \in 0..n |-> FieldsOf(args, fields, i)]

(* The cases of the recursion.                                             *)
LEMMA FieldCases ==
    ASSUME NEW args, NEW f
    PROVE  /\ FieldsOf(args, f, 0) = <<>>
           /\ FieldsOf(args, f, 1) = <<<<0, 1>>>>
           /\ \A i : i # 0 /\ i # 1 => FieldsOf(args, f, i) = Pair(args, i) \o f[i - 2]
<1>1. 0 # 1
  OBVIOUS
<1> QED  BY Zenon, <1>1 DEF FieldsOf

(* The recursion only looks two arguments back.                            *)
LEMMA LooksBack ==
    ASSUME NEW args, NEW f, NEW g, NEW i \in Nat, i >= 2 => f[i - 2] = g[i - 2]
    PROVE  FieldsOf(args, f, i) = FieldsOf(args, g, i)
<1>1. CASE i = 0 \/ i = 1
  BY Zenon, <1>1, FieldCases
<1>2. CASE i # 0 /\ i # 1
  <2>1. f[i - 2] = g[i - 2]
    BY <1>2
  <2>2. /\ FieldsOf(args, f, i) = Pair(args, i) \o f[i - 2]
        /\ FieldsOf(args, g, i) = Pair(args, i) \o g[i - 2]
    BY Zenon, <1>2, FieldCases
  <2> QED  BY Zenon, <2>1, <2>2
<1> QED  BY Zenon, <1>1, <1>2

(* The recursion defines a function, for every number of arguments.        *)
LEMMA RecursionDefined ==
    ASSUME NEW args, NEW n \in Nat
    PROVE  \E f : Defines(args, f, n)
<1> DEFINE S == {m \in Nat : \E f : Defines(args, f, m)}
<1>1. 0 \in S
  <2> DEFINE f == [i \in 0..0 |-> <<>>]
  <2>1. \A i \in 0..0 : FieldsOf(args, f, i) = <<>>
    <3>1. \A i \in 0..0 : i = 0
      OBVIOUS
    <3> QED  BY Zenon, <3>1, FieldCases
  <2>2. f = [i \in 0..0 |-> FieldsOf(args, f, i)]
    BY <2>1
  <2> QED  BY Zenon, <2>2 DEF Defines
<1>2. ASSUME NEW m \in Nat, m \in S
      PROVE  m + 1 \in S
  <2>1. PICK f : f = [i \in 0..m |-> FieldsOf(args, f, i)]
    BY Zenon, <1>2 DEF Defines
  <2> DEFINE g == [i \in 0..(m + 1) |-> IF i <= m THEN f[i] ELSE FieldsOf(args, f, m + 1)]
  <2>2. ASSUME NEW i \in 0..(m + 1)
        PROVE  g[i] = FieldsOf(args, g, i)
    <3>1. i \in Nat /\ (i >= 2 => f[i - 2] = g[i - 2])
      OBVIOUS
    <3>2. FieldsOf(args, f, i) = FieldsOf(args, g, i)
      <4> HIDE DEF g
      <4> QED  BY Zenon, <3>1, LooksBack
    <3>3. g[i] = FieldsOf(args, f, i)
      <4>1. CASE i <= m
        <5>1. i \in 0..m
          BY <4>1
        <5> QED  BY <2>1, <4>1, <5>1
      <4>2. CASE ~(i <= m)
        <5>1. i = m + 1
          BY <4>2
        <5> QED  BY <4>2, <5>1
      <4> QED  BY <4>1, <4>2
    <3> QED  BY Zenon, <3>2, <3>3
  <2>3. g = [i \in 0..(m + 1) |-> FieldsOf(args, g, i)]
    BY <2>2
  <2>4. \E h : Defines(args, h, m + 1)
    <3> HIDE DEF g
    <3> QED  BY Zenon, <2>3 DEF Defines
  <2> QED  BY <2>4
<1>3. Nat \subseteq S
  <2> HIDE DEF S
  <2> QED  BY Zenon, <1>1, <1>2, SetInduction
<1> QED  BY <1>3

(* convertToZapAny returns what the recursion defines for all arguments.   *)
LEMMA Converts ==
    ASSUME NEW args, Len(args) \in Nat
    PROVE  \E f : Defines(args, f, Len(args)) /\ convertToZapAny(args) = f[Len(args)]
<1> DEFINE f == CHOOSE h : h = [i \in 0..Len(args) |->
                    CASE i = 0 -> <<>>
                      [] i = 1 -> <<<<0, 1>>>>
                      [] OTHER -> Pair(args, i) \o h[i - 2]]
<1>1. \E h : h = [i \in 0..Len(args) |->
                    CASE i = 0 -> <<>>
                      [] i = 1 -> <<<<0, 1>>>>
                      [] OTHER -> Pair(args, i) \o h[i - 2]]
  <2>1. PICK h : Defines(args, h, Len(args))
    BY Zenon, RecursionDefined
  <2> QED  BY Zenon, <2>1 DEF Defines, FieldsOf
<1>2. f = [i \in 0..Len(args) |->
                    CASE i = 0 -> <<>>
                      [] i = 1 -> <<<<0, 1>>>>
                      [] OTHER -> Pair(args, i) \o f[i - 2]]
  BY Zenon, <1>1
<1>3. convertToZapAny(args) = f[Len(args)]
  BY Zenon DEF convertToZapAny
<1>4. Defines(args, f, Len(args))
  BY Zenon, <1>2 DEF Defines, FieldsOf
<1> HIDE DEF f
<1> QED  BY Zenon, <1>3, <1>4


(* The arguments that some fields have as values and as keys.              *)
Values(fields) == {fields[k][2] : k \in 1..Len(fields)}
KeysOf(fields) == {fields[k][1] : k \in 1..Len(fields)} \ {0}

FieldSeqs == Seq(Nat \X Nat)

(* The fields keep the first i arguments, each in one place.               *)
Keep(args, fields, i) ==
    /\ fields \in FieldSeqs
    /\ Values(fields) \cup KeysOf(fields) = 1..i
    /\ Values(fields) \cap KeysOf(fields) = {}
    /\ Cardinality(Values(fields)) = Len(fields)
    /\ \A k \in KeysOf(fields) : args[k] = "string" /\ k + 1 \in Values(fields)

(* Two lists of fields, one after the other, have the values and the keys  *)
(* of both.                                                                *)
LEMMA Concatenate ==
    ASSUME NEW s \in FieldSeqs, NEW t \in FieldSeqs
    PROVE  /\ s \o t \in FieldSeqs /\ Len(s \o t) = Len(s) + Len(t)
           /\ Values(s \o t) = Values(s) \cup Values(t)
           /\ KeysOf(s \o t) = KeysOf(s) \cup KeysOf(t)
<1>1. /\ s \o t \in FieldSeqs /\ Len(s) \in Nat /\ Len(t) \in Nat
      /\ Len(s \o t) = Len(s) + Len(t)
  BY DEF FieldSeqs
<1>2. /\ \A k \in 1..Len(s) : (s \o t)[k] = s[k]
      /\ \A k \in 1..Len(t) : (s \o t)[Len(s) + k] = t[k]
  BY DEF FieldSeqs
<1>3. ASSUME NEW k \in 1..Len(s \o t)
      PROVE  \/ k \in 1..Len(s) /\ (s \o t)[k] = s[k]
             \/ k - Len(s) \in 1..Len(t) /\ (s \o t)[k] = t[k - Len(s)]
  <2>1. CASE k <= Len(s)
    BY <1>1, <1>2, <2>1
  <2>2. CASE ~(k <= Len(s))
    <3>1. k - Len(s) \in 1..Len(t) /\ Len(s) + (k - Len(s)) = k
      BY <1>1, <2>2
    <3> QED  BY <1>2, <3>1
  <2> QED  BY <2>1, <2>2
<1>4. /\ 1..Len(s) \subseteq 1..Len(s \o t)
      /\ \A k \in 1..Len(t) : Len(s) + k \in 1..Len(s \o t)
  BY <1>1
<1> DEFINE u == s \o t
<1> HIDE DEF u
<1>5. ASSUME NEW j \in {1, 2}, NEW x
      PROVE  (\E k \in 1..Len(u) : x = u[k][j]) <=>
                 (\E k \in 1..Len(s) : x = s[k][j]) \/ (\E k \in 1..Len(t) : x = t[k][j])
  <2>1. ASSUME NEW k \in 1..Len(u), x = u[k][j]
        PROVE  (\E l \in 1..Len(s) : x = s[l][j]) \/ (\E l \in 1..Len(t) : x = t[l][j])
    BY Zenon, <1>3, <2>1 DEF u
  <2>2. ASSUME NEW k \in 1..Len(s), x = s[k][j]
        PROVE  \E l \in 1..Len(u) : x = u[l][j]
    BY Zenon, <1>2, <1>4, <2>2 DEF u
  <2>3. ASSUME NEW k \in 1..Len(t), x = t[k][j]
        PROVE  \E l \in 1..Len(u) : x = u[l][j]
    BY Zenon, <1>2, <1>4, <2>3 DEF u
  <2> QED  BY Zenon, <2>1, <2>2, <2>3
<1>6. Values(u) = Values(s) \cup Values(t)
  BY Zenon, <1>5 DEF Values
<1>7. KeysOf(u) = KeysOf(s) \cup KeysOf(t)
  BY Zenon, <1>5 DEF KeysOf
<1> QED  BY <1>1, <1>6, <1>7 DEF u


(* The fields of two arguments: a string is the key of what follows it,    *)
(* and any other argument gets a field of its own.                         *)
LEMMA PairKeeps ==
    ASSUME NEW args, NEW i \in Nat, i >= 2
    PROVE  /\ Pair(args, i) \in FieldSeqs
           /\ args[i - 1] = "string" => /\ Len(Pair(args, i)) = 1
                                        /\ Values(Pair(args, i)) = {i}
                                        /\ KeysOf(Pair(args, i)) = {i - 1}
           /\ args[i - 1] # "string" => /\ Len(Pair(args, i)) = 2
                                        /\ Values(Pair(args, i)) = {i, i - 1}
                                        /\ KeysOf(Pair(args, i)) = {}
<1> DEFINE p == Pair(args, i)
<1>1. i \in Nat /\ i - 1 \in Nat /\ i - 1 # 0
  OBVIOUS
<1>2. CASE args[i - 1] = "string"
  <2>1. p = <<<<i - 1, i>>>>
    BY Zenon, <1>2 DEF Pair
  <2>2. p \in FieldSeqs /\ Len(p) = 1 /\ p[1] = <<i - 1, i>>
    BY <1>1, <2>1 DEF FieldSeqs
  <2>3. Values(p) = {i}
    BY <2>2 DEF Values
  <2>4. KeysOf(p) = {i - 1}
    BY <1>1, <2>2 DEF KeysOf
  <2> QED  BY <1>2, <2>2, <2>3, <2>4
<1>3. CASE args[i - 1] # "string"
  <2>1. p = <<<<0, i>>, <<0, i - 1>>>>
    BY Zenon, <1>3 DEF Pair
  <2>2. p \in FieldSeqs /\ Len(p) = 2 /\ p[1] = <<0, i>> /\ p[2] = <<0, i - 1>>
    BY <1>1, <2>1 DEF FieldSeqs
  <2>3. Values(p) = {i, i - 1}
    BY <2>2 DEF Values
  <2>4. KeysOf(p) = {}
    BY <2>2 DEF KeysOf
  <2> QED  BY <1>3, <2>2, <2>3, <2>4
<1> QED  BY <1>2, <1>3

(* Two more arguments are kept with those before them.                     *)
LEMMA KeepTwoMore ==
    ASSUME NEW args, NEW s, NEW i \in Nat, i >= 2, Keep(args, s, i - 2)
    PROVE  Keep(args, Pair(args, i) \o s, i)
<1> DEFINE p == Pair(args, i)
           V == Values(s)
           K == KeysOf(s)
<1>1. s \in FieldSeqs /\ p \in FieldSeqs /\ Len(s) \in Nat
  BY PairKeeps DEF Keep, FieldSeqs
<1>2. /\ V \cup K = 1..(i - 2) /\ V \cap K = {} /\ Cardinality(V) = Len(s)
      /\ \A k \in K : args[k] = "string" /\ k + 1 \in V
  BY DEF Keep
<1>3. /\ p \o s \in FieldSeqs /\ Len(p \o s) = Len(p) + Len(s)
      /\ Values(p \o s) = Values(p) \cup V /\ KeysOf(p \o s) = KeysOf(p) \cup K
  <2> HIDE DEF p
  <2> QED  BY Zenon, <1>1, Concatenate
<1>4. IsFiniteSet(V) /\ i \notin V /\ i - 1 \notin V /\ i \notin K /\ i - 1 \notin K
  <2>1. V \subseteq 1..(i - 2) /\ K \subseteq 1..(i - 2)
    BY Zenon, <1>2
  <2>2. IsFiniteSet(1..(i - 2))
    BY FS_Interval
  <2>3. IsFiniteSet(V)
    BY Zenon, <2>1, <2>2, FS_Subset
  <2> HIDE DEF V, K
  <2> QED  BY <2>1, <2>3
<1> HIDE DEF V, K
<1>5. CASE args[i - 1] = "string"
  <2>1. Len(p) = 1 /\ Values(p) = {i} /\ KeysOf(p) = {i - 1}
    BY <1>5, PairKeeps
  <2> HIDE DEF p
  <2>2. Values(p \o s) = V \cup {i} /\ KeysOf(p \o s) = K \cup {i - 1}
    BY Zenon, <1>3, <2>1
  <2>3. Cardinality(V \cup {i}) = Len(s) + 1
    BY Zenon, <1>2, <1>4, FS_AddElement
  <2>4. (V \cup {i}) \cup (K \cup {i - 1}) = 1..i
    BY <1>2
  <2>5. (V \cup {i}) \cap (K \cup {i - 1}) = {}
    BY <1>2, <1>4
  <2>6. \A k \in K \cup {i - 1} : args[k] = "string" /\ k + 1 \in V \cup {i}
    BY <1>2, <1>5
  <2>7. Len(p \o s) = Len(s) + 1
    BY <1>1, <1>3, <2>1
  <2> QED  BY Zenon, <1>3, <2>2, <2>3, <2>4, <2>5, <2>6, <2>7 DEF Keep, p
<1>6. CASE args[i - 1] # "string"
  <2>1. Len(p) = 2 /\ Values(p) = {i, i - 1} /\ KeysOf(p) = {}
    BY <1>6, PairKeeps
  <2> HIDE DEF p
  <2>2. Values(p \o s) = (V \cup {i}) \cup {i - 1} /\ KeysOf(p \o s) = K
    BY Zenon, <1>3, <2>1
  <2>3. IsFiniteSet(V \cup {i}) /\ Cardinality(V \cup {i}) = Len(s) + 1
    BY Zenon, <1>2, <1>4, FS_AddElement
  <2>4. Cardinality((V \cup {i}) \cup {i - 1}) = Len(s) + 2
    <3>1. i - 1 \notin V \cup {i}
      BY <1>4
    <3>2. Cardinality((V \cup {i}) \cup {i - 1}) = Cardinality(V \cup {i}) + 1
      BY Zenon, <2>3, <3>1, FS_AddElement
    <3> QED  BY <1>1, <2>3, <3>2
  <2>5. ((V \cup {i}) \cup {i - 1}) \cup K = 1..i
    BY <1>2
  <2>6. ((V \cup {i}) \cup {i - 1}) \cap K = {}
    BY <1>2, <1>4
  <2>7. \A k \in K : args[k] = "string" /\ k + 1 \in (V \cup {i}) \cup {i - 1}
    BY <1>2
  <2>8. Len(p \o s) = Len(s) + 2
    BY <1>1, <1>3, <2>1
  <2> QED  BY Zenon, <1>3, <2>2, <2>4, <2>5, <2>6, <2>7, <2>8 DEF Keep, p
<1> QED  BY <1>5, <1>6


(* Wrap's adapter loses and repeats no argument: every argument is the     *)
(* value of one field, or the string that names the field whose value      *)
(* follows it, for argument lists of any length (convertToZapAny).         *)
THEOREM ArgumentsKept ==
    \A args \in Seq(ArgKinds) : ArgsKept(args)
<1> SUFFICES ASSUME NEW args \in Seq(ArgKinds)
             PROVE  ArgsKept(args)
  OBVIOUS
<1> DEFINE n == Len(args)
<1>1. n \in Nat
  OBVIOUS
<1>2. PICK f : Defines(args, f, n) /\ convertToZapAny(args) = f[n]
  BY Zenon, <1>1, Converts
<1> HIDE DEF n
<1>3. /\ f[0] = <<>>
      /\ n >= 1 => f[1] = <<<<0, 1>>>>
      /\ \A i \in 2..n : f[i] = Pair(args, i) \o f[i - 2]
  <2>1. \A i \in 0..n : f[i] = FieldsOf(args, f, i)
    BY Zenon, <1>2 DEF Defines
  <2>2. /\ FieldsOf(args, f, 0) = <<>>
        /\ FieldsOf(args, f, 1) = <<<<0, 1>>>>
        /\ \A i : i # 0 /\ i # 1 => FieldsOf(args, f, i) = Pair(args, i) \o f[i - 2]
    BY Zenon, FieldCases
  <2>3. 0 \in 0..n /\ (n >= 1 => 1 \in 0..n) /\ (\A i \in 2..n : i \in 0..n /\ i # 0 /\ i # 1)
    BY <1>1
  <2> QED  BY Zenon, <2>1, <2>2, <2>3
<1>4. Keep(args, f[0], 0)
  <2>1. f[0] \in FieldSeqs /\ Len(f[0]) = 0
    BY <1>3 DEF FieldSeqs
  <2>2. Values(f[0]) = {} /\ KeysOf(f[0]) = {}
    BY <2>1 DEF Values, KeysOf
  <2> QED  BY <2>1, <2>2, FS_EmptySet DEF Keep
<1>5. n >= 1 => Keep(args, f[1], 1)
  <2> SUFFICES ASSUME n >= 1 PROVE Keep(args, f[1], 1)
    OBVIOUS
  <2>1. f[1] \in FieldSeqs /\ Len(f[1]) = 1 /\ f[1][1] = <<0, 1>>
    <3>1. f[1] = <<<<0, 1>>>>
      BY Zenon, <1>3
    <3> DEFINE s == <<<<0, 1>>>>
    <3>2. s \in FieldSeqs /\ Len(s) = 1 /\ s[1] = <<0, 1>>
      BY DEF FieldSeqs
    <3> QED  BY Zenon, <3>1, <3>2
  <2>2. Values(f[1]) = {1} /\ KeysOf(f[1]) = {}
    BY <2>1 DEF Values, KeysOf
  <2>3. Cardinality({1}) = 1
    BY Zenon, FS_Singleton
  <2> QED  BY <2>1, <2>2, <2>3 DEF Keep
<1> DEFINE S == {i \in Nat : /\ i <= n => Keep(args, f[i], i)
                             /\ i + 1 <= n => Keep(args, f[i + 1], i + 1)}
<1>6. 0 \in S
  BY <1>1, <1>4, <1>5
<1>7. ASSUME NEW i \in Nat, i \in S
      PROVE  i + 1 \in S
  <2>1. ASSUME (i + 1) + 1 <= n
        PROVE  Keep(args, f[(i + 1) + 1], (i + 1) + 1)
    <3> DEFINE j == (i + 1) + 1
    <3>1. j \in 2..n /\ j \in Nat /\ j >= 2 /\ j - 2 = i /\ i <= n
      BY <1>1, <2>1
    <3>2. Keep(args, f[j - 2], j - 2)
      BY <1>7, <3>1
    <3> HIDE DEF j
    <3>3. Keep(args, Pair(args, j) \o f[j - 2], j)
      BY Zenon, <3>1, <3>2, KeepTwoMore
    <3> QED  BY Zenon, <1>3, <3>1, <3>3 DEF j
  <2> QED  BY <1>7, <2>1
<1>8. n \in S
  <2> HIDE DEF S
  <2> QED  BY Zenon, <1>1, <1>6, <1>7, SetInduction
<1>9. Keep(args, convertToZapAny(args), n)
  BY <1>1, <1>2, <1>8
<1> QED  BY Zenon, <1>9 DEF ArgsKept, Keep, Values, KeysOf, n


-----------------------------------------------------------------------------
(* The order of the files.                                                 *)

(* Files of one directory: finitely many, with names that tell them apart. *)
IsDirectory(files) ==
    /\ IsFiniteSet(files) /\ \A f \in files : f.name \in Nat
    /\ \A f, g \in files : f.name = g.name => f = g

(* Some files of a directory are a directory, of no greater size.          *)
LEMMA SubDirectory ==
    ASSUME NEW files, IsDirectory(files), NEW T \in SUBSET files
    PROVE  /\ IsDirectory(T) /\ Cardinality(T) \in Nat /\ Cardinality(T) <= Cardinality(files)
           /\ Cardinality(T) = 0 <=> T = {}
           /\ \A f \in T : Cardinality(T \ {f}) = Cardinality(T) - 1
<1>1. IsFiniteSet(T) /\ Cardinality(T) <= Cardinality(files)
  BY FS_Subset DEF IsDirectory
<1>2. Cardinality(T) \in Nat
  BY <1>1, FS_CardinalityType
<1>3. Cardinality(T) = 0 <=> T = {}
  BY <1>1, FS_EmptySet
<1>4. \A f \in T : Cardinality(T \ {f}) = Cardinality(T) - 1
  BY <1>1, FS_RemoveElement
<1> QED  BY <1>1, <1>2, <1>3, <1>4 DEF IsDirectory

(* There is a last one among some files of a directory.                    *)
LEMMA LastExists ==
    ASSUME NEW files, IsDirectory(files)
    PROVE  \A T \in SUBSET files : T # {} => \E f \in T : \A g \in T : g.name <= f.name
<1> DEFINE HasLast(T) == \E f \in T : \A g \in T : g.name <= f.name
           S == {n \in Nat : \A T \in SUBSET files : Cardinality(T) = n /\ T # {} => HasLast(T)}
<1>1. 0 \in S
  BY SubDirectory
<1>2. ASSUME NEW n \in Nat, n \in S
      PROVE  n + 1 \in S
  <2>1. ASSUME NEW T \in SUBSET files, Cardinality(T) = n + 1, T # {}
        PROVE  HasLast(T)
    <3>1. PICK x \in T : TRUE
      BY <2>1
    <3> DEFINE R == T \ {x}
    <3>2. R \in SUBSET files /\ Cardinality(R) = n
      BY <2>1, SubDirectory
    <3>3. \A f \in T : f.name \in Nat
      BY DEF IsDirectory
    <3>4. CASE R = {}
      <4>1. T = {x}
        BY <3>4
      <4> QED  BY <3>3, <4>1
    <3>5. CASE R # {}
      <4>1. PICK f \in R : \A g \in R : g.name <= f.name
        BY <1>2, <3>2, <3>5
      <4>2. f \in T /\ x \in T /\ \A g \in T : g = x \/ g.name <= f.name
        BY <4>1
      <4>3. CASE x.name <= f.name
        BY <4>2, <4>3
      <4>4. CASE ~(x.name <= f.name)
        BY <3>3, <4>2, <4>4
      <4> QED  BY <4>3, <4>4
    <3> QED  BY <3>4, <3>5
  <2> QED  BY <2>1
<1>3. Nat \subseteq S
  <2> HIDE DEF S
  <2> QED  BY Zenon, <1>1, <1>2, SetInduction
<1>4. ASSUME NEW T \in SUBSET files, T # {}
      PROVE  HasLast(T)
  <2>1. Cardinality(T) \in S
    BY <1>3, SubDirectory
  <2> QED  BY <1>4, <2>1
<1> QED  BY <1>4

(* LastFile is the last one, and there is only one.                        *)
LEMMA LastIsLast ==
    ASSUME NEW files, IsDirectory(files), NEW T \in SUBSET files, T # {}
    PROVE  /\ LastFile(T) \in T
           /\ \A g \in T : g.name <= LastFile(T).name
           /\ \A f \in T : (\A g \in T : g.name <= f.name) => f = LastFile(T)
<1>1. LastFile(T) \in T /\ \A g \in T : g.name <= LastFile(T).name
  BY Zenon, LastExists DEF LastFile
<1>2. ASSUME NEW f \in T, \A g \in T : g.name <= f.name
      PROVE  f = LastFile(T)
  <2> DEFINE l == LastFile(T)
  <2>1. l \in T /\ f.name <= l.name /\ l.name <= f.name
    BY Zenon, <1>1, <1>2
  <2> HIDE DEF l
  <2>2. f.name = l.name
    BY <2>1 DEF IsDirectory
  <2>3. f = l
    BY Zenon, <2>1, <2>2 DEF IsDirectory
  <2> QED  BY Zenon, <2>3 DEF l
<1> QED  BY Zenon, <1>1, <1>2


-----------------------------------------------------------------------------
(* Loading the files.                                                      *)

(* What is loaded after the files T, given what is after fewer.            *)
AfterFiles(base, after, T) ==
    IF T = {} THEN base ELSE Load(after[T \ {LastFile(T)}], LastFile(T).layer)

(* after is what the fold of LoadFiles defines, on given sets of files.    *)
FoldsTo(base, after, sets) == after = [T \in sets |-> AfterFiles(base, after, T)]

(* The fold defines a function on all sets of files of a directory: on     *)
(* those of at most n files, for every n.                                  *)
LEMMA FoldDefined ==
    ASSUME NEW base, NEW files, IsDirectory(files)
    PROVE  \E after : FoldsTo(base, after, SUBSET files)
<1> DEFINE Upto(n) == {T \in SUBSET files : Cardinality(T) <= n}
           S == {n \in Nat : \E after : FoldsTo(base, after, Upto(n))}
<1>1. 0 \in S
  <2> DEFINE a == [T \in Upto(0) |-> base]
  <2>1. \A T \in Upto(0) : T = {}
    BY SubDirectory
  <2>2. \A T \in Upto(0) : AfterFiles(base, a, T) = base
    BY Zenon, <2>1 DEF AfterFiles
  <2>3. a = [T \in Upto(0) |-> AfterFiles(base, a, T)]
    <3> HIDE DEF Upto
    <3> QED  BY Zenon, <2>2
  <2>4. \E after : FoldsTo(base, after, Upto(0))
    <3> HIDE DEF a
    <3> QED  BY Zenon, <2>3 DEF FoldsTo
  <2> QED  BY Zenon, <2>4
<1>2. ASSUME NEW n \in Nat, n \in S
      PROVE  n + 1 \in S
  <2>1. PICK a : a = [T \in Upto(n) |-> AfterFiles(base, a, T)]
    BY Zenon, <1>2 DEF FoldsTo
  <2> DEFINE b == [T \in Upto(n + 1) |-> IF T \in Upto(n) THEN a[T] ELSE AfterFiles(base, a, T)]
  <2>2. ASSUME NEW T \in Upto(n + 1)
        PROVE  b[T] = AfterFiles(base, b, T)
    <3>1. b[T] = AfterFiles(base, a, T)
      <4> HIDE DEF Upto
      <4> QED  BY Zenon, <2>1
    <3>2. AfterFiles(base, b, T) = AfterFiles(base, a, T)
      <4>1. CASE T = {}
        BY Zenon, <4>1 DEF AfterFiles
      <4>2. CASE T # {}
        <5> DEFINE R == T \ {LastFile(T)}
        <5>1. LastFile(T) \in T /\ T \in SUBSET files
          BY Zenon, <4>2, LastIsLast
        <5>2. Cardinality(R) = Cardinality(T) - 1 /\ Cardinality(T) \in Nat
          BY Zenon, <5>1, SubDirectory
        <5>3. Cardinality(R) <= n /\ Cardinality(R) <= n + 1
          <6> HIDE DEF R
          <6> QED  BY <5>2
        <5>4. R \in Upto(n) /\ R \in Upto(n + 1)
          BY Zenon, <5>1, <5>3
        <5>5. b[R] = a[R]
          <6> HIDE DEF Upto, R
          <6> QED  BY Zenon, <5>4
        <5> HIDE DEF b
        <5> QED  BY Zenon, <4>2, <5>5 DEF AfterFiles
      <4> QED  BY Zenon, <4>1, <4>2
    <3> QED  BY Zenon, <3>1, <3>2
  <2>3. b = [T \in Upto(n + 1) |-> AfterFiles(base, b, T)]
    <3>1. b = [T \in Upto(n + 1) |-> b[T]]
      <4> HIDE DEF Upto
      <4> QED  BY Zenon
    <3> HIDE DEF b, Upto
    <3> QED  BY Zenon, <2>2, <3>1
  <2>4. \E after : FoldsTo(base, after, Upto(n + 1))
    <3> HIDE DEF b
    <3> QED  BY Zenon, <2>3 DEF FoldsTo
  <2>5. n + 1 \in Nat
    OBVIOUS
  <2> HIDE DEF Upto
  <2> QED  BY Zenon, <2>4, <2>5
<1>3. Nat \subseteq S
  <2> HIDE DEF S
  <2> QED  BY Zenon, <1>1, <1>2, SetInduction
<1>4. Cardinality(files) \in Nat /\ Upto(Cardinality(files)) = SUBSET files
  BY SubDirectory
<1>5. Cardinality(files) \in S
  BY Zenon, <1>3, <1>4
<1>6. \E after : FoldsTo(base, after, Upto(Cardinality(files)))
  BY <1>5
<1> HIDE DEF Upto
<1> QED  BY Zenon, <1>4, <1>6

(* LoadFiles returns what the fold defines for all files.                  *)
LEMMA LoadsFold ==
    ASSUME NEW base, NEW files, IsDirectory(files)
    PROVE  \E after : FoldsTo(base, after, SUBSET files) /\ LoadFiles(base, files) = after[files]
<1> DEFINE a == CHOOSE h : h = [T \in SUBSET files |->
                    IF T = {} THEN base ELSE Load(h[T \ {LastFile(T)}], LastFile(T).layer)]
<1>1. PICK h : h = [T \in SUBSET files |->
                    IF T = {} THEN base ELSE Load(h[T \ {LastFile(T)}], LastFile(T).layer)]
  <2>1. PICK h : FoldsTo(base, h, SUBSET files)
    BY Zenon, FoldDefined
  <2> QED  BY Zenon, <2>1 DEF FoldsTo, AfterFiles
<1>2. a = [T \in SUBSET files |->
                    IF T = {} THEN base ELSE Load(a[T \ {LastFile(T)}], LastFile(T).layer)]
  BY Zenon, <1>1
<1>3. LoadFiles(base, files) = a[files]
  BY Zenon DEF LoadFiles, MapThenFoldSet
<1>4. FoldsTo(base, a, SUBSET files)
  BY Zenon, <1>2 DEF FoldsTo, AfterFiles
<1> HIDE DEF a
<1> QED  BY Zenon, <1>3, <1>4


(* The files that set a key.                                               *)
Setters(T, key) == {f \in T : key \in DOMAIN f.layer}

(* k has the keys of the base and of the files T, and of every key the     *)
(* value of the last file that sets it, or else the base's.                *)
Ranked(base, T, k) ==
    /\ DOMAIN k = DOMAIN base \cup UNION {DOMAIN f.layer : f \in T}
    /\ \A key \in DOMAIN k :
          k[key] = IF Setters(T, key) # {} THEN LastFile(Setters(T, key)).layer[key]
                                           ELSE base[key]

(* One more file, after all others, is loaded over them.                   *)
LEMMA RankOneMore ==
    ASSUME NEW base, NEW files, IsDirectory(files), NEW T \in SUBSET files, T # {},
           NEW k, Ranked(base, T \ {LastFile(T)}, k)
    PROVE  Ranked(base, T, Load(k, LastFile(T).layer))
<1> DEFINE l == LastFile(T)
           R == T \ {l}
           m == Load(k, l.layer)
<1>1. l \in T /\ \A g \in T : g.name <= l.name
  BY Zenon, LastIsLast
<1>2. m = [key \in DOMAIN l.layer \cup DOMAIN k |->
              IF key \in DOMAIN l.layer THEN l.layer[key] ELSE k[key]]
  BY Zenon DEF Load
<1>3. DOMAIN k = DOMAIN base \cup UNION {DOMAIN f.layer : f \in R}
  BY Zenon DEF Ranked
<1> HIDE DEF l, m
<1>4. DOMAIN m = DOMAIN l.layer \cup DOMAIN k
  BY Zenon, <1>2
<1>5. DOMAIN m = DOMAIN base \cup UNION {DOMAIN f.layer : f \in T}
  BY Zenon, <1>1, <1>3, <1>4
<1>6. ASSUME NEW key \in DOMAIN m
      PROVE  m[key] = IF Setters(T, key) # {} THEN LastFile(Setters(T, key)).layer[key]
                                              ELSE base[key]
  <2>1. CASE key \in DOMAIN l.layer
    <3>1. l \in Setters(T, key) /\ Setters(T, key) \in SUBSET files /\ Setters(T, key) # {}
      BY Zenon, <1>1, <2>1 DEF Setters
    <3>2. \A g \in Setters(T, key) : g.name <= l.name
      BY Zenon, <1>1 DEF Setters
    <3>3. l = LastFile(Setters(T, key))
      BY Zenon, <3>1, <3>2, LastIsLast
    <3>4. m[key] = l.layer[key]
      BY Zenon, <1>2, <1>6, <2>1
    <3> QED  BY Zenon, <3>1, <3>3, <3>4
  <2>2. CASE key \notin DOMAIN l.layer
    <3>1. Setters(T, key) = Setters(R, key)
      BY Zenon, <2>2 DEF Setters
    <3>2. key \in DOMAIN k /\ m[key] = k[key]
      BY Zenon, <1>2, <1>4, <1>6, <2>2
    <3>3. k[key] = IF Setters(R, key) # {} THEN LastFile(Setters(R, key)).layer[key]
                                           ELSE base[key]
      BY Zenon, <3>2 DEF Ranked, l
    <3> QED  BY Zenon, <3>1, <3>2, <3>3
  <2> QED  BY Zenon, <2>1, <2>2
<1> QED  BY Zenon, <1>5, <1>6 DEF Ranked, l, m

(* Every key has the value of the last file that sets it, however many     *)
(* files there are.                                                        *)
LEMMA FilesRanked ==
    ASSUME NEW base, NEW files, IsDirectory(files)
    PROVE  Ranked(base, files, LoadFiles(base, files))
<1>1. PICK a : FoldsTo(base, a, SUBSET files) /\ LoadFiles(base, files) = a[files]
  BY Zenon, LoadsFold
<1>2. \A T \in SUBSET files : a[T] = AfterFiles(base, a, T)
  BY Zenon, <1>1 DEF FoldsTo
<1> DEFINE S == {n \in Nat : \A T \in SUBSET files : Cardinality(T) = n => Ranked(base, T, a[T])}
<1>3. 0 \in S
  <2>1. ASSUME NEW T \in SUBSET files, Cardinality(T) = 0
        PROVE  Ranked(base, T, a[T])
    <3>1. T = {}
      BY Zenon, <2>1, SubDirectory
    <3>2. a[T] = base
      BY Zenon, <1>2, <3>1 DEF AfterFiles
    <3>3. Ranked(base, {}, base)
      BY DEF Ranked, Setters
    <3> QED  BY Zenon, <3>1, <3>2, <3>3
  <2> QED  BY <2>1
<1>4. ASSUME NEW n \in Nat, n \in S
      PROVE  n + 1 \in S
  <2>1. ASSUME NEW T \in SUBSET files, Cardinality(T) = n + 1
        PROVE  Ranked(base, T, a[T])
    <3> DEFINE R == T \ {LastFile(T)}
    <3>1. T # {}
      <4>1. n + 1 # 0
        OBVIOUS
      <4> QED  BY Zenon, <2>1, <4>1, SubDirectory
    <3>2. LastFile(T) \in T
      BY Zenon, <3>1, LastIsLast
    <3>3. Cardinality(R) = Cardinality(T) - 1
      BY Zenon, <3>2, SubDirectory
    <3>4. Cardinality(R) = n /\ R \in SUBSET files
      <4>1. (n + 1) - 1 = n
        OBVIOUS
      <4> QED  BY Zenon, <2>1, <3>3, <4>1
    <3>5. Ranked(base, R, a[R])
      BY Zenon, <1>4, <3>4
    <3>6. a[T] = Load(a[R], LastFile(T).layer)
      BY Zenon, <1>2, <3>1 DEF AfterFiles
    <3> QED  BY Zenon, <3>1, <3>5, <3>6, RankOneMore
  <2>2. n + 1 \in Nat
    OBVIOUS
  <2> QED  BY Zenon, <2>1, <2>2
<1>5. Nat \subseteq S
  <2> HIDE DEF S
  <2> QED  BY Zenon, <1>3, <1>4, SetInduction
<1>6. Cardinality(files) \in Nat
  BY SubDirectory
<1> QED  BY Zenon, <1>1, <1>5, <1>6


-----------------------------------------------------------------------------
(* The ranking of the layers.                                              *)

(* The environment's spellings differ for different keys, and one that is  *)
(* no key's own spelling is no key.                                        *)
LEMMA LowerFacts ==
    /\ \A x, y \in Keys : Lower(x) = Lower(y) => x = y
    /\ \A x \in Keys : Lower(x) \in Keys => Lower(x) = x
    /\ Lower("reboot.checkInterval") # "reboot.checkInterval"
<1>1. /\ Lower("reboot.checkInterval") = "reboot.checkinterval"
      /\ Lower("containerNode") = "containernode"
      /\ \A x : x # "reboot.checkInterval" /\ x # "containerNode" => Lower(x) = x
  <2>1. "reboot.checkInterval" # "containerNode"
    OBVIOUS
  <2> QED  BY Zenon, <2>1 DEF Lower
<1>2. \A x \in Keys : \/ x = "reboot.checkInterval" /\ Lower(x) = "reboot.checkinterval"
                      \/ x = "containerNode" /\ Lower(x) = "containernode"
                      \/ x \notin {"reboot.checkInterval", "containerNode"} /\ Lower(x) = x
  BY Zenon, <1>1
<1>3. "reboot.checkinterval" \notin Keys /\ "containernode" \notin Keys
  BY DEF Keys
<1>4. "reboot.checkinterval" # "containernode" /\ "reboot.checkinterval" # "reboot.checkInterval"
  OBVIOUS
<1>5. \A x, y \in Keys : Lower(x) = Lower(y) => x = y
  BY <1>2, <1>3
<1>6. \A x \in Keys : Lower(x) \in Keys => Lower(x) = x
  BY Zenon, <1>2, <1>3
<1> QED  BY Zenon, <1>1, <1>4, <1>5, <1>6

(* The defaults and the environment's layer under them.                    *)
LEMMA BaseFacts ==
    ASSUME NEW env
    PROVE  /\ DOMAIN Defaults = {"log.level", "log.format", "reboot.checkInterval"}
           /\ Defaults["reboot.checkInterval"] = "12h"
           /\ DOMAIN Load(Defaults, EnvLayer(env)) = DOMAIN EnvLayer(env) \cup DOMAIN Defaults
           /\ \A x \in DOMAIN EnvLayer(env) : Load(Defaults, EnvLayer(env))[x] = EnvLayer(env)[x]
           /\ \A x \in DOMAIN Defaults \ DOMAIN EnvLayer(env) :
                 Load(Defaults, EnvLayer(env))[x] = Defaults[x]
           /\ DOMAIN EnvLayer(env) = {Lower(x) : x \in DOMAIN env}
<1>1. DOMAIN Defaults = {"log.level", "log.format", "reboot.checkInterval"}
  BY Zenon DEF Defaults
<1>2. Defaults["reboot.checkInterval"] = "12h"
  <2>1. "reboot.checkInterval" # "log.level" /\ "reboot.checkInterval" # "log.format"
    OBVIOUS
  <2> QED  BY Zenon, <2>1 DEF Defaults
<1>3. DOMAIN EnvLayer(env) = {Lower(x) : x \in DOMAIN env}
  BY Zenon DEF EnvLayer
<1> DEFINE d == Defaults
           e == EnvLayer(env)
<1> HIDE DEF d, e
<1>4. /\ DOMAIN Load(d, e) = DOMAIN e \cup DOMAIN d
      /\ \A x \in DOMAIN e : Load(d, e)[x] = e[x]
      /\ \A x \in DOMAIN d \ DOMAIN e : Load(d, e)[x] = d[x]
  BY Zenon DEF Load
<1> QED  BY Zenon, <1>1, <1>2, <1>3, <1>4 DEF d, e

(* What LoadConfig loads: the keys, and the value of each.                 *)
LEMMA KoanfFacts ==
    ASSUME NEW dep, IsSource(dep)
    PROVE  LET base == Load(Defaults, EnvLayer(dep.env))
               setters(x) == Setters(LoadedFiles(dep), x)
           IN  /\ \A x : x \in DOMAIN Koanf(dep) <=> x \in DOMAIN base \/ setters(x) # {}
               /\ \A x : setters(x) # {} => Koanf(dep)[x] = LastFile(setters(x)).layer[x]
               /\ \A x \in DOMAIN base : setters(x) = {} => Koanf(dep)[x] = base[x]
               /\ \A x : setters(x) # {} => x \in Keys /\ LastFile(setters(x)).layer[x] # NoValue
<1> DEFINE base == Load(Defaults, EnvLayer(dep.env))
           F == LoadedFiles(dep)
<1>1. F \subseteq dep.files
  BY Zenon DEF LoadedFiles
<1>2. IsDirectory(dep.files)
  BY Zenon DEF IsSource, IsDirectory
<1>3. IsDirectory(F)
  BY Zenon, <1>1, <1>2, SubDirectory
<1>4. Ranked(base, F, Koanf(dep))
  BY Zenon, <1>3, FilesRanked DEF Koanf
<1>5. \A x : Setters(F, x) # {} <=> x \in UNION {DOMAIN f.layer : f \in F}
  BY DEF Setters
<1> HIDE DEF base, F
<1>6. \A x : x \in DOMAIN Koanf(dep) <=> x \in DOMAIN base \/ Setters(F, x) # {}
  BY Zenon, <1>4, <1>5 DEF Ranked
<1>7. \A x \in DOMAIN Koanf(dep) :
          Koanf(dep)[x] = IF Setters(F, x) # {} THEN LastFile(Setters(F, x)).layer[x]
                                                ELSE base[x]
  BY Zenon, <1>4 DEF Ranked
<1>8. ASSUME NEW x, Setters(F, x) # {}
      PROVE  x \in Keys /\ LastFile(Setters(F, x)).layer[x] # NoValue
  <2>1. Setters(F, x) \in SUBSET F
    BY Zenon DEF Setters
  <2>2. LastFile(Setters(F, x)) \in Setters(F, x)
    BY Zenon, <1>3, <1>8, <2>1, LastIsLast
  <2> QED  BY Zenon, <1>1, <2>2 DEF Setters, IsSource, IsLayer
<1> QED  BY Zenon, <1>6, <1>7, <1>8 DEF base, F


(* For every directory of files and every environment, each field of the   *)
(* decoded configuration has the value that the ranking of the layers      *)
(* gives it: of the last good YAML file that sets it; without one, of the  *)
(* environment, unless a default of another spelling hides it; or else of  *)
(* the defaults.                                                           *)
THEOREM RankingDecides ==
    ASSUME NEW dep, IsSource(dep), NEW key \in Keys
    PROVE  Field(Koanf(dep), key) = Decided(dep, key)
<1> DEFINE F == LoadedFiles(dep)
           e == EnvLayer(dep.env)
           base == Load(Defaults, e)
           k == Koanf(dep)
           named == {x \in DOMAIN dep.env : Lower(x) = Lower(key)}
           hidden == key \in DOMAIN Defaults /\ Lower(key) # key
<1> SUFFICES Field(k, key) = Decided(dep, key)
  OBVIOUS
<1>1. Decided(dep, key) =
          IF Setters(F, key) # {} THEN LastFile(Setters(F, key)).layer[key]
          ELSE IF named # {} /\ ~hidden THEN e[Lower(key)] ELSE Value(Defaults, key)
  BY Zenon DEF Decided, Setters
<1>2. /\ \A x : x \in DOMAIN k <=> x \in DOMAIN base \/ Setters(F, x) # {}
      /\ \A x : Setters(F, x) # {} => k[x] = LastFile(Setters(F, x)).layer[x]
      /\ \A x \in DOMAIN base : Setters(F, x) = {} => k[x] = base[x]
      /\ \A x : Setters(F, x) # {} => x \in Keys
  BY Zenon, KoanfFacts
<1>3. /\ DOMAIN base = DOMAIN e \cup DOMAIN Defaults
      /\ \A x \in DOMAIN e : base[x] = e[x]
      /\ \A x \in DOMAIN Defaults \ DOMAIN e : base[x] = Defaults[x]
      /\ DOMAIN e = {Lower(x) : x \in DOMAIN dep.env}
      /\ DOMAIN Defaults \subseteq Keys
  BY Zenon, BaseFacts DEF Keys
<1>4. DOMAIN dep.env \subseteq Keys
  BY Zenon DEF IsSource, IsLayer
<1>5. Lower(key) \in DOMAIN e <=> named # {}
  <2>1. ASSUME NEW x \in DOMAIN dep.env, Lower(key) = Lower(x)
        PROVE  x \in named
    BY Zenon, <2>1
  <2>2. ASSUME NEW x \in named
        PROVE  Lower(key) \in DOMAIN e
    BY Zenon, <1>3
  <2>3. Lower(key) \in DOMAIN e => \E x \in DOMAIN dep.env : Lower(key) = Lower(x)
    BY Zenon, <1>3
  <2> HIDE DEF named, e
  <2>4. named # {} => \E x : x \in named
    BY Zenon
  <2> QED  BY Zenon, <2>1, <2>2, <2>3, <2>4
<1>6. Lower(key) # key => key \notin DOMAIN e /\ Lower(key) \notin Keys
  BY Zenon, <1>3, <1>4, LowerFacts
<1>7. Field(k, key) = IF key \in DOMAIN k THEN k[key] ELSE Value(k, Lower(key))
  BY Zenon DEF Field
<1> HIDE DEF F, e, base, k, named
<1>8. CASE Setters(F, key) # {}
  BY Zenon, <1>1, <1>2, <1>7, <1>8
<1>9. CASE Setters(F, key) = {} /\ Lower(key) = key
  <2>1. CASE named # {}
    BY Zenon, <1>1, <1>2, <1>3, <1>5, <1>7, <1>9, <2>1
  <2>2. CASE named = {} /\ key \in DOMAIN Defaults
    BY Zenon, <1>1, <1>2, <1>3, <1>5, <1>7, <1>9, <2>2 DEF Value
  <2>3. CASE named = {} /\ key \notin DOMAIN Defaults
    BY Zenon, <1>1, <1>2, <1>3, <1>5, <1>7, <1>9, <2>3 DEF Value
  <2> QED  BY Zenon, <2>1, <2>2, <2>3
<1>10. CASE Setters(F, key) = {} /\ hidden
  BY Zenon, <1>1, <1>2, <1>3, <1>6, <1>7, <1>10 DEF Value
<1>11. CASE Setters(F, key) = {} /\ Lower(key) # key /\ key \notin DOMAIN Defaults
  <2>1. key \notin DOMAIN k /\ Field(k, key) = Value(k, Lower(key))
    BY Zenon, <1>2, <1>3, <1>6, <1>7, <1>11
  <2>2. Setters(F, Lower(key)) = {} /\ Lower(key) \notin DOMAIN Defaults
    BY Zenon, <1>2, <1>3, <1>6, <1>11
  <2>3. CASE named # {}
    BY Zenon, <1>1, <1>2, <1>3, <1>5, <1>11, <2>1, <2>2, <2>3 DEF Value
  <2>4. CASE named = {}
    BY Zenon, <1>1, <1>2, <1>3, <1>5, <1>11, <2>1, <2>2, <2>4 DEF Value
  <2> QED  BY Zenon, <2>3, <2>4
<1> QED  BY Zenon, <1>8, <1>9, <1>10, <1>11

(* A configuration that LoadConfig accepts has, under the exact spelling   *)
(* that the controller reads, a check interval that decodes.               *)
LEMMA IntervalDecodes ==
    ASSUME NEW dep, IsSource(dep), ~ConfigFails(dep)
    PROVE  Value(Koanf(dep), "reboot.checkInterval") \in {"12h", "1h"}
<1> DEFINE key == "reboot.checkInterval"
           k == Koanf(dep)
           base == Load(Defaults, EnvLayer(dep.env))
           F == LoadedFiles(dep)
<1>1. key \in Keys
  BY DEF Keys
<1>2. key \in DOMAIN Defaults /\ Defaults[key] = "12h" /\ key \in DOMAIN base
  BY Zenon, BaseFacts
<1>3. key \in DOMAIN k
  BY Zenon, <1>2, KoanfFacts
<1>4. Field(k, key) = k[key] /\ Value(k, key) = k[key]
  BY Zenon, <1>3 DEF Field, Value
<1>5. Decodes(key, k[key])
  BY Zenon, <1>1, <1>4 DEF ConfigFails
<1>6. k[key] \in {"12h", "1h", NoValue}
  BY Zenon, <1>5 DEF Decodes
<1>7. k[key] # NoValue
  <2>1. CASE Setters(F, key) # {}
    BY Zenon, <2>1, KoanfFacts
  <2>2. CASE Setters(F, key) = {}
    <3>1. k[key] = base[key]
      BY Zenon, <1>2, <2>2, KoanfFacts
    <3>2. key \notin DOMAIN EnvLayer(dep.env)
      <4>1. \A x \in DOMAIN dep.env : x \in Keys
        BY Zenon DEF IsSource, IsLayer
      <4>2. \A x \in Keys : Lower(x) # key
        BY Zenon, <1>1, LowerFacts
      <4>3. DOMAIN EnvLayer(dep.env) = {Lower(x) : x \in DOMAIN dep.env}
        BY Zenon, BaseFacts
      <4> HIDE DEF key
      <4> QED  BY Zenon, <4>1, <4>2, <4>3
    <3>3. base[key] = "12h"
      BY Zenon, <1>2, <3>2, BaseFacts
    <3> QED  BY <3>1, <3>3 DEF NoValue
  <2> QED  BY Zenon, <2>1, <2>2
<1> QED  BY Zenon, <1>4, <1>6, <1>7

=============================================================================
