-------------------------- MODULE SettingsProofs --------------------------
(***************************************************************************)
(* Proofs about the settings, for any number of engine processes, any      *)
(* values and any number of changes.                                       *)
(***************************************************************************)
EXTENDS Settings, SequenceTheorems, TLAPS

\* The two writes of a migration.
Conv == <<"conversion", "simple">>
Unset == <<"plainZhuyin", "unset">>

Keys == {"kbType", "selKeys", "candPerPage", "conversion", "sync", "plainZhuyin"}

\* How far a migration can be: what it wrote and what it still has to write.
Untouched(w, t) ==
  \/ w = <<>> /\ t = <<Conv, Unset>>
  \/ w = <<Conv>> /\ t = <<Unset>>
  \/ w = <<Conv, Unset>> /\ t = <<>>

Progress(w, t) ==
  \/ Untouched(w, t)
  \/ w = <<>> /\ t = <<>>
  \/ w = <<>> /\ t = <<Unset>>
  \/ w = <<Unset>> /\ t = <<>>

\* A migration that resets the old setting made the new one before.
MigrationInv ==
  /\ store = [k \in Keys |-> store[k]]
  /\ pc \in [Procs -> {"off", "migrating", "running"}]
  /\ todo \in [Procs -> Seq({Conv, Unset})]
  /\ writes \in [Procs -> Seq({Conv, Unset})]
  /\ \A p \in Procs : /\ Progress(writes[p], todo[p])
                      /\ pc[p] = "off" => writes[p] = <<>> /\ todo[p] = <<>>
  /\ asked => store["plainZhuyin"] # "false"
  /\ asked /\ ~chosen =>
       \/ store["conversion"] = "simple"
       \/ /\ store["plainZhuyin"] = "true"
          /\ \A p \in Procs : Untouched(writes[p], todo[p]) \/ (writes[p] = <<>> /\ todo[p] = <<>>)

\* The steps of the queues of one process.
LEMMA QueueSteps ==
  ASSUME NEW w \in Seq({Conv, Unset}), NEW t \in Seq({Conv, Unset}), Progress(w, t)
  PROVE  /\ t # <<>> => /\ Progress(Append(w, Head(t)), Tail(t))
                        /\ Tail(t) \in Seq({Conv, Unset})
                        /\ Append(w, Head(t)) \in Seq({Conv, Unset})
                        /\ Untouched(w, t) => Untouched(Append(w, Head(t)), Tail(t))
         /\ w # <<>> => /\ Progress(Tail(w), t)
                        /\ Tail(w) \in Seq({Conv, Unset})
                        /\ Untouched(w, t) => Head(w) = Conv
                        /\ Head(w) \in {Conv, Unset}
  <1>1. CASE w = <<>> /\ t = <<Conv, Unset>>
    <2>1. /\ Append(w, Head(t)) = <<Conv>>
          /\ Tail(t) = <<Unset>>
          /\ t # <<>>
      BY <1>1
    <2>2. QED  BY <1>1, <2>1 DEF Progress, Untouched
  <1>2. CASE w = <<Conv>> /\ t = <<Unset>>
    <2>1. Head(t) = Unset /\ Append(<<Conv>>, Unset) = <<Conv, Unset>>
      <3>1. Head(t) = Unset
        BY <1>2
      <3>2. Append(<<Conv>>, Unset) = <<Conv, Unset>>
        <4>1. <<Conv>> \in Seq({Conv, Unset}) /\ <<Conv, Unset>> \in Seq({Conv, Unset})
          OBVIOUS
        <4>2. /\ Append(<<Conv>>, Unset) \in Seq({Conv, Unset})
              /\ Len(Append(<<Conv>>, Unset)) = 2
              /\ Append(<<Conv>>, Unset)[1] = Conv
              /\ Append(<<Conv>>, Unset)[2] = Unset
          BY <4>1, AppendProperties
        <4>3. /\ Len(<<Conv, Unset>>) = 2
              /\ <<Conv, Unset>>[1] = Conv
              /\ <<Conv, Unset>>[2] = Unset
          OBVIOUS
        <4>4. \A i \in 1..2 : Append(<<Conv>>, Unset)[i] = <<Conv, Unset>>[i]
          <5>1. ASSUME NEW i \in 1..2 PROVE i = 1 \/ i = 2
            OBVIOUS
          <5>2. QED  BY <4>2, <4>3, <5>1, Zenon
        <4>5. QED  BY <4>1, <4>2, <4>3, <4>4, SeqEqual, Zenon
      <3>3. QED  BY <3>1, <3>2
    <2>0. Tail(t) = <<>>
      BY <1>2
    <2>2. Tail(w) = <<>> /\ Head(w) = Conv
      BY <1>2
    <2>3. QED  BY <1>2, <2>0, <2>1, <2>2 DEF Progress, Untouched
  <1>3. CASE w = <<Conv, Unset>> /\ t = <<>>
    <2>1. /\ Tail(w) = <<Unset>>
          /\ Head(w) = Conv
      BY <1>3
    <2>2. QED  BY <1>3, <2>1 DEF Progress, Untouched
  <1>4. CASE w = <<>> /\ t = <<>>
    BY <1>4 DEF Progress, Untouched
  <1>5. CASE w = <<>> /\ t = <<Unset>>
    <2>1. /\ Append(w, Head(t)) = <<Unset>>
          /\ Tail(t) = <<>>
      BY <1>5
    <2>2. QED  BY <1>5, <2>1 DEF Progress, Untouched
  <1>6. CASE w = <<Unset>> /\ t = <<>>
    <2>1. /\ Tail(w) = <<>>
          /\ Head(w) = Unset
      BY <1>6
    <2>2. QED  BY <1>6, <2>1 DEF Progress, Untouched
  <1>7. QED  BY <1>1, <1>2, <1>3, <1>4, <1>5, <1>6 DEF Progress, Untouched

LEMMA KeysAre ==
  /\ BoundKeys \subseteq Keys
  /\ IdKeys \subseteq BoundKeys
  /\ "plainZhuyin" \notin BoundKeys
  BY DEF BoundKeys, IdKeys, Ids, Keys

LEMMA MigrationInvInit == SettingsInit => MigrationInv
  <1>1. SUFFICES ASSUME SettingsInit PROVE MigrationInv
    OBVIOUS
  <1>2. /\ store = [k \in Keys |-> store[k]]
        /\ pc \in [Procs -> {"off", "migrating", "running"}]
        /\ asked => store["plainZhuyin"] = "true"
    BY <1>1 DEF SettingsInit, Keys
  <1>3. /\ todo \in [Procs -> Seq({Conv, Unset})]
        /\ writes \in [Procs -> Seq({Conv, Unset})]
        /\ \A p \in Procs : writes[p] = <<>> /\ todo[p] = <<>>
    BY <1>1 DEF SettingsInit
  <1>4. QED  BY <1>2, <1>3 DEF MigrationInv, Progress

\* A step that leaves the store and the queues alone.
LEMMA MigrationInvIdle ==
  ASSUME MigrationInv,
         UNCHANGED <<store, todo, writes, asked, chosen>>,
         pc' \in [Procs -> {"off", "migrating", "running"}],
         \A p \in Procs : pc'[p] = "off" => pc[p] = "off"
  PROVE  MigrationInv'
  BY DEF MigrationInv

\* A setting that is given a value from outside.
LEMMA MigrationInvChoice ==
  ASSUME MigrationInv, NEW k \in BoundKeys, NEW v, NEW writer,
         Choose(k), Write(k, v, writer), UNCHANGED <<pc, todo, writes, asked>>
  PROVE  MigrationInv'
  <1>1. /\ store' = [store EXCEPT ![k] = v]
        /\ k \in Keys /\ k # "plainZhuyin"
        /\ chosen' = (chosen \/ k = "conversion")
    BY KeysAre DEF Write, Choose
  <1>2. /\ store' = [j \in Keys |-> store'[j]]
        /\ store'["plainZhuyin"] = store["plainZhuyin"]
        /\ k # "conversion" => store'["conversion"] = store["conversion"]
    BY <1>1 DEF MigrationInv, Keys
  <1>3. asked' /\ ~chosen' => asked /\ ~chosen /\ k # "conversion"
    BY <1>1
  <1>4. QED  BY <1>2, <1>3 DEF MigrationInv

LEMMA MigrationInvNext == MigrationInv /\ [SettingsNext]_settingsVars => MigrationInv'
  <1>1. SUFFICES ASSUME MigrationInv, [SettingsNext]_settingsVars PROVE MigrationInv'
    OBVIOUS
  <1>2. CASE UNCHANGED settingsVars
    BY <1>1, <1>2, MigrationInvIdle DEF settingsVars, MigrationInv
  <1>3. ASSUME NEW p \in Procs, Launch(p) PROVE MigrationInv'
    <2>1. /\ writes[p] = <<>>
          /\ todo' = [todo EXCEPT ![p] = Migration(store["plainZhuyin"])]
          /\ pc' = [pc EXCEPT ![p] = "migrating"]
          /\ UNCHANGED <<store, writes, asked, chosen>>
      BY <1>1, <1>3 DEF Launch, MigrationInv
    <2>2. /\ Migration(store["plainZhuyin"]) \in Seq({Conv, Unset})
          /\ Progress(<<>>, Migration(store["plainZhuyin"]))
          /\ store["plainZhuyin"] = "true" =>
               Untouched(<<>>, Migration(store["plainZhuyin"]))
      <3>1. Migration(store["plainZhuyin"]) =
              IF store["plainZhuyin"] = "true" THEN <<Conv, Unset>>
              ELSE IF store["plainZhuyin"] = "false" THEN <<Unset>> ELSE <<>>
        BY Zenon DEF Migration, Conv, Unset
      <3>2. CASE store["plainZhuyin"] = "true"
        BY <3>1, <3>2 DEF Progress, Untouched
      <3>3. CASE store["plainZhuyin"] = "false"
        BY <3>1, <3>3 DEF Progress, Untouched
      <3>4. CASE store["plainZhuyin"] # "true" /\ store["plainZhuyin"] # "false"
        BY <3>1, <3>4 DEF Progress, Untouched
      <3>5. QED  BY <3>2, <3>3, <3>4
    <2>3. /\ todo' \in [Procs -> Seq({Conv, Unset})]
          /\ pc' \in [Procs -> {"off", "migrating", "running"}]
      BY <1>1, <2>1, <2>2 DEF MigrationInv
    <2>4. ASSUME NEW q \in Procs
          PROVE  /\ q # p => todo'[q] = todo[q] /\ pc'[q] = pc[q]
                 /\ todo'[p] = Migration(store["plainZhuyin"])
                 /\ pc'[p] = "migrating"
      BY <1>1, <2>1 DEF MigrationInv
    <2>5. \A q \in Procs : /\ Progress(writes'[q], todo'[q])
                           /\ pc'[q] = "off" => writes'[q] = <<>> /\ todo'[q] = <<>>
      BY <1>1, <2>1, <2>2, <2>4 DEF MigrationInv
    <2>6. QED  BY <1>1, <2>1, <2>2, <2>3, <2>4, <2>5 DEF MigrationInv
  <1>4. ASSUME NEW p \in Procs, Migrate(p) PROVE MigrationInv'
    <2>1. /\ pc[p] = "migrating" /\ todo[p] # <<>>
          /\ todo' = [todo EXCEPT ![p] = Tail(todo[p])]
          /\ writes' = [writes EXCEPT ![p] = Append(writes[p], Head(todo[p]))]
          /\ UNCHANGED <<store, pc, asked, chosen>>
      BY <1>4 DEF Migrate
    <2>2. /\ writes[p] \in Seq({Conv, Unset}) /\ todo[p] \in Seq({Conv, Unset})
          /\ Progress(writes[p], todo[p])
      BY <1>1 DEF MigrationInv
    <2>3. /\ Progress(Append(writes[p], Head(todo[p])), Tail(todo[p]))
          /\ Tail(todo[p]) \in Seq({Conv, Unset})
          /\ Append(writes[p], Head(todo[p])) \in Seq({Conv, Unset})
          /\ Untouched(writes[p], todo[p]) =>
               Untouched(Append(writes[p], Head(todo[p])), Tail(todo[p]))
      BY <2>1, <2>2, QueueSteps
    <2>4. /\ todo' \in [Procs -> Seq({Conv, Unset})]
          /\ writes' \in [Procs -> Seq({Conv, Unset})]
      BY <1>1, <2>1, <2>3 DEF MigrationInv
    <2>5. ASSUME NEW q \in Procs
          PROVE  /\ q # p => todo'[q] = todo[q] /\ writes'[q] = writes[q]
                 /\ todo'[p] = Tail(todo[p])
                 /\ writes'[p] = Append(writes[p], Head(todo[p]))
      BY <1>1, <2>1 DEF MigrationInv
    <2>6. \A q \in Procs : /\ Progress(writes'[q], todo'[q])
                           /\ pc'[q] = "off" => writes'[q] = <<>> /\ todo'[q] = <<>>
      BY <1>1, <2>1, <2>3, <2>5 DEF MigrationInv
    <2>7. QED  BY <1>1, <2>1, <2>3, <2>4, <2>5, <2>6 DEF MigrationInv
  <1>5. ASSUME NEW p \in Procs, StartComponent(p) PROVE MigrationInv'
    <2>1. /\ pc' = [pc EXCEPT ![p] = "running"]
          /\ UNCHANGED <<store, todo, writes, asked, chosen>>
      BY <1>5 DEF StartComponent
    <2>2. QED  BY <1>1, <2>1, MigrationInvIdle DEF MigrationInv
  <1>6. ASSUME NEW p \in Procs, Exit(p) PROVE MigrationInv'
    <2>1. /\ pc' = [pc EXCEPT ![p] = "off"]
          /\ todo' = [todo EXCEPT ![p] = <<>>]
          /\ writes' = [writes EXCEPT ![p] = <<>>]
          /\ UNCHANGED <<store, asked, chosen>>
      BY <1>6 DEF Exit
    <2>2. /\ todo' \in [Procs -> Seq({Conv, Unset})]
          /\ writes' \in [Procs -> Seq({Conv, Unset})]
          /\ pc' \in [Procs -> {"off", "migrating", "running"}]
      BY <1>1, <2>1 DEF MigrationInv
    <2>3. \A q \in Procs :
            \/ writes'[q] = <<>> /\ todo'[q] = <<>>
            \/ writes'[q] = writes[q] /\ todo'[q] = todo[q] /\ pc'[q] = pc[q]
      BY <1>1, <2>1 DEF MigrationInv
    <2>4. QED  BY <1>1, <2>1, <2>2, <2>3 DEF MigrationInv, Progress
  <1>7. ASSUME NEW p \in Procs, Flush(p) PROVE MigrationInv'
    <2>1. /\ writes[p] # <<>>
          /\ store' = [store EXCEPT ![Head(writes[p])[1]] = Head(writes[p])[2]]
          /\ writes' = [writes EXCEPT ![p] = Tail(writes[p])]
          /\ UNCHANGED <<pc, todo, asked, chosen>>
      BY <1>7 DEF Flush, Write
    <2>2. /\ writes[p] \in Seq({Conv, Unset}) /\ todo[p] \in Seq({Conv, Unset})
          /\ Progress(writes[p], todo[p])
      BY <1>1 DEF MigrationInv
    <2>3. /\ Progress(Tail(writes[p]), todo[p])
          /\ Tail(writes[p]) \in Seq({Conv, Unset})
          /\ Untouched(writes[p], todo[p]) => Head(writes[p]) = Conv
          /\ Head(writes[p]) \in {Conv, Unset}
      BY <2>1, <2>2, QueueSteps
    <2>4. /\ writes' \in [Procs -> Seq({Conv, Unset})]
          /\ \A q \in Procs : q # p => writes'[q] = writes[q]
          /\ writes'[p] = Tail(writes[p])
      BY <1>1, <2>1, <2>3 DEF MigrationInv
    <2>5. \A q \in Procs : /\ Progress(writes'[q], todo'[q])
                           /\ pc'[q] = "off" => writes'[q] = <<>> /\ todo'[q] = <<>>
      BY <1>1, <2>1, <2>3, <2>4 DEF MigrationInv
    <2>6. CASE Head(writes[p]) = Conv
      <3>1. store' = [store EXCEPT !["conversion"] = "simple"]
        <4>1. Head(writes[p])[1] = "conversion" /\ Head(writes[p])[2] = "simple"
          BY <2>6 DEF Conv
        <4>2. QED  BY <2>1, <4>1
      <3>2. /\ store' = [j \in Keys |-> store'[j]]
            /\ store'["conversion"] = "simple"
            /\ store'["plainZhuyin"] = store["plainZhuyin"]
        BY <1>1, <3>1 DEF MigrationInv, Keys
      <3>3. QED  BY <1>1, <2>1, <2>4, <2>5, <3>2 DEF MigrationInv
    <2>7. CASE Head(writes[p]) = Unset
      <3>1. store' = [store EXCEPT !["plainZhuyin"] = "unset"]
        <4>1. Head(writes[p])[1] = "plainZhuyin" /\ Head(writes[p])[2] = "unset"
          BY <2>7 DEF Unset
        <4>2. QED  BY <2>1, <4>1
      <3>2. /\ store' = [j \in Keys |-> store'[j]]
            /\ store'["conversion"] = store["conversion"]
            /\ store'["plainZhuyin"] = "unset"
        BY <1>1, <3>1 DEF MigrationInv, Keys
      <3>3. ~Untouched(writes[p], todo[p])
        BY <2>3, <2>7 DEF Conv, Unset
      <3>4. asked /\ ~chosen => store["conversion"] = "simple"
        BY <1>1, <2>1, <3>3 DEF MigrationInv
      <3>5. QED  BY <1>1, <2>1, <2>4, <2>5, <3>2, <3>4 DEF MigrationInv
    <2>8. QED  BY <2>3, <2>6, <2>7
  <1>8. ASSUME NEW p \in Procs, Dispatch(p) PROVE MigrationInv'
    <2>1. UNCHANGED <<store, pc, todo, writes, asked, chosen>>
      BY <1>8 DEF Dispatch, Notice
    <2>2. QED  BY <1>1, <2>1, MigrationInvIdle DEF MigrationInv
  <1>9. CASE OpenWindow \/ CloseWindow \/ (\E k \in IdKeys : WindowNotice(k))
    <2>1. UNCHANGED <<store, pc, todo, writes, asked, chosen>>
      BY <1>9 DEF OpenWindow, CloseWindow, WindowNotice
    <2>2. QED  BY <1>1, <2>1, MigrationInvIdle DEF MigrationInv
  <1>10. ASSUME NEW k \in IdKeys, NEW i \in 0..(NumRows[k] - 1), SelectRow(k, i)
         PROVE  MigrationInv'
    <2>1. /\ Choose(k)
          /\ Write(k, Ids[k][i + 1], "window")
          /\ UNCHANGED <<pc, todo, writes, asked>>
      BY <1>10 DEF SelectRow
    <2>2. k \in BoundKeys
      BY KeysAre
    <2>3. QED  BY <1>1, <2>1, <2>2, MigrationInvChoice
  <1>11. ASSUME NEW k \in BoundKeys, NEW v \in Values[k], OtherWrite(k, v)
         PROVE  MigrationInv'
    <2>1. /\ Choose(k)
          /\ Write(k, v, "other")
          /\ UNCHANGED <<pc, todo, writes, asked>>
      BY <1>11 DEF OtherWrite
    <2>2. QED  BY <1>1, <2>1, MigrationInvChoice
  <1>12. QED
    BY <1>1, <1>2, <1>3, <1>4, <1>5, <1>6, <1>7, <1>8, <1>9, <1>10, <1>11
    DEF SettingsNext, ProcNext

\* What an engine's queued and remaining writes will make of the store always
\* keeps plain Zhuyin: the order of the writes in main.c 173-181, kept by every
\* process through every stop.
THEOREM MigrationInvariant == SettingsSpec => []MigrationInv
  <1>1. QED  BY MigrationInvInit, MigrationInvNext, PTL DEF SettingsSpec

\* Plain Zhuyin is not forgotten (main.c 166-179): with any number of engine
\* processes that migrate at once, stop anywhere and start again.
THEOREM PlainZhuyinIsKept == SettingsSpec => []PlainZhuyinKept
  <1>1. MigrationInv => PlainZhuyinKept
    BY DEF MigrationInv, PlainZhuyinKept
  <1>2. QED  BY <1>1, MigrationInvariant, PTL

-----------------------------------------------------------------------------
(* What an engine works with. *)

HasConv(w) == w = <<Conv>> \/ w = <<Conv, Unset>>

PlainKeys == Keys \ {"conversion", "plainZhuyin"}

LEMMA SeenIs ==
  ASSUME NEW s, s = [k \in Keys |-> s[k]], NEW w, NEW t, Progress(w, t)
  PROVE  /\ \A k \in PlainKeys : Seen(s, w)[k] = s[k]
         /\ Seen(s, w)["conversion"] = IF HasConv(w) THEN "simple" ELSE s["conversion"]
  <1>1. CASE w = <<>>
    <2>1. Seen(s, w) = s
      BY <1>1 DEF Seen
    <2>2. QED  BY <1>1, <2>1 DEF HasConv
  <1>2. CASE w = <<Conv>>
    <2>1. Seen(s, w) = With(s, Conv)
      BY <1>2 DEF Seen
    <2>2. Seen(s, w) = [s EXCEPT !["conversion"] = "simple"]
      BY <2>1 DEF With, Conv
    <2>3. QED  BY <1>2, <2>2 DEF HasConv, PlainKeys, Keys
  <1>3. CASE w = <<Unset>>
    <2>1. Seen(s, w) = With(s, Unset)
      BY <1>3 DEF Seen
    <2>2. Seen(s, w) = [s EXCEPT !["plainZhuyin"] = "unset"]
      BY <2>1 DEF With, Unset
    <2>3. ~HasConv(w)
      BY <1>3 DEF HasConv, Conv, Unset
    <2>4. QED  BY <2>2, <2>3 DEF PlainKeys, Keys
  <1>4. CASE w = <<Conv, Unset>>
    <2>1. Seen(s, w) = With(With(s, Conv), Unset)
      BY <1>4 DEF Seen
    <2>2. With(s, Conv) = [s EXCEPT !["conversion"] = "simple"]
      BY DEF With, Conv
    <2>3. Seen(s, w) = [With(s, Conv) EXCEPT !["plainZhuyin"] = "unset"]
      BY <2>1 DEF With, Unset
    <2>4. QED  BY <1>4, <2>2, <2>3 DEF HasConv, PlainKeys, Keys
  <1>5. QED  BY <1>1, <1>2, <1>3, <1>4 DEF Progress, Untouched

\* What was told of p's settings, but for those with a notice due.
Current(l, d, v) ==
  /\ l = [kbType |-> l.kbType, conversion |-> l.conversion, sync |-> l.sync, table |-> l.table]
  /\ "kbType" \notin d => l.kbType = KbTypeIndex(v["kbType"])
  /\ "conversion" \notin d => l.conversion = ConversionIndex(v["conversion"])
  /\ "sync" \notin d => l.sync = SyncFlags(v["sync"])
  /\ "selKeys" \notin d /\ "candPerPage" \notin d => l.table = Table(v)

CurrentInv ==
  /\ lib = [p \in Procs |-> lib[p]]
  /\ due = [x \in Parties |-> due[x]]
  /\ \A p \in Procs : Running(p) => Current(lib[p], due[p], View(p))

\* Values of a store that differ only where a notice is due.
LEMMA CurrentKeeps ==
  ASSUME NEW l, NEW d, NEW e, NEW v, NEW w, Current(l, d, v), d \subseteq e,
         \A k \in BoundKeys : k \notin e => w[k] = v[k]
  PROVE  Current(l, e, w)
  <1>1. {"kbType", "conversion", "sync", "selKeys", "candPerPage"} \subseteq BoundKeys
    BY DEF BoundKeys, IdKeys, Ids
  <1>2. "selKeys" \notin e /\ "candPerPage" \notin e => Table(w) = Table(v)
    BY <1>1 DEF Table
  <1>3. QED  BY <1>1, <1>2 DEF Current

LEMMA CurrentStarts ==
  ASSUME NEW d, NEW v PROVE Current(Bound(v), d, v)
  BY DEF Current, Bound

LEMMA CurrentTold ==
  ASSUME NEW l, NEW d, NEW v, NEW k \in d, k \in BoundKeys, Current(l, d, v)
  PROVE  Current(SetProperty(l, k, v), d \ {k}, v)
  <1>1. k \in {"kbType", "conversion", "sync", "selKeys", "candPerPage"}
    BY DEF BoundKeys, IdKeys, Ids
  <1>2. CASE k = "kbType"
    <2>1. SetProperty(l, k, v) = [l EXCEPT !.kbType = KbTypeIndex(v.kbType)]
      BY <1>2 DEF SetProperty
    <2>2. QED  BY <1>2, <2>1 DEF Current
  <1>3. CASE k = "conversion"
    <2>1. SetProperty(l, k, v) = [l EXCEPT !.conversion = ConversionIndex(v.conversion)]
      BY <1>3 DEF SetProperty
    <2>2. QED  BY <1>3, <2>1 DEF Current
  <1>4. CASE k = "sync"
    <2>1. SetProperty(l, k, v) = [l EXCEPT !.sync = SyncFlags(v.sync)]
      BY <1>4 DEF SetProperty
    <2>2. QED  BY <1>4, <2>1 DEF Current
  <1>5. CASE k \in {"selKeys", "candPerPage"}
    <2>1. SetProperty(l, k, v) = [l EXCEPT !.table = Table(v)]
      BY <1>5 DEF SetProperty
    <2>2. QED  BY <1>5, <2>1 DEF Current
  <1>6. QED  BY <1>1, <1>2, <1>3, <1>4, <1>5

\* Where the store and the queue of p did not change, neither did its view.
LEMMA ViewKeeps ==
  ASSUME MigrationInv, MigrationInv', NEW p \in Procs, writes'[p] = writes[p],
         NEW k \in BoundKeys, store'[k] = store[k]
  PROVE  View(p)'[k] = View(p)[k]
  <1>1. k \in PlainKeys \/ k = "conversion"
    BY KeysAre DEF PlainKeys
  <1>2. /\ \A j \in PlainKeys : View(p)[j] = store[j]
        /\ View(p)["conversion"] =
             IF HasConv(writes[p]) THEN "simple" ELSE store["conversion"]
    BY SeenIs DEF View, MigrationInv
  <1>3. /\ \A j \in PlainKeys : View(p)'[j] = store'[j]
        /\ View(p)'["conversion"] =
             IF HasConv(writes'[p]) THEN "simple" ELSE store'["conversion"]
    BY SeenIs DEF View, MigrationInv
  <1>4. QED  BY <1>1, <1>2, <1>3

\* A write of another is due to an engine that runs.
LEMMA CurrentWrite ==
  ASSUME MigrationInv, MigrationInv', CurrentInv, NEW p \in Procs, Running(p),
         NEW k, NEW v, NEW writer, writer # p, Write(k, v, writer),
         writes'[p] = writes[p]
  PROVE  Current(lib[p], due'[p], View(p)')
  <1>1. due'[p] = IF k \in BoundKeys THEN due[p] \cup {k} ELSE due[p]
    BY SettingsAssumption DEF Write, Parties
  <1>2. \A j \in BoundKeys : j # k => store'[j] = store[j]
    BY KeysAre DEF Write, MigrationInv
  <1>3. \A j \in BoundKeys : j \notin due'[p] => View(p)'[j] = View(p)[j]
    BY <1>1, <1>2, ViewKeeps
  <1>4. Current(lib[p], due[p], View(p)) /\ due[p] \subseteq due'[p]
    BY <1>1 DEF CurrentInv
  <1>5. QED  BY <1>3, <1>4, CurrentKeeps

LEMMA CurrentInvInit == SettingsInit => CurrentInv
  BY DEF SettingsInit, CurrentInv, Running, Parties

LEMMA CurrentInvNext ==
  ASSUME MigrationInv, MigrationInv', CurrentInv, [SettingsNext]_settingsVars
  PROVE  CurrentInv'
  <1>1. CASE UNCHANGED settingsVars
    BY <1>1 DEF settingsVars, CurrentInv, Running, View
  <1>2. ASSUME NEW p \in Procs, Launch(p) \/ Migrate(p) PROVE CurrentInv'
    <2>1. /\ UNCHANGED <<store, lib, due>>
          /\ \A q \in Procs : pc'[q] = "running" =>
               pc[q] = "running" /\ writes'[q] = writes[q]
      BY <1>2 DEF Launch, Migrate, MigrationInv
    <2>2. ASSUME NEW q \in Procs, pc'[q] = "running"
          PROVE  Current(lib[q], due[q], View(q)')
      <3>1. Current(lib[q], due[q], View(q))
        BY <2>1, <2>2 DEF CurrentInv, Running
      <3>2. \A j \in BoundKeys : View(q)'[j] = View(q)[j]
        BY <2>1, <2>2, ViewKeeps
      <3>3. QED  BY <3>1, <3>2, CurrentKeeps
    <2>3. QED  BY <2>1, <2>2 DEF CurrentInv, Running
  <1>3. ASSUME NEW p \in Procs, StartComponent(p) PROVE CurrentInv'
    <2>1. /\ pc' = [pc EXCEPT ![p] = "running"]
          /\ lib' = [lib EXCEPT ![p] = Bound(View(p))]
          /\ UNCHANGED <<store, writes, due>>
      BY <1>3 DEF StartComponent
    <2>2. ASSUME NEW q \in Procs PROVE View(q)' = View(q)
      BY <2>1 DEF View
    <2>3. Current(lib'[p], due[p], View(p))
      BY <2>1, CurrentStarts DEF CurrentInv
    <2>4. ASSUME NEW q \in Procs, q # p, pc'[q] = "running"
          PROVE  Current(lib'[q], due[q], View(q))
      BY <2>1, <2>4 DEF CurrentInv, Running, MigrationInv
    <2>5. lib' = [q \in Procs |-> lib'[q]]
      BY <2>1 DEF CurrentInv
    <2>6. QED  BY <2>1, <2>2, <2>3, <2>4, <2>5 DEF CurrentInv, Running
  <1>4. ASSUME NEW p \in Procs, Exit(p) PROVE CurrentInv'
    <2>1. /\ pc' = [pc EXCEPT ![p] = "off"]
          /\ writes' = [writes EXCEPT ![p] = <<>>]
          /\ lib' = [lib EXCEPT ![p] = Unbound]
          /\ due' = [due EXCEPT ![p] = {}]
          /\ UNCHANGED store
      BY <1>4 DEF Exit
    <2>2. /\ lib' = [q \in Procs |-> lib'[q]]
          /\ due' = [x \in Parties |-> due'[x]]
      BY <2>1 DEF CurrentInv
    <2>3. ASSUME NEW q \in Procs, pc'[q] = "running"
          PROVE  Current(lib'[q], due'[q], View(q)')
      <3>1. /\ q # p /\ pc[q] = "running" /\ writes'[q] = writes[q]
            /\ lib'[q] = lib[q] /\ due'[q] = due[q]
        BY <2>1, <2>3 DEF CurrentInv, MigrationInv, Parties
      <3>2. \A j \in BoundKeys : View(q)'[j] = View(q)[j]
        BY <2>1, <3>1, ViewKeeps
      <3>3. QED  BY <3>1, <3>2, CurrentKeeps DEF CurrentInv, Running
    <2>4. QED  BY <2>2, <2>3 DEF CurrentInv, Running
  <1>5. ASSUME NEW p \in Procs, Flush(p) PROVE CurrentInv'
    <2>1. /\ writes[p] # <<>>
          /\ Write(Head(writes[p])[1], Head(writes[p])[2], p)
          /\ writes' = [writes EXCEPT ![p] = Tail(writes[p])]
          /\ UNCHANGED <<pc, lib>>
      BY <1>5 DEF Flush
    <2>2. due' = [x \in Parties |-> due'[x]] /\ due'[p] = due[p]
      BY <2>1 DEF Write, Parties
    <2>3. ASSUME NEW q \in Procs, q # p, Running(q)
          PROVE  Current(lib[q], due'[q], View(q)')
      <3>1. writes'[q] = writes[q]
        BY <2>1, <2>3 DEF MigrationInv
      <3>2. QED  BY <2>1, <2>3, <3>1, CurrentWrite
    <2>4. \A j \in BoundKeys : View(p)'[j] = View(p)[j]
      <3>1. Progress(writes[p], todo[p]) /\ writes'[p] = Tail(writes[p])
        BY <2>1 DEF MigrationInv
      <3>2. /\ \A j \in PlainKeys : View(p)[j] = store[j]
            /\ View(p)["conversion"] =
                 IF HasConv(writes[p]) THEN "simple" ELSE store["conversion"]
        BY SeenIs DEF View, MigrationInv
      <3>3. /\ \A j \in PlainKeys : View(p)'[j] = store'[j]
            /\ View(p)'["conversion"] =
                 IF HasConv(writes'[p]) THEN "simple" ELSE store'["conversion"]
        BY SeenIs DEF View, MigrationInv
      <3>4. \A j \in BoundKeys : j \in PlainKeys \/ j = "conversion"
        BY KeysAre DEF PlainKeys
      <3>5. CASE writes[p] = <<Unset>>
        <4>1. Head(writes[p]) = Unset /\ Tail(writes[p]) = <<>>
          BY <3>5
        <4>2. store' = [store EXCEPT !["plainZhuyin"] = "unset"]
          <5>1. Head(writes[p])[1] = "plainZhuyin" /\ Head(writes[p])[2] = "unset"
            BY <4>1 DEF Unset
          <5>2. QED  BY <2>1, <5>1 DEF Write
        <4>3. ~HasConv(writes[p]) /\ ~HasConv(writes'[p])
          BY <3>1, <3>5, <4>1 DEF HasConv, Conv, Unset
        <4>4. /\ \A j \in PlainKeys : store'[j] = store[j]
              /\ store'["conversion"] = store["conversion"]
          BY <4>2 DEF MigrationInv, PlainKeys, Keys
        <4>5. QED  BY <3>2, <3>3, <3>4, <4>3, <4>4
      <3>6. CASE HasConv(writes[p])
        <4>1. Head(writes[p]) = Conv
          BY <3>6 DEF HasConv
        <4>2. store' = [store EXCEPT !["conversion"] = "simple"]
          <5>1. Head(writes[p])[1] = "conversion" /\ Head(writes[p])[2] = "simple"
            BY <4>1 DEF Conv
          <5>2. QED  BY <2>1, <5>1 DEF Write
        <4>3. /\ \A j \in PlainKeys : store'[j] = store[j]
              /\ store'["conversion"] = "simple"
          BY <4>2 DEF MigrationInv, PlainKeys, Keys
        <4>4. QED  BY <3>2, <3>3, <3>4, <3>6, <4>3
      <3>7. QED  BY <2>1, <3>1, <3>5, <3>6 DEF Progress, Untouched, HasConv
    <2>5. Running(p) => Current(lib[p], due'[p], View(p)')
      BY <2>2, <2>4, CurrentKeeps DEF CurrentInv
    <2>6. QED  BY <2>1, <2>2, <2>3, <2>5 DEF CurrentInv, Running
  <1>6. ASSUME NEW p \in Procs, NEW k \in BoundKeys, Notice(p, k) PROVE CurrentInv'
    <2>1. /\ k \in due[p] /\ Running(p)
          /\ lib' = [lib EXCEPT ![p] = SetProperty(lib[p], k, View(p))]
          /\ due' = [due EXCEPT ![p] = due[p] \ {k}]
          /\ UNCHANGED <<store, pc, writes>>
      BY <1>6 DEF Notice
    <2>2. ASSUME NEW q \in Procs PROVE View(q)' = View(q)
      BY <2>1 DEF View
    <2>3. Current(SetProperty(lib[p], k, View(p)), due[p] \ {k}, View(p))
      BY <2>1, CurrentTold DEF CurrentInv
    <2>4. /\ lib' = [q \in Procs |-> lib'[q]]
          /\ due' = [x \in Parties |-> due'[x]]
          /\ lib'[p] = SetProperty(lib[p], k, View(p)) /\ due'[p] = due[p] \ {k}
          /\ \A q \in Procs : q # p => lib'[q] = lib[q] /\ due'[q] = due[q]
      BY <2>1 DEF CurrentInv, Parties
    <2>5. QED  BY <2>1, <2>2, <2>3, <2>4 DEF CurrentInv, Running
  <1>7. CASE OpenWindow \/ CloseWindow \/ (\E k \in IdKeys : WindowNotice(k))
    <2>1. /\ UNCHANGED <<store, pc, writes, lib>>
          /\ due' = [x \in Parties |-> due'[x]]
          /\ \A q \in Procs : due'[q] = due[q]
      BY <1>7, SettingsAssumption DEF OpenWindow, CloseWindow, WindowNotice, CurrentInv, Parties
    <2>2. ASSUME NEW q \in Procs PROVE View(q)' = View(q)
      BY <2>1 DEF View
    <2>3. QED  BY <2>1, <2>2 DEF CurrentInv, Running
  <1>8. ASSUME NEW k, NEW v, NEW writer \in {"window", "other"}, Write(k, v, writer),
               UNCHANGED <<pc, writes, lib>>
        PROVE  CurrentInv'
    <2>1. \A q \in Procs : writer # q
      BY SettingsAssumption
    <2>2. ASSUME NEW q \in Procs, Running(q)
          PROVE  Current(lib[q], due'[q], View(q)')
      BY <1>8, <2>1, <2>2, CurrentWrite
    <2>3. due' = [x \in Parties |-> due'[x]]
      BY <1>8 DEF Write
    <2>4. QED  BY <1>8, <2>2, <2>3 DEF CurrentInv, Running
  <1>9. ASSUME NEW k \in IdKeys, NEW i \in 0..(NumRows[k] - 1), SelectRow(k, i)
        PROVE  CurrentInv'
    BY <1>8, <1>9 DEF SelectRow
  <1>10. ASSUME NEW k \in BoundKeys, NEW v \in Values[k], OtherWrite(k, v)
         PROVE  CurrentInv'
    BY <1>8, <1>10 DEF OtherWrite
  <1>11. QED
    BY <1>1, <1>2, <1>3, <1>4, <1>5, <1>6, <1>7, <1>9, <1>10
    DEF SettingsNext, ProcNext, Dispatch

\* An engine with no notice due works with the settings there are
\* (ibus_chewing_engine_set_property, engine.c 145-257), whatever changed them
\* and in whatever order it was told.
THEOREM EngineStaysCurrent == SettingsSpec => []EngineIsCurrent
  <1>1. SettingsInit => MigrationInv /\ CurrentInv
    BY MigrationInvInit, CurrentInvInit
  <1>2. /\ MigrationInv /\ CurrentInv
        /\ [SettingsNext]_settingsVars
        => MigrationInv' /\ CurrentInv'
    BY MigrationInvNext, CurrentInvNext
  <1>3. MigrationInv /\ CurrentInv => EngineIsCurrent
    BY DEF CurrentInv, EngineIsCurrent, Current, Bound
  <1>4. QED  BY <1>1, <1>2, <1>3, PTL DEF SettingsSpec

-----------------------------------------------------------------------------
(* What the window shows. *)

\* Every name a setting has is one of those the code knows.
StoreInv == \A k \in IdKeys : store[k] \in Range(Ids[k])

\* The window shows the setting, but for one with a notice due.
RowsInv ==
  Open => /\ rows = [k \in IdKeys |-> rows[k]]
          /\ \A k \in IdKeys : k \notin due["window"] => rows[k] = RowOf(k, store)

\* Names with a semicolon or a space, which SMT cannot take as they are.
HomeRow == "asdfghjkl;"
DvorakRow == "aoeu;qjkix"
FromInputMethod == "input method"

LEMMA IdsAre ==
  /\ IdKeys = {"kbType", "selKeys", "conversion", "sync"}
  /\ Ids["kbType"] = KbTypeIds
  /\ Ids["selKeys"] = SelKeyIds
  /\ Ids["conversion"] = ConversionEngineIds
  /\ Ids["sync"] = SyncCapsLockIds
  BY DEF IdKeys, Ids

LEMMA SyncNamesAre ==
  /\ SyncCapsLockIds[1] = "disable"
  /\ SyncCapsLockIds[2] = "keyboard"
  /\ SyncCapsLockIds[3] = FromInputMethod
  /\ FromInputMethod # "disable"
  /\ FromInputMethod # "keyboard"
  <1>1. /\ SyncCapsLockIds[1] = "disable"
        /\ SyncCapsLockIds[2] = "keyboard"
        /\ SyncCapsLockIds[3] = FromInputMethod
    BY DEF SyncCapsLockIds, FromInputMethod
  <1>2. FromInputMethod # "disable" /\ FromInputMethod # "keyboard"
    BY Zenon DEF FromInputMethod
  <1>3. QED  BY <1>1, <1>2

LEMMA LengthsAre ==
  /\ Len(KbTypeIds) = 17 /\ DOMAIN KbTypeIds = 1..17
  /\ Len(KbTypes) = 17 /\ DOMAIN KbTypes = 1..17
  /\ Len(SelKeyIds) = 8 /\ DOMAIN SelKeyIds = 1..8
  /\ Len(ConversionEngineIds) = 3 /\ DOMAIN ConversionEngineIds = 1..3
  /\ Len(SyncCapsLockIds) = 3 /\ DOMAIN SyncCapsLockIds = 1..3
  BY DEF KbTypeIds, KbTypes, SelKeyIds, ConversionEngineIds, SyncCapsLockIds

LEMMA RowsAre ==
  ASSUME NEW k \in IdKeys
  PROVE  /\ DOMAIN Ids[k] = 1..Len(Ids[k]) /\ Len(Ids[k]) \in 1..17
         /\ k # "sync" => NumRows[k] = Len(Ids[k])
         /\ k = "sync" => NumRows[k] = 2 /\ Len(Ids[k]) = 3
  <1>1. /\ NumRows["kbType"] = 17 /\ NumRows["selKeys"] = 8
        /\ NumRows["conversion"] = 3 /\ NumRows["sync"] = 2
    BY DEF NumRows
  <1>2. k \in {"kbType", "selKeys", "conversion", "sync"}
    BY IdsAre
  <1>3. CASE k = "kbType"
    BY <1>1, <1>3, IdsAre, LengthsAre
  <1>4. CASE k = "selKeys"
    BY <1>1, <1>4, IdsAre, LengthsAre
  <1>5. CASE k = "conversion"
    BY <1>1, <1>5, IdsAre, LengthsAre
  <1>6. CASE k = "sync"
    BY <1>1, <1>6, IdsAre, LengthsAre
  <1>7. QED  BY <1>2, <1>3, <1>4, <1>5, <1>6

\* No name stands twice in its list.
LEMMA NamesDiffer ==
  ASSUME NEW k \in IdKeys, NEW i \in DOMAIN Ids[k], NEW j \in DOMAIN Ids[k],
         Ids[k][i] = Ids[k][j]
  PROVE  i = j
  <1>1. CASE k = "kbType"
    <2>1. i \in 1..17 /\ j \in 1..17 /\ KbTypeIds[i] = KbTypeIds[j]
      BY <1>1, IdsAre, LengthsAre
    <2>2. /\ KbTypeIds[1] = "default"          /\ KbTypeIds[2] = "hsu"
          /\ KbTypeIds[3] = "ibm"              /\ KbTypeIds[4] = "gin_yieh"
          /\ KbTypeIds[5] = "eten"             /\ KbTypeIds[6] = "eten26"
          /\ KbTypeIds[7] = "dvorak"           /\ KbTypeIds[8] = "dvorak_hsu"
          /\ KbTypeIds[9] = "dachen_26"        /\ KbTypeIds[10] = "hanyu"
          /\ KbTypeIds[11] = "thl_pinying"     /\ KbTypeIds[12] = "mps2_pinyin"
          /\ KbTypeIds[13] = "carpalx"         /\ KbTypeIds[14] = "colemak"
          /\ KbTypeIds[15] = "colemak_dh_ansi" /\ KbTypeIds[16] = "colemak_dh_orth"
          /\ KbTypeIds[17] = "workman"
      BY DEF KbTypeIds
    <2>3. /\ i \in {1, 2, 3, 4, 5, 6, 7, 8, 9, 10, 11, 12, 13, 14, 15, 16, 17}
          /\ j \in {1, 2, 3, 4, 5, 6, 7, 8, 9, 10, 11, 12, 13, 14, 15, 16, 17}
      BY <2>1
    <2>4. QED  BY ONLY <2>1, <2>2, <2>3
  <1>2. CASE k = "selKeys"
    <2>1. i \in {1, 2, 3, 4, 5, 6, 7, 8} /\ j \in {1, 2, 3, 4, 5, 6, 7, 8}
      BY <1>2, IdsAre, LengthsAre
    <2>2. /\ SelKeyIds[1] = "1234567890" /\ SelKeyIds[2] = HomeRow
          /\ SelKeyIds[3] = "asdfzxcv89" /\ SelKeyIds[4] = "asdfjkl789"
          /\ SelKeyIds[5] = DvorakRow    /\ SelKeyIds[6] = "aoeuhtnsid"
          /\ SelKeyIds[7] = "aoeuidhtns" /\ SelKeyIds[8] = "1234qweras"
      BY DEF SelKeyIds, HomeRow, DvorakRow
    <2>3. /\ HomeRow # DvorakRow
          /\ \A n \in {"1234567890", "asdfzxcv89", "asdfjkl789",
                       "aoeuhtnsid", "aoeuidhtns", "1234qweras"} :
               n # HomeRow /\ n # DvorakRow
      BY Zenon DEF HomeRow, DvorakRow
    <2>4. SelKeyIds[i] = SelKeyIds[j]
      BY <1>2, IdsAre
    <2>5. QED  BY ONLY <2>1, <2>2, <2>3, <2>4
  <1>3. CASE k = "conversion"
    <2>1. i \in 1..3 /\ j \in 1..3 /\ ConversionEngineIds[i] = ConversionEngineIds[j]
      BY <1>3, IdsAre, LengthsAre
    <2>2. QED  BY <2>1 DEF ConversionEngineIds
  <1>4. CASE k = "sync"
    <2>1. i \in 1..3 /\ j \in 1..3 /\ SyncCapsLockIds[i] = SyncCapsLockIds[j]
      BY <1>4, IdsAre, LengthsAre
    <2>2. QED  BY ONLY <2>1, SyncNamesAre
  <1>5. QED  BY <1>1, <1>2, <1>3, <1>4, IdsAre

\* The window and libchewing know the same layouts.
LEMMA LayoutsAgree == Range(KbTypeIds) \subseteq Range(KbTypes)
  <1>1. ASSUME NEW i \in 1..17 PROVE \E j \in 1..17 : KbTypes[j] = KbTypeIds[i]
    <2>1. CASE i <= 13
      <3>1. KbTypes[i] = KbTypeIds[i]
        BY <2>1 DEF KbTypeIds, KbTypes
      <3>2. QED  BY <3>1
    <2>2. CASE i = 14
      <3>1. KbTypes[17] = KbTypeIds[14]
        BY DEF KbTypeIds, KbTypes
      <3>2. QED  BY <2>2, <3>1
    <2>3. CASE i >= 15
      <3>1. KbTypes[i - 1] = KbTypeIds[i]
        BY <2>3 DEF KbTypeIds, KbTypes
      <3>2. QED  BY <2>3, <3>1
    <2>4. QED  BY <2>1, <2>2, <2>3
  <1>2. QED  BY <1>1, LengthsAre DEF Range

\* A row is where the name stands in the list of the window.
LEMMA RowIs ==
  ASSUME NEW k \in IdKeys, NEW s, s[k] \in Range(Ids[k])
  PROVE  \/ /\ RowOf(k, s) \in 0..(NumRows[k] - 1)
            /\ RowOf(k, s) + 1 \in DOMAIN Ids[k]
            /\ Ids[k][RowOf(k, s) + 1] = s[k]
         \/ RowOf(k, s) = -1 /\ k = "sync" /\ s[k] = FromInputMethod
  <1> DEFINE i == CHOOSE i \in 0..(Len(Ids[k]) - 1) : Ids[k][i + 1] = s[k]
  <1>1. PICK j \in DOMAIN Ids[k] : Ids[k][j] = s[k]
    BY DEF Range
  <1>2. j - 1 \in 0..(Len(Ids[k]) - 1) /\ Ids[k][(j - 1) + 1] = s[k]
    BY <1>1, RowsAre
  <1>3. i \in 0..(Len(Ids[k]) - 1) /\ Ids[k][i + 1] = s[k]
    BY <1>2
  <1>4. RowOf(k, s) = IF i < NumRows[k] THEN i ELSE -1
    BY DEF RowOf
  <1> HIDE DEF i
  <1>5. CASE i < NumRows[k]
    <2>1. RowOf(k, s) = i
      BY <1>4, <1>5
    <2>2. i \in 0..(NumRows[k] - 1) /\ i + 1 \in DOMAIN Ids[k]
      BY <1>3, <1>5, RowsAre
    <2>3. QED  BY <1>3, <2>1, <2>2
  <1>6. CASE ~(i < NumRows[k])
    <2>1. k = "sync" /\ i = 2
      BY <1>3, <1>6, RowsAre
    <2>2. s[k] = FromInputMethod
      BY <1>3, <2>1, IdsAre, SyncNamesAre
    <2>3. QED  BY <1>4, <1>6, <2>1, <2>2
  <1>7. QED  BY <1>5, <1>6

\* The row that is selected is the row of the setting that is written.
LEMMA RowOfSelected ==
  ASSUME NEW k \in IdKeys, NEW i \in 0..(NumRows[k] - 1), NEW s, s[k] = Ids[k][i + 1]
  PROVE  RowOf(k, s) = i
  <1>1. i + 1 \in DOMAIN Ids[k]
    BY RowsAre
  <1>2. s[k] \in Range(Ids[k])
    BY <1>1 DEF Range
  <1>3. CASE Ids[k][RowOf(k, s) + 1] = s[k] /\ RowOf(k, s) + 1 \in DOMAIN Ids[k]
             /\ RowOf(k, s) \in 0..(NumRows[k] - 1)
    <2>1. RowOf(k, s) + 1 = i + 1
      BY <1>1, <1>3, NamesDiffer
    <2>2. QED  BY <1>3, <2>1
  <1>4. CASE k = "sync" /\ s[k] = FromInputMethod
    <2>1. i + 1 \in {1, 2} /\ SyncCapsLockIds[i + 1] = FromInputMethod
      BY <1>4, RowsAre, IdsAre
    <2>2. QED  BY <2>1, SyncNamesAre
  <1>5. QED  BY <1>2, <1>3, <1>4, RowIs

\* The row of a setting depends on nothing else of the store.
LEMMA RowOfSame ==
  ASSUME NEW k, NEW s, NEW t, s[k] = t[k] PROVE RowOf(k, s) = RowOf(k, t)
  <1> DEFINE Row(v) == LET i == CHOOSE i \in 0..(Len(Ids[k]) - 1) : Ids[k][i + 1] = v
                       IN IF i < NumRows[k] THEN i ELSE -1
  <1>1. RowOf(k, s) = Row(s[k]) /\ RowOf(k, t) = Row(t[k])
    BY DEF RowOf
  <1> HIDE DEF Row
  <1>2. QED  BY <1>1

\* libchewing's numbers name the setting again.
LEMMA IndexIs ==
  /\ \A n \in Range(KbTypeIds) : KbTypes[KbTypeIndex(n) + 1] = n
  /\ \A n \in Range(ConversionEngineIds) : ConversionEngineIds[ConversionIndex(n) + 1] = n
  <1>1. ASSUME NEW n \in Range(KbTypeIds) PROVE KbTypes[KbTypeIndex(n) + 1] = n
    <2>1. PICK j \in 1..17 : KbTypes[j] = n
      BY LayoutsAgree, LengthsAre DEF Range
    <2>2. j - 1 \in 0..16 /\ KbTypes[(j - 1) + 1] = n
      BY <2>1
    <2>3. QED  BY <2>2 DEF KbTypeIndex
  <1>2. ASSUME NEW n \in Range(ConversionEngineIds)
        PROVE  ConversionEngineIds[ConversionIndex(n) + 1] = n
    <2>1. PICK j \in 1..3 : ConversionEngineIds[j] = n
      BY LengthsAre DEF Range
    <2>2. j - 1 \in 0..2 /\ ConversionEngineIds[(j - 1) + 1] = n
      BY <2>1
    <2>3. QED  BY <2>2 DEF ConversionIndex
  <1>3. QED  BY <1>1, <1>2

LEMMA ShownInvInit == SettingsInit => StoreInv /\ RowsInv
  <1>1. SUFFICES ASSUME SettingsInit PROVE StoreInv /\ RowsInv
    OBVIOUS
  <1>2. ~Open
    BY <1>1 DEF SettingsInit, Open
  <1>3. /\ store["kbType"] = KbTypeIds[1] /\ store["selKeys"] = SelKeyIds[1]
        /\ store["conversion"] = ConversionEngineIds[2]
        /\ store["sync"] = SyncCapsLockIds[2]
    BY <1>1 DEF SettingsInit, KbTypeIds, SelKeyIds, ConversionEngineIds, SyncCapsLockIds
  <1>4. QED  BY <1>2, <1>3, IdsAre, LengthsAre DEF StoreInv, RowsInv, Range

\* A write of a name the code knows, which the window is told of or has made.
LEMMA ShownWrite ==
  ASSUME MigrationInv, StoreInv, RowsInv, NEW k \in Keys, NEW v, NEW writer,
         due = [x \in Parties |-> due[x]],
         Write(k, v, writer),
         k \in IdKeys => v \in Range(Ids[k]),
         \/ writer # "window" /\ rows' = rows
         \/ /\ writer = "window" /\ Open /\ k \in IdKeys
            /\ \E i \in 0..(NumRows[k] - 1) :
                 v = Ids[k][i + 1] /\ rows' = [rows EXCEPT ![k] = i]
  PROVE  StoreInv' /\ RowsInv'
  <1>1. /\ store'[k] = v
        /\ \A j \in Keys : j # k => store'[j] = store[j]
    BY DEF Write, MigrationInv
  <1>2. IdKeys \subseteq Keys /\ IdKeys \subseteq BoundKeys
    BY KeysAre
  <1>3. StoreInv'
    BY <1>1, <1>2 DEF StoreInv
  <1>4. /\ "window" \in Parties /\ "window" \notin Procs
        /\ due'["window"] =
             IF writer # "window" /\ Open /\ k \in IdKeys
             THEN due["window"] \cup {k} ELSE due["window"]
    BY SettingsAssumption, <1>2 DEF Write, Parties
  <1>5. ASSUME NEW j \in IdKeys, j # k PROVE RowOf(j, store') = RowOf(j, store)
    BY <1>1, <1>2, <1>5, RowOfSame
  <1>6. CASE writer # "window" /\ rows' = rows
    <2>1. ASSUME Open, NEW j \in IdKeys, j \notin due'["window"]
          PROVE  rows[j] = RowOf(j, store')
      <3>1. j # k /\ j \notin due["window"]
        BY <1>4, <1>6, <2>1
      <3>2. QED  BY <1>5, <2>1, <3>1 DEF RowsInv
    <2>2. Open => rows = [j \in IdKeys |-> rows[j]]
      BY DEF RowsInv
    <2>3. CASE Open
      <3>1. rows' = [j \in IdKeys |-> rows'[j]]
        BY <1>6, <2>2, <2>3
      <3>2. ASSUME NEW j \in IdKeys, j \notin due'["window"]
            PROVE  rows'[j] = RowOf(j, store')
        BY <1>6, <2>1, <2>3, <3>2
      <3>3. QED  BY <1>3, <3>1, <3>2 DEF RowsInv
    <2>4. CASE ~Open
      BY <1>3, <1>6, <2>4 DEF RowsInv, Open
    <2>5. QED  BY <2>3, <2>4
  <1>7. ASSUME writer = "window", Open, k \in IdKeys,
               NEW i \in 0..(NumRows[k] - 1), v = Ids[k][i + 1],
               rows' = [rows EXCEPT ![k] = i]
        PROVE  RowsInv'
    <2>1. /\ rows' = [j \in IdKeys |-> rows'[j]]
          /\ rows'[k] = i
          /\ \A j \in IdKeys : j # k => rows'[j] = rows[j]
      BY <1>7 DEF RowsInv
    <2>2. RowOf(k, store') = i
      BY <1>1, <1>7, RowOfSelected
    <2>3. ASSUME NEW j \in IdKeys, j \notin due'["window"]
          PROVE  rows'[j] = RowOf(j, store')
      BY <1>4, <1>5, <1>7, <2>1, <2>2, <2>3 DEF RowsInv
    <2>4. QED  BY <2>1, <2>3 DEF RowsInv
  <1>8. QED  BY <1>3, <1>6, <1>7

LEMMA ShownInvNext ==
  ASSUME MigrationInv, CurrentInv, StoreInv, RowsInv, [SettingsNext]_settingsVars
  PROVE  StoreInv' /\ RowsInv'
  <1>0. due = [x \in Parties |-> due[x]]
    BY DEF CurrentInv
  <1>1. ASSUME UNCHANGED <<store, rows>>, due'["window"] = due["window"]
        PROVE  StoreInv' /\ RowsInv'
    BY <1>1 DEF StoreInv, RowsInv, RowOf, Open
  <1>2. CASE UNCHANGED settingsVars
    BY <1>1, <1>2 DEF settingsVars
  <1>3. ASSUME NEW p \in Procs, Launch(p) \/ Migrate(p) \/ StartComponent(p)
        PROVE  StoreInv' /\ RowsInv'
    BY <1>1, <1>3 DEF Launch, Migrate, StartComponent
  <1>4. ASSUME NEW p \in Procs, Exit(p) \/ Dispatch(p)
        PROVE  StoreInv' /\ RowsInv'
    <2>1. p # "window" /\ UNCHANGED <<store, rows>>
      BY <1>4, SettingsAssumption DEF Exit, Dispatch, Notice
    <2>2. due'["window"] = due["window"]
      BY <1>0, <1>4, <2>1 DEF Exit, Dispatch, Notice, Parties
    <2>3. QED  BY <1>1, <2>1, <2>2
  <1>5. ASSUME NEW p \in Procs, Flush(p) PROVE StoreInv' /\ RowsInv'
    <2>1. /\ writes[p] # <<>>
          /\ Write(Head(writes[p])[1], Head(writes[p])[2], p)
          /\ rows' = rows /\ p # "window"
      BY <1>5, SettingsAssumption DEF Flush
    <2>2. Head(writes[p]) \in {Conv, Unset}
      BY <2>1, QueueSteps DEF MigrationInv
    <2>3. /\ Head(writes[p])[1] \in {"conversion", "plainZhuyin"}
          /\ Head(writes[p])[1] = "conversion" => Head(writes[p])[2] = "simple"
      BY <2>2 DEF Conv, Unset
    <2>4. /\ Head(writes[p])[1] \in Keys
          /\ Head(writes[p])[1] \in IdKeys => Head(writes[p])[2] \in Range(Ids[Head(writes[p])[1]])
      <3>1. "simple" \in Range(ConversionEngineIds)
        <4>1. ConversionEngineIds[1] = "simple"
          BY DEF ConversionEngineIds
        <4>2. QED  BY <4>1, LengthsAre DEF Range
      <3>2. QED  BY <2>3, <3>1, IdsAre DEF Keys
    <2>5. QED  BY <1>0, <2>1, <2>4, ShownWrite
  <1>6. CASE OpenWindow
    <2>1. /\ UNCHANGED store
          /\ rows' = [k \in IdKeys |-> RowOf(k, store)]
      BY <1>6 DEF OpenWindow
    <2>2. \A k \in IdKeys : RowOf(k, store') = RowOf(k, store)
      BY <2>1
    <2>3. QED  BY <2>1, <2>2 DEF StoreInv, RowsInv
  <1>7. CASE CloseWindow
    BY <1>7 DEF CloseWindow, StoreInv, RowsInv, Open
  <1>8. ASSUME NEW k \in IdKeys, WindowNotice(k) PROVE StoreInv' /\ RowsInv'
    <2>1. /\ UNCHANGED store /\ Open
          /\ rows' = [rows EXCEPT ![k] = RowOf(k, store)]
          /\ due'["window"] = due["window"] \ {k}
      BY <1>0, <1>8 DEF WindowNotice, Parties
    <2>2. \A j \in IdKeys : RowOf(j, store') = RowOf(j, store)
      BY <2>1
    <2>3. QED  BY <2>1, <2>2 DEF StoreInv, RowsInv
  <1>9. ASSUME NEW k \in IdKeys, NEW i \in 0..(NumRows[k] - 1), SelectRow(k, i)
        PROVE  StoreInv' /\ RowsInv'
    <2>1. /\ Open
          /\ Ids[k][i + 1] \in Picks[k]
          /\ rows' = [rows EXCEPT ![k] = i]
          /\ Write(k, Ids[k][i + 1], "window")
      BY <1>9 DEF SelectRow
    <2>2. Ids[k][i + 1] \in Range(Ids[k])
      BY <2>1, SettingsAssumption
    <2>3. QED  BY <1>0, <2>1, <2>2, KeysAre, ShownWrite
  <1>10. ASSUME NEW k \in BoundKeys, NEW v \in Values[k], OtherWrite(k, v)
         PROVE  StoreInv' /\ RowsInv'
    <2>1. Write(k, v, "other") /\ rows' = rows
      BY <1>10 DEF OtherWrite
    <2>2. k \in IdKeys => v \in Range(Ids[k])
      BY SettingsAssumption
    <2>3. QED  BY <1>0, <2>1, <2>2, KeysAre, ShownWrite
  <1>11. QED
    BY <1>2, <1>3, <1>4, <1>5, <1>6, <1>7, <1>8, <1>9, <1>10
    DEF SettingsNext, ProcNext

\* Whatever an engine was told and the window shows is one setting, so the two
\* tables of names and libchewing's numbers lead to the same one.
LEMMA ShownFollows ==
  ASSUME CurrentInv, StoreInv, RowsInv
  PROVE  ShownIsUsed
  <1>1. SUFFICES ASSUME NEW p \in Procs, Running(p), Open, due[p] = {},
                        due["window"] = {}, writes[p] = <<>>
                 PROVE  LET shown(k) == IF rows[k] = -1 THEN "" ELSE Ids[k][rows[k] + 1] IN
                        /\ shown("kbType") = KbTypes[lib[p].kbType + 1]
                        /\ shown("conversion") = ConversionEngineIds[lib[p].conversion + 1]
                        /\ shown("selKeys") = lib[p].table.keys
                        /\ shown("sync") = "keyboard" <=> "FLAG_SYNC_FROM_KEYBOARD" \in lib[p].sync
    BY DEF ShownIsUsed
  <1> DEFINE shown(k) == IF rows[k] = -1 THEN "" ELSE Ids[k][rows[k] + 1]
  <1>2. View(p) = store
    BY <1>1 DEF View, Seen
  <1>3. Current(lib[p], {}, store)
    BY <1>1, <1>2 DEF CurrentInv
  <1>4. ASSUME NEW k \in IdKeys
        PROVE  /\ k # "sync" => shown(k) = store[k]
               /\ shown(k) = IF k = "sync" /\ rows[k] = -1 THEN "" ELSE store[k]
               /\ k = "sync" /\ rows[k] = -1 => store[k] = FromInputMethod
    <2>1. rows[k] = RowOf(k, store) /\ store[k] \in Range(Ids[k])
      BY <1>1 DEF RowsInv, StoreInv
    <2>2. \/ rows[k] \in Nat /\ Ids[k][rows[k] + 1] = store[k]
          \/ rows[k] = -1 /\ k = "sync" /\ store[k] = FromInputMethod
      <3>1. NumRows[k] \in Nat
        BY RowsAre
      <3>2. QED  BY <2>1, <3>1, RowIs
    <2>3. rows[k] \in Nat => rows[k] # -1
      OBVIOUS
    <2>4. QED  BY <2>2, <2>3
  <1>5. shown("kbType") = KbTypes[lib[p].kbType + 1]
    <2>1. shown("kbType") = store["kbType"] /\ store["kbType"] \in Range(KbTypeIds)
      BY <1>4, IdsAre DEF StoreInv
    <2>2. QED  BY <1>3, <2>1, IndexIs DEF Current
  <1>6. shown("conversion") = ConversionEngineIds[lib[p].conversion + 1]
    <2>1. /\ shown("conversion") = store["conversion"]
          /\ store["conversion"] \in Range(ConversionEngineIds)
      BY <1>4, IdsAre DEF StoreInv
    <2>2. QED  BY <1>3, <2>1, IndexIs DEF Current
  <1>7. shown("selKeys") = lib[p].table.keys
    <2>1. shown("selKeys") = store["selKeys"]
      BY <1>4, IdsAre
    <2>2. lib[p].table = Table(store)
      BY <1>3 DEF Current
    <2>3. Table(store).keys = store["selKeys"]
      BY DEF Table
    <2>4. QED  BY <2>1, <2>2, <2>3
  <1>8. shown("sync") = "keyboard" <=> "FLAG_SYNC_FROM_KEYBOARD" \in lib[p].sync
    <2>1. lib[p].sync = SyncFlags(store["sync"])
      BY <1>3 DEF Current
    <2>2. "FLAG_SYNC_FROM_KEYBOARD" \in lib[p].sync <=> store["sync"] = "keyboard"
      BY <2>1 DEF SyncFlags
    <2>3. shown("sync") = "keyboard" <=> store["sync"] = "keyboard"
      <3>1. /\ shown("sync") = IF rows["sync"] = -1 THEN "" ELSE store["sync"]
            /\ rows["sync"] = -1 => store["sync"] = FromInputMethod
        BY <1>4, IdsAre
      <3>2. FromInputMethod # "keyboard"
        BY SyncNamesAre
      <3>3. "" # "keyboard"
        OBVIOUS
      <3>4. QED  BY <3>1, <3>2, <3>3
    <2>4. QED  BY <2>2, <2>3
  <1>9. QED  BY <1>5, <1>6, <1>7, <1>8

\* What the setup window shows as selected (setup-window.c, the rows bound with
\* id_get_mapping) is what every engine that has been told of all changes uses,
\* for all seventeen layouts, eight rows of keys and three engines.
THEOREM ShownStaysUsed == SettingsSpec => []ShownIsUsed
  <1>1. SettingsInit => MigrationInv /\ CurrentInv /\ StoreInv /\ RowsInv
    BY MigrationInvInit, CurrentInvInit, ShownInvInit
  <1>2. /\ MigrationInv /\ CurrentInv /\ StoreInv /\ RowsInv
        /\ [SettingsNext]_settingsVars
        => MigrationInv' /\ CurrentInv' /\ StoreInv' /\ RowsInv'
    BY MigrationInvNext, CurrentInvNext, ShownInvNext
  <1>3. CurrentInv /\ StoreInv /\ RowsInv => ShownIsUsed
    BY ShownFollows
  <1>4. QED  BY <1>1, <1>2, <1>3, PTL DEF SettingsSpec
=============================================================================
