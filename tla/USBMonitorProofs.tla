--------------------------- MODULE USBMonitorProofs ---------------------------
(***************************************************************************)
(* Proofs about the device monitor, for any number of devices, blocks and  *)
(* calls, and whatever the keys of the devices.  No assumption is made     *)
(* beyond the one on the constants.                                        *)
(*                                                                         *)
(* Each of the four invariants needs the places the threads can be at      *)
(* (Hands); the last two need to know who else can have a block in hand    *)
(* (Placed).                                                               *)
(***************************************************************************)
EXTENDS USBMonitor, SequenceTheorems, FiniteSetTheorems, TLAPS

Message == [what : {"attach", "connect", "cancel", "detach"}, dev : Devices]
           \cup [what : {"check", "removed"}, dev : {NULL}]
Intent  == [what : {"granted", "denied", "detached"}, dev : Devices]
Block   == [conn : {"unused", "open", "none", "closed"},
            dev : Devices \cup {NULL}, clone : BOOLEAN, late : BOOLEAN]

\* The places a thread can be at.
PlacesOf(t) ==
    CASE t = "main"    -> {"idle", "close", "forget", "reset", "post"}
      [] t = "handler" -> {"idle", "list", "count", "announce", "repost", "dead",
                           "connect", "put", "call"}
      [] OTHER         -> {"idle", "connect", "put", "call", "close", "forget", "destroy",
                           "blocks", "close_destroy", "forget_destroy", "quit"}

WithBlock == {"close", "forget", "close_destroy", "forget_destroy", "put", "call"}

\* Where the threads are, and what is in their hands there.
Hands ==
    /\ \A t \in Threads : at[t] \in PlacesOf(t)
    /\ at["main"] # "idle" => dev["main"] \in Devices
    /\ \A t \in Threads : at[t] \in {"connect", "put"} => dev[t] \in Devices
    /\ \A t \in Threads : at[t] \in WithBlock => blk[t] \in Blocks

-----------------------------------------------------------------------------
(* Types.                                                                  *)

ThreadTypes ==
    /\ at \in [Threads -> Places]
    /\ dev \in [Threads -> Devices \cup {NULL}] /\ blk \in [Threads -> Blocks \cup {NULL}]

AndroidTypes ==
    /\ device \in [Devices -> {"new", "attached", "removed"}]
    /\ granted \subseteq Attached /\ asked \subseteq Attached

IntentTypes == broadcasts \in Seq(Intent)

FieldTypes ==
    /\ registered \in BOOLEAN /\ destroyed \in BOOLEAN
    /\ mHasPermissions \subseteq Keys /\ mDeviceCounts \in 0..Cardinality(Devices)

TableTypes == mCtrlBlocks \in [Devices -> Blocks \cup {NULL}] /\ block \in [Blocks -> Block]

HandlerTypes == messages \in Seq(Message) /\ checks \in Nat /\ quit \in BOOLEAN

CheckTypes == found \subseteq Devices /\ more \in BOOLEAN /\ calls \in 0..MaxCalls

\* The types, one by one.
LEMMA TypeParts ==
    TypeOK <=> /\ ThreadTypes /\ AndroidTypes /\ IntentTypes /\ FieldTypes
               /\ TableTypes /\ HandlerTypes /\ CheckTypes
  BY DEF TypeOK, ThreadTypes, AndroidTypes, IntentTypes, FieldTypes, TableTypes,
         HandlerTypes, CheckTypes, Message, Intent, Block

\* The same after a step.
LEMMA TypePartsPrimed ==
    TypeOK' <=> /\ ThreadTypes' /\ AndroidTypes' /\ IntentTypes' /\ FieldTypes'
                /\ TableTypes' /\ HandlerTypes' /\ CheckTypes'
  BY DEF TypeOK, ThreadTypes, AndroidTypes, IntentTypes, FieldTypes, TableTypes,
         HandlerTypes, CheckTypes, Message, Intent, Block

\* What a thread's step does to the three functions.
LEMMA CarryMoves ==
    ASSUME ThreadTypes, NEW t \in Threads, NEW from, NEW to \in Places,
           NEW d \in Devices \cup {NULL}, NEW b \in Blocks \cup {NULL},
           Carry(t, from, to, d, b)
    PROVE  /\ ThreadTypes' /\ at[t] = from
           /\ at'[t] = to /\ dev'[t] = d /\ blk'[t] = b
           /\ \A u \in Threads \ {t} : at'[u] = at[u] /\ dev'[u] = dev[u] /\ blk'[u] = blk[u]
  BY DEF ThreadTypes, Carry, Go

\* What Go does to the places, by its definition.
LEMMA GoMoves ==
    ASSUME ThreadTypes, NEW t \in Threads, NEW from, NEW to \in Places,
           Go(t, from, to), UNCHANGED <<dev, blk>>
    PROVE  /\ ThreadTypes' /\ at[t] = from /\ at'[t] = to
           /\ \A u \in Threads \ {t} : at'[u] = at[u]
           /\ \A u \in Threads : dev'[u] = dev[u] /\ blk'[u] = blk[u]
  BY DEF ThreadTypes, Go

\* What a step changes of Hands is the part of its thread.
LEMMA HandsMove ==
    ASSUME Hands, NEW t \in Threads,
           \A u \in Threads \ {t} : at'[u] = at[u] /\ dev'[u] = dev[u] /\ blk'[u] = blk[u],
           at'[t] \in PlacesOf(t),
           t = "main" => at'[t] = "idle" \/ dev'[t] \in Devices,
           at'[t] \in {"connect", "put"} => dev'[t] \in Devices,
           at'[t] \in WithBlock => blk'[t] \in Blocks
    PROVE  Hands'
<1>1. \A u \in Threads : at'[u] \in PlacesOf(u) BY DEF Hands
<1>2. at'["main"] # "idle" => dev'["main"] \in Devices BY DEF Hands, Threads
<1>3. \A u \in Threads : at'[u] \in {"connect", "put"} => dev'[u] \in Devices BY DEF Hands
<1>4. \A u \in Threads : at'[u] \in WithBlock => blk'[u] \in Blocks BY DEF Hands
<1> QED BY <1>1, <1>2, <1>3, <1>4 DEF Hands

\* A step that moves no thread changes nothing in a thread's hands.
LEMMA HandsStay == Hands /\ UNCHANGED threadVars => Hands'
  BY DEF Hands, threadVars

\* The constants' types.
LEMMA DevicesFinite == IsFiniteSet(Devices) /\ Cardinality(Devices) \in Nat
  BY MonitorAssumption, FS_Interval, FS_CardinalityType DEF MonitorAssumption, Devices

\* NULL is neither a device nor a block.
LEMMA NullIsNone == NULL \notin Devices /\ NULL \notin Blocks
  BY MonitorAssumption DEF MonitorAssumption, Devices, Blocks, NULL

\* The three threads.
LEMMA ThreadNames == "main" \in Threads /\ "handler" \in Threads /\ "app" \in Threads
  BY DEF Threads

\* A message posted is a message.
LEMMA PostType ==
    ASSUME HandlerTypes, NEW d \in Devices,
           NEW w \in {"attach", "connect", "cancel", "detach"}, Post(w, d)
    PROVE  messages' \in Seq(Message)
<1>1. [what |-> w, dev |-> d] \in Message BY DEF Message
<1>2. PICK m \in Message : m = [what |-> w, dev |-> d] BY <1>1
<1>3. Append(messages, m) \in Seq(Message) BY AppendProperties DEF HandlerTypes
<1> QED BY <1>2, <1>3 DEF Post, HandlerTypes

\* What ReceivePermission and ReceiveDetached read from the broadcasts.
LEMMA HeadIntent ==
    ASSUME IntentTypes, broadcasts # <<>>
    PROVE  /\ Head(broadcasts) \in Intent /\ Tail(broadcasts) \in Seq(Intent)
           /\ Head(broadcasts).dev \in Devices
<1>1. Head(broadcasts) \in Intent /\ Tail(broadcasts) \in Seq(Intent)
  BY HeadTailProperties DEF IntentTypes
<1>2. \A x \in Intent : x.dev \in Devices BY DEF Intent
<1> QED BY <1>1, <1>2

\* What RunMessage reads from the looper's queue.
LEMMA HeadMessage ==
    ASSUME HandlerTypes, messages # <<>>
    PROVE  /\ Head(messages) \in Message /\ Tail(messages) \in Seq(Message)
           /\ Head(messages).what = "connect" => Head(messages).dev \in Devices
<1>1. Head(messages) \in Message /\ Tail(messages) \in Seq(Message)
  BY HeadTailProperties DEF HandlerTypes
<1>2. \A x \in Message : x.what = "connect" => x.dev \in Devices BY DEF Message
<1> QED BY <1>1, <1>2

Typed == TypeOK /\ Hands

\* The parts of Typed.
LEMMA TypedIs ==
    Typed <=> /\ ThreadTypes /\ AndroidTypes /\ IntentTypes /\ FieldTypes
              /\ TableTypes /\ HandlerTypes /\ CheckTypes /\ Hands
  BY TypeParts DEF Typed

\* The same after a step.
LEMMA TypedIsPrimed ==
    Typed' <=> /\ ThreadTypes' /\ AndroidTypes' /\ IntentTypes' /\ FieldTypes'
               /\ TableTypes' /\ HandlerTypes' /\ CheckTypes' /\ Hands'
  BY TypePartsPrimed DEF Typed

\* Typed holds at first.
LEMMA TypedInit == Init => Typed
<1> SUFFICES ASSUME Init PROVE Typed OBVIOUS
<1>1. ThreadTypes BY DEF Init, ThreadTypes, Places
<1>2. AndroidTypes BY DEF Init, AndroidTypes, Attached
<1>3. IntentTypes BY EmptySeq DEF Init, IntentTypes
<1>a. registered \in BOOLEAN /\ destroyed \in BOOLEAN /\ more \in BOOLEAN BY DEF Init
<1>b. mHasPermissions \subseteq Keys /\ mDeviceCounts \in 0..Cardinality(Devices)
  BY DevicesFinite DEF Init
<1>c. found \subseteq Devices /\ calls \in 0..MaxCalls
  BY MonitorAssumption DEF Init, MonitorAssumption
<1>4. FieldTypes BY <1>a, <1>b DEF FieldTypes
<1>5. TableTypes BY DEF Init, TableTypes, Block
<1>6. HandlerTypes BY EmptySeq DEF Init, HandlerTypes
<1>7. CheckTypes BY <1>a, <1>c DEF CheckTypes
<1>8. Hands BY DEF Init, Hands, PlacesOf, WithBlock, Threads
<1> QED BY <1>1, <1>2, <1>3, <1>4, <1>5, <1>6, <1>7, <1>8, TypedIs

\* Unchanged variables keep their types.
LEMMA TypesStay ==
    /\ ThreadTypes /\ UNCHANGED threadVars => ThreadTypes'
    /\ AndroidTypes /\ UNCHANGED androidVars => AndroidTypes'
    /\ IntentTypes /\ UNCHANGED broadcasts => IntentTypes'
    /\ FieldTypes /\ UNCHANGED <<registered, destroyed, mHasPermissions, mDeviceCounts>>
         => FieldTypes'
    /\ TableTypes /\ UNCHANGED <<mCtrlBlocks, block>> => TableTypes'
    /\ HandlerTypes /\ UNCHANGED handlerVars => HandlerTypes'
    /\ CheckTypes /\ UNCHANGED <<found, more, calls>> => CheckTypes'
  BY DEF ThreadTypes, AndroidTypes, IntentTypes, FieldTypes, TableTypes, HandlerTypes,
         CheckTypes, threadVars, androidVars, handlerVars, Attached

\* An intent broadcast is an intent.
LEMMA BroadcastType ==
    ASSUME IntentTypes, NEW d \in Devices, NEW w \in {"granted", "denied", "detached"},
           Broadcast(w, d)
    PROVE  IntentTypes'
<1>1. [what |-> w, dev |-> d] \in Intent BY DEF Intent
<1>2. PICK m \in Intent : m = [what |-> w, dev |-> d] BY <1>1
<1>3. Append(broadcasts, m) \in Seq(Intent) BY AppendProperties DEF IntentTypes
<1> QED BY <1>2, <1>3 DEF Broadcast, IntentTypes

\* Typed is kept by what Android and the user do,
LEMMA TypedAndroid == Typed /\ AndroidStep => Typed'
<1> SUFFICES ASSUME Typed, AndroidStep PROVE Typed' OBVIOUS
<1>1. PICK d \in Devices : Attach(d) \/ Detach(d) \/ Answer(d) BY DEF AndroidStep
<1>2. UNCHANGED <<fieldVars, handlerVars, threadVars, checkVars, block, told, calls>>
  BY DEF AndroidStep
<1>3. AndroidTypes' /\ IntentTypes'
  <2>1. CASE Attach(d)
    BY <2>1, TypedIs DEF Attach, AndroidTypes, IntentTypes, Attached
  <2>2. CASE Detach(d)
    <3>1. IntentTypes' BY <2>2, TypedIs, BroadcastType DEF Detach
    <3>2. AndroidTypes' BY <2>2, TypedIs DEF Detach, AndroidTypes, Attached
    <3> QED BY <3>1, <3>2
  <2>3. CASE Answer(d)
    <3>1. IntentTypes' BY <2>3, TypedIs, BroadcastType DEF Answer
    <3>2. AndroidTypes' BY <2>3, TypedIs DEF Answer, AndroidTypes, Attached
    <3> QED BY <3>1, <3>2
  <2> QED BY <1>1, <2>1, <2>2, <2>3
<1> QED
  BY <1>2, <1>3, TypedIs, TypedIsPrimed, TypesStay, HandsStay DEF fieldVars, checkVars

\* UsbControlBlock.close, whichever thread closes.
LEMMA CloseType ==
    ASSUME ThreadTypes, TableTypes, Hands, NEW t \in Threads, NEW from \in WithBlock,
           NEW forget \in WithBlock \cap PlacesOf(t) \cap Places, NEW to \in PlacesOf(t) \cap Places,
           to \notin WithBlock, to \notin {"connect", "put"}, forget # "put",
           from # "idle",
           Close(t, from, forget, to) \/ Forget(t, from, to)
    PROVE  ThreadTypes' /\ TableTypes' /\ Hands'
<1>1. Held(t) \in Devices \cup {NULL} /\ (t = "main" => Held(t) = dev[t])
  BY DEF Held, ThreadTypes
<1>2. at[t] = from BY DEF Close, Forget, Carry, Go
<1>3. blk[t] \in Blocks /\ (t = "main" => dev[t] \in Devices) BY <1>2 DEF Hands
<1>4. CASE Carry(t, from, to, Held(t), NULL)
  <2>1. ThreadTypes' /\ Hands'
    <3>1. /\ ThreadTypes' /\ at'[t] = to /\ dev'[t] = Held(t) /\ blk'[t] = NULL
          /\ \A u \in Threads \ {t} : at'[u] = at[u] /\ dev'[u] = dev[u] /\ blk'[u] = blk[u]
      BY <1>1, <1>4, CarryMoves
    <3> QED BY <1>1, <1>3, <3>1, HandsMove
  <2>2. TableTypes'
    <3>1. CASE Close(t, from, forget, to)
      <4>1. UNCHANGED mCtrlBlocks BY <3>1 DEF Close
      <4>2. block' = block \/ block' = [block EXCEPT ![blk[t]].conn = "closed"]
        BY <3>1 DEF Close
      <4>3. block' \in [Blocks -> Block] BY <1>3, <4>2 DEF TableTypes, Block
      <4> QED BY <4>1, <4>3 DEF TableTypes
    <3>2. CASE Forget(t, from, to)
      BY <3>2 DEF Forget, TableTypes
    <3> QED BY <3>1, <3>2
  <2> QED BY <2>1, <2>2
<1>5. CASE ~Carry(t, from, to, Held(t), NULL)
  <2>1. /\ Go(t, from, forget) /\ UNCHANGED <<dev, blk>> /\ UNCHANGED mCtrlBlocks
        /\ block' = [block EXCEPT ![blk[t]].conn = "closed"]
    BY <1>5 DEF Close, Forget
  <2>2. ThreadTypes' /\ Hands'
    <3>1. /\ ThreadTypes' /\ at'[t] = forget
          /\ \A u \in Threads \ {t} : at'[u] = at[u]
          /\ \A u \in Threads : dev'[u] = dev[u] /\ blk'[u] = blk[u]
      BY <2>1, GoMoves
    <3>2. forget # "connect" BY DEF WithBlock
    <3> QED BY <1>3, <3>1, <3>2, HandsMove
  <2>3. block' \in [Blocks -> Block] BY <1>3, <2>1 DEF TableTypes, Block
  <2> QED BY <2>1, <2>2, <2>3 DEF TableTypes
<1> QED BY <1>4, <1>5

\* Where UsbControlBlock.close is called from.
LEMMA CloseTypes ==
    ASSUME ThreadTypes, TableTypes, Hands,
           \/ CloseDetached \/ CloseStep
           \/ Close("app", "close_destroy", "forget_destroy", "blocks")
           \/ Forget("app", "forget_destroy", "blocks")
    PROVE  ThreadTypes' /\ TableTypes' /\ Hands'
<1>1. /\ {"close", "forget"} \subseteq PlacesOf("main") /\ "reset" \in PlacesOf("main")
      /\ {"close", "forget", "close_destroy", "forget_destroy", "idle", "blocks"}
           \subseteq PlacesOf("app")
      /\ {"close", "forget", "close_destroy", "forget_destroy"} \subseteq WithBlock \cap Places
      /\ {"idle", "blocks", "reset"} \subseteq Places \ WithBlock
  BY DEF PlacesOf, WithBlock, Places
<1>2. CASE CloseDetached
  <2>1. Close("main", "close", "forget", "reset") \/ Forget("main", "forget", "reset")
    BY <1>2 DEF CloseDetached
  <2>2. CASE Close("main", "close", "forget", "reset") BY <1>1, <2>2, CloseType, ThreadNames
  <2>3. CASE Forget("main", "forget", "reset") BY <1>1, <2>3, CloseType, ThreadNames
  <2> QED BY <2>1, <2>2, <2>3
<1>3. CASE Close("app", "close", "forget", "idle") BY <1>1, <1>3, CloseType, ThreadNames
<1>4. CASE Forget("app", "forget", "idle") BY <1>1, <1>4, CloseType, ThreadNames
<1>5. CASE Close("app", "close_destroy", "forget_destroy", "blocks")
  BY <1>1, <1>5, CloseType, ThreadNames
<1>6. CASE Forget("app", "forget_destroy", "blocks")
  BY <1>1, <1>6, CloseType, ThreadNames
<1> QED BY <1>2, <1>3, <1>4, <1>5, <1>6 DEF CloseStep

\* processConnect and processCancel note the permission and post a message.
LEMMA ProcessType ==
    ASSUME HandlerTypes, FieldTypes, NEW d \in Devices, ProcessConnect(d) \/ ProcessCancel(d)
    PROVE  /\ messages' \in Seq(Message) /\ mHasPermissions' \subseteq Keys
           /\ destroyed => messages' = messages
<1>1. CASE destroyed
  BY <1>1 DEF ProcessConnect, ProcessCancel, HandlerTypes, FieldTypes
<1>2. CASE ~destroyed
  <2>1. PICK w \in {"connect", "cancel"}, yes \in BOOLEAN : Permit(d, yes) /\ Post(w, d)
    BY <1>2 DEF ProcessConnect, ProcessCancel
  <2>2. messages' \in Seq(Message) BY <2>1, PostType
  <2>3. mHasPermissions' \subseteq Keys
    BY <2>1, MonitorAssumption DEF Permit, FieldTypes, MonitorAssumption, Devices
  <2> QED BY <1>2, <2>2, <2>3
<1> QED BY <1>1, <1>2

\* by the main thread,
LEMMA TypedMain == Typed /\ MainStep => Typed'
<1> SUFFICES ASSUME Typed, MainStep PROVE Typed' OBVIOUS
<1>1. /\ ThreadTypes /\ AndroidTypes /\ IntentTypes /\ FieldTypes
      /\ TableTypes /\ HandlerTypes /\ CheckTypes /\ Hands
  BY TypedIs
<1>2. UNCHANGED <<androidVars, registered, destroyed, checks, quit, checkVars, calls>>
  BY DEF MainStep
<1>3. AndroidTypes' /\ CheckTypes' BY <1>1, <1>2, TypesStay DEF checkVars
<1>4. IntentTypes'
  <2>1. UNCHANGED broadcasts \/ (broadcasts # <<>> /\ broadcasts' = Tail(broadcasts))
    BY DEF MainStep, ReceivePermission, ReceiveDetached, CloseDetached, ResetCount,
           PostDetach, NextBroadcast
  <2> QED BY <1>1, <2>1, HeadIntent DEF IntentTypes
<1>5. /\ ThreadTypes' /\ Hands' /\ TableTypes'
      /\ messages' \in Seq(Message)
      /\ mHasPermissions' \subseteq Keys /\ mDeviceCounts' \in 0..Cardinality(Devices)
  <2>1. CASE ReceivePermission
    <3>1. PICK d \in Devices : ProcessConnect(d) \/ ProcessCancel(d)
      BY <1>1, <2>1, HeadIntent DEF ReceivePermission, NextBroadcast
    <3>2. UNCHANGED <<mCtrlBlocks, mDeviceCounts, threadVars, block>>
      BY <2>1 DEF ReceivePermission
    <3>3. messages' \in Seq(Message) /\ mHasPermissions' \subseteq Keys
      BY <1>1, <3>1, ProcessType
    <3>4. ThreadTypes' /\ Hands' /\ TableTypes' BY <1>1, <3>2, TypesStay, HandsStay
    <3> QED BY <1>1, <3>2, <3>3, <3>4 DEF FieldTypes
  <2>2. CASE ReceiveDetached
    <3>1. PICK d \in Devices : d = Head(broadcasts).dev
      BY <1>1, <2>2, HeadIntent DEF ReceiveDetached, NextBroadcast
    <3>2. UNCHANGED <<mHasPermissions, mDeviceCounts, messages, block>>
      BY <2>2 DEF ReceiveDetached
    <3>3. CASE UNCHANGED <<mCtrlBlocks, threadVars>>
      <4>1. ThreadTypes' /\ Hands' /\ TableTypes' BY <1>1, <3>2, <3>3, TypesStay, HandsStay
      <4> QED BY <1>1, <3>2, <4>1 DEF FieldTypes, HandlerTypes
    <3>4. CASE ~UNCHANGED <<mCtrlBlocks, threadVars>>
      <4>1. PICK to \in {"reset", "close"} :
              /\ to = (IF mCtrlBlocks[d] = NULL THEN "reset" ELSE "close")
              /\ Carry("main", "idle", to, d, mCtrlBlocks[d])
              /\ mCtrlBlocks' = [mCtrlBlocks EXCEPT ![d] = NULL]
        BY <2>2, <3>1, <3>4 DEF ReceiveDetached
      <4>2. mCtrlBlocks[d] \in Blocks \cup {NULL} /\ (to = "close" => mCtrlBlocks[d] \in Blocks)
        BY <1>1, <4>1 DEF TableTypes
      <4>3. to \in Places /\ to \in PlacesOf("main") /\ to \notin {"connect", "put"}
            /\ (to \in WithBlock => to = "close")
        BY DEF Places, PlacesOf, WithBlock
      <4>4. /\ ThreadTypes' /\ at'["main"] = to /\ dev'["main"] = d
            /\ blk'["main"] = mCtrlBlocks[d]
            /\ \A u \in Threads \ {"main"} :
                 at'[u] = at[u] /\ dev'[u] = dev[u] /\ blk'[u] = blk[u]
        BY <1>1, <4>1, <4>2, <4>3, CarryMoves, ThreadNames
      <4>5. Hands' BY <1>1, <4>2, <4>3, <4>4, HandsMove, ThreadNames
      <4>6. TableTypes' BY <1>1, <3>2, <4>1 DEF TableTypes
      <4> QED BY <1>1, <3>2, <4>4, <4>5, <4>6 DEF FieldTypes, HandlerTypes
    <3> QED BY <3>3, <3>4
  <2>3. CASE CloseDetached
    <3>1. ThreadTypes' /\ Hands' /\ TableTypes' BY <1>1, <2>3, CloseTypes
    <3> QED BY <1>1, <2>3, <3>1 DEF CloseDetached, FieldTypes, HandlerTypes
  <2>4. CASE ResetCount
    <3>1. Go("main", "reset", "post") /\ UNCHANGED <<dev, blk>> BY <2>4 DEF ResetCount
    <3>2. "post" \in Places /\ "post" \in PlacesOf("main") /\ "post" \notin WithBlock
      BY DEF Places, PlacesOf, WithBlock
    <3>3. /\ ThreadTypes' /\ at["main"] = "reset" /\ at'["main"] = "post"
          /\ \A u \in Threads \ {"main"} : at'[u] = at[u]
          /\ \A u \in Threads : dev'[u] = dev[u] /\ blk'[u] = blk[u]
      BY <1>1, <3>1, <3>2, GoMoves, ThreadNames
    <3>4. dev["main"] \in Devices BY <1>1, <3>3 DEF Hands
    <3>5. Hands' BY <1>1, <3>2, <3>3, <3>4, HandsMove, ThreadNames
    <3>6. TableTypes' BY <1>1, <2>4, TypesStay DEF ResetCount
    <3>7. mDeviceCounts' \in 0..Cardinality(Devices) BY <2>4, DevicesFinite DEF ResetCount
    <3> QED BY <1>1, <2>4, <3>3, <3>5, <3>6, <3>7 DEF ResetCount, FieldTypes, HandlerTypes
  <2>5. CASE PostDetach
    <3>1. Carry("main", "post", "idle", NULL, NULL) BY <2>5 DEF PostDetach
    <3>2. "idle" \in Places /\ "idle" \in PlacesOf("main") /\ "idle" \notin WithBlock
      BY DEF Places, PlacesOf, WithBlock
    <3>3. /\ ThreadTypes' /\ at["main"] = "post" /\ at'["main"] = "idle"
          /\ \A u \in Threads \ {"main"} :
               at'[u] = at[u] /\ dev'[u] = dev[u] /\ blk'[u] = blk[u]
      BY <1>1, <3>1, <3>2, CarryMoves, ThreadNames
    <3>4. Hands' BY <1>1, <3>2, <3>3, HandsMove, ThreadNames
    <3>5. dev["main"] \in Devices BY <1>1, <3>3 DEF Hands
    <3>6. messages' \in Seq(Message)
      BY <1>1, <2>5, <3>5, PostType DEF PostDetach, HandlerTypes
    <3>7. TableTypes' BY <1>1, <2>5, TypesStay DEF PostDetach
    <3> QED BY <1>1, <2>5, <3>3, <3>4, <3>6, <3>7 DEF PostDetach, FieldTypes
  <2> QED BY <2>1, <2>2, <2>3, <2>4, <2>5 DEF MainStep
<1>6. FieldTypes' /\ HandlerTypes' BY <1>1, <1>2, <1>5 DEF FieldTypes, HandlerTypes
<1> QED BY <1>3, <1>4, <1>5, <1>6, TypedIsPrimed

\* A list of the devices of S announces each of them.
LEMMA AnnounceType ==
    ASSUME HandlerTypes, NEW S, S \subseteq Devices, NEW s \in Orders(S)
    PROVE  messages \o [i \in DOMAIN s |-> [what |-> "attach", dev |-> s[i]]] \in Seq(Message)
<1>1. IsFiniteSet(S) /\ Cardinality(S) \in Nat
  BY DevicesFinite, FS_Subset, FS_CardinalityType
<1>2. s \in [1..Cardinality(S) -> S] BY DEF Orders
<1>3. PICK n \in Nat : n = Cardinality(S) BY <1>1
<1>4. PICK q : q = [i \in DOMAIN s |-> [what |-> "attach", dev |-> s[i]]] OBVIOUS
<1>5. \A i \in 1..n : [what |-> "attach", dev |-> s[i]] \in Message
  BY <1>2, <1>3 DEF Message
<1>6. q \in [1..n -> Message] BY <1>2, <1>3, <1>4, <1>5
<1>7. q \in Seq(Message) BY <1>3, <1>6, SeqDef
<1> QED BY <1>4, <1>7, ConcatProperties DEF HandlerTypes

\* by the check of the device list,
LEMMA TypedCheck == Typed /\ CheckStep => Typed'
<1> SUFFICES ASSUME Typed, CheckStep PROVE Typed' OBVIOUS
<1>1. /\ ThreadTypes /\ AndroidTypes /\ IntentTypes /\ FieldTypes
      /\ TableTypes /\ HandlerTypes /\ CheckTypes /\ Hands
  BY TypedIs
<1>2. UNCHANGED <<androidVars, broadcasts, registered, destroyed, mCtrlBlocks, quit,
                  dev, blk, block, told, calls>>
  BY DEF CheckStep
<1>3. AndroidTypes' /\ IntentTypes' /\ TableTypes' BY <1>1, <1>2, TypesStay
<1>4. ThreadTypes' /\ Hands'
  <2>1. UNCHANGED at \/ \E from \in Places, to \in {"idle", "list", "dead", "count",
                                                    "announce", "repost"} :
                           Go("handler", from, to)
    BY DEF CheckStep, CheckDue, BeginCheck, ListDevices, CountPermissions, Announce,
           EndCheck, Places
  <2>2. CASE UNCHANGED at BY <1>1, <1>2, <2>2, TypesStay, HandsStay DEF threadVars
  <2>3. CASE ~UNCHANGED at
    <3>1. PICK from \in Places, to \in {"idle", "list", "dead", "count", "announce", "repost"} :
            Go("handler", from, to)
      BY <2>1, <2>3
    <3>2. /\ to \in Places /\ to \in PlacesOf("handler") /\ to \notin WithBlock
          /\ to \notin {"connect", "put"}
      BY DEF Places, PlacesOf, WithBlock
    <3>3. /\ ThreadTypes' /\ at'["handler"] = to
          /\ \A u \in Threads \ {"handler"} : at'[u] = at[u]
          /\ \A u \in Threads : dev'[u] = dev[u] /\ blk'[u] = blk[u]
      BY <1>1, <1>2, <3>1, <3>2, GoMoves, ThreadNames
    <3> QED BY <1>1, <3>2, <3>3, HandsMove, ThreadNames
  <2> QED BY <2>2, <2>3
<1>5. messages' \in Seq(Message)
  <2>1. CASE CheckDue
    <3>1. PICK m \in Message : m = [what |-> "check", dev |-> NULL] BY DEF Message
    <3> QED BY <1>1, <2>1, <3>1, AppendProperties DEF CheckDue, HandlerTypes
  <2>2. CASE BeginCheck BY <1>1, <2>2, HeadMessage DEF BeginCheck
  <2>3. CASE ListDevices \/ CountPermissions \/ EndCheck
    BY <1>1, <2>3 DEF ListDevices, CountPermissions, EndCheck, HandlerTypes
  <2>4. CASE Announce
    <3>1. UNCHANGED messages \/ \E s \in Orders(found) :
            messages' = messages \o [i \in DOMAIN s |-> [what |-> "attach", dev |-> s[i]]]
      BY <2>4 DEF Announce
    <3> QED BY <1>1, <3>1, AnnounceType DEF CheckTypes, HandlerTypes
  <2> QED BY <2>1, <2>2, <2>3, <2>4 DEF CheckStep
<1>6. checks' \in Nat
  BY <1>1 DEF CheckStep, CheckDue, BeginCheck, ListDevices, CountPermissions, Announce,
              EndCheck, RepostCheck, HandlerTypes
<1>7. mHasPermissions' \subseteq Keys
  <2>1. CASE CountPermissions
    <3>1. PICK S \in SUBSET {KeyOf[d] : d \in found} :
            mHasPermissions' = IF Throws THEN {} ELSE S
      BY <2>1 DEF CountPermissions
    <3>2. {KeyOf[d] : d \in found} \subseteq Keys
      BY <1>1, MonitorAssumption DEF MonitorAssumption, CheckTypes, Devices
    <3> QED BY <3>1, <3>2
  <2>2. CASE ~CountPermissions
    BY <1>1, <2>2 DEF CheckStep, CheckDue, BeginCheck, ListDevices, Announce, EndCheck,
                      FieldTypes
  <2> QED BY <2>1, <2>2
<1>8. mDeviceCounts' \in 0..Cardinality(Devices)
  <2>1. Cardinality(found) \in 0..Cardinality(Devices)
    BY <1>1, DevicesFinite, FS_Subset, FS_CardinalityType DEF CheckTypes
  <2>2. UNCHANGED mDeviceCounts \/ mDeviceCounts' = Cardinality(found)
    BY DEF CheckStep, CheckDue, BeginCheck, ListDevices, CountPermissions, Announce,
           EndCheck, NewCount
  <2> QED BY <1>1, <2>1, <2>2 DEF FieldTypes
<1>9. found' \subseteq Devices
  BY <1>1 DEF CheckStep, CheckDue, BeginCheck, ListDevices, CountPermissions, Announce,
              EndCheck, CheckTypes, Attached
<1>10. more' \in BOOLEAN
  <2>1. CASE CountPermissions
    <3>1. PICK S : more' = (Cardinality(S) > Cardinality(mHasPermissions))
      BY <2>1 DEF CountPermissions
    <3> QED BY <3>1
  <2>2. CASE ~CountPermissions
    <3>1. UNCHANGED more \/ more' = FALSE
      BY <2>2 DEF CheckStep, CheckDue, BeginCheck, ListDevices, Announce, EndCheck
    <3> QED BY <1>1, <3>1 DEF CheckTypes
  <2> QED BY <2>1, <2>2
<1>11. FieldTypes' /\ HandlerTypes' /\ CheckTypes'
  BY <1>1, <1>2, <1>5, <1>6, <1>7, <1>8, <1>9, <1>10 DEF FieldTypes, HandlerTypes, CheckTypes
<1> QED BY <1>3, <1>4, <1>11, TypedIsPrimed

\* A new block is open only if the device was attached.
LEMMA NewBlockIs ==
    ASSUME TableTypes, NEW b \in Blocks, NEW d \in Devices \cup {NULL},
           NEW clone \in BOOLEAN, NewBlock(b, d, clone)
    PROVE  /\ block' \in [Blocks -> Block] /\ block[b].conn = "unused"
           /\ block'[b].conn \in {"open", "none"}
           /\ block'[b].conn = "open" => device[d] = "attached"
           /\ block'[b].dev = d /\ (block'[b].clone <=> clone)
           /\ \A c \in Blocks \ {b} : block'[c] = block[c]
<1>1. PICK r : r = [conn |-> Connection(d), dev |-> d, clone |-> clone, late |-> FALSE]
  OBVIOUS
<1>2. r.dev = d /\ r.conn = Connection(d) BY <1>1
<1>3. r.clone = clone BY <1>1, Zenon
<1>4. Connection(d) \in {"open", "none"} /\ (Connection(d) = "open" => device[d] = "attached")
  BY DEF Connection
<1>5. r \in Block BY <1>1, <1>4 DEF Block
<1>6. block[b].conn = "unused" /\ block' = [block EXCEPT ![b] = r] BY <1>1 DEF NewBlock
<1>7. /\ block' \in [Blocks -> Block] /\ block'[b] = r
      /\ \A c \in Blocks \ {b} : block'[c] = block[c]
  BY <1>5, <1>6 DEF TableTypes
<1> QED BY <1>2, <1>3, <1>4, <1>6, <1>7

\* The steps of processConnect's runnable and of openDevice.
Opener(t) ==
    \/ t = "handler" /\ ConnectStep
    \/ t = "app" /\ OpenDeviceStep

\* The steps of openDevice and of processConnect's message.
LEMMA OpenerSteps ==
    ASSUME NEW t \in Threads, Opener(t)
    PROVE  /\ t \in {"handler", "app"}
           /\ \/ LookUp(t, "connect", "put", "call") \/ PutBlock(t, "put", "call")
              \/ t = "handler" /\ HandBlock(t, "call", "onConnect")
              \/ t = "app" /\ HandBlock(t, "call", "openDevice")
  BY DEF Opener, ConnectStep, OpenDeviceStep

\* They keep the types of what they touch.
LEMMA OpenerTypes ==
    ASSUME ThreadTypes, TableTypes, Hands, FieldTypes, NEW t \in Threads, Opener(t)
    PROVE  ThreadTypes' /\ TableTypes' /\ Hands'
<1>1. /\ {"put", "call", "idle"} \subseteq Places /\ {"put", "call", "idle"} \subseteq PlacesOf(t)
      /\ "idle" \notin WithBlock /\ t # "main"
  BY OpenerSteps DEF Places, PlacesOf, WithBlock
<1>2. CASE LookUp(t, "connect", "put", "call")
  <2>1. at[t] = "connect" /\ dev[t] \in Devices BY <1>2 DEF LookUp, Hands
  <2>2. PICK d \in Devices : d = dev[t] BY <2>1
  <2>3. CASE mCtrlBlocks[d] # NULL
    <3>1. UNCHANGED <<block, mCtrlBlocks>> /\ Carry(t, "connect", "call", d, mCtrlBlocks[d])
      BY <1>2, <2>2, <2>3 DEF LookUp
    <3>2. mCtrlBlocks[d] \in Blocks BY <2>3 DEF TableTypes
    <3>3. /\ ThreadTypes' /\ at'[t] = "call" /\ dev'[t] = d /\ blk'[t] \in Blocks
          /\ \A u \in Threads \ {t} : at'[u] = at[u] /\ dev'[u] = dev[u] /\ blk'[u] = blk[u]
      BY <1>1, <3>1, <3>2, CarryMoves
    <3> QED BY <1>1, <3>1, <3>3, HandsMove, TypesStay
  <2>4. CASE mCtrlBlocks[d] = NULL
    <3>1. PICK b \in Blocks : NewBlock(b, d, FALSE) /\ Carry(t, "connect", "put", d, b)
      BY <1>2, <2>2, <2>4 DEF LookUp
    <3>2. UNCHANGED mCtrlBlocks BY <1>2 DEF LookUp
    <3>3. /\ ThreadTypes' /\ at'[t] = "put" /\ dev'[t] = d /\ blk'[t] \in Blocks
          /\ \A u \in Threads \ {t} : at'[u] = at[u] /\ dev'[u] = dev[u] /\ blk'[u] = blk[u]
      BY <1>1, <3>1, CarryMoves
    <3>4. TableTypes' BY <3>1, <3>2, NewBlockIs DEF TableTypes
    <3> QED BY <1>1, <3>3, <3>4, HandsMove
  <2> QED BY <2>3, <2>4
<1>3. CASE PutBlock(t, "put", "call")
  <2>1. /\ Go(t, "put", "call") /\ UNCHANGED <<dev, blk>>
        /\ mCtrlBlocks' = [mCtrlBlocks EXCEPT ![dev[t]] = blk[t]]
        /\ block' = [block EXCEPT ![blk[t]].late = destroyed]
    BY <1>3 DEF PutBlock
  <2>2. at[t] = "put" /\ dev[t] \in Devices /\ blk[t] \in Blocks
    BY <2>1 DEF Go, Hands, WithBlock
  <2>3. /\ ThreadTypes' /\ at'[t] = "call"
        /\ \A u \in Threads \ {t} : at'[u] = at[u]
        /\ \A u \in Threads : dev'[u] = dev[u] /\ blk'[u] = blk[u]
    BY <1>1, <2>1, GoMoves
  <2>4. block' \in [Blocks -> Block] BY <2>1, <2>2 DEF TableTypes, FieldTypes, Block
  <2>5. mCtrlBlocks' \in [Devices -> Blocks \cup {NULL}] BY <2>1, <2>2 DEF TableTypes
  <2> QED BY <1>1, <2>2, <2>3, <2>4, <2>5, HandsMove DEF TableTypes
<1>4. CASE \E what : HandBlock(t, "call", what)
  <2>1. Carry(t, "call", "idle", NULL, NULL) /\ UNCHANGED <<mCtrlBlocks, block>>
    BY <1>4 DEF HandBlock
  <2>2. /\ ThreadTypes' /\ at'[t] = "idle"
        /\ \A u \in Threads \ {t} : at'[u] = at[u] /\ dev'[u] = dev[u] /\ blk'[u] = blk[u]
    BY <1>1, <2>1, CarryMoves
  <2> QED BY <1>1, <2>1, <2>2, HandsMove, TypesStay
<1> QED BY <1>2, <1>3, <1>4, OpenerSteps

\* Typed is kept by the looper's messages,
LEMMA TypedMessage == Typed /\ MessageStep => Typed'
<1> SUFFICES ASSUME Typed, MessageStep PROVE Typed' OBVIOUS
<1>1. /\ ThreadTypes /\ AndroidTypes /\ IntentTypes /\ FieldTypes
      /\ TableTypes /\ HandlerTypes /\ CheckTypes /\ Hands
  BY TypedIs
<1>2. UNCHANGED <<androidVars, broadcasts, registered, destroyed, mHasPermissions,
                  mDeviceCounts, checks, quit, checkVars, calls>>
  BY DEF MessageStep
<1>3. AndroidTypes' /\ IntentTypes' /\ FieldTypes' /\ CheckTypes'
  BY <1>1, <1>2, TypesStay DEF checkVars
<1>4. ThreadTypes' /\ TableTypes' /\ Hands' /\ messages' \in Seq(Message)
  <2>1. CASE RunMessage
    <3>1. messages # <<>> /\ messages' = Tail(messages) /\ UNCHANGED <<mCtrlBlocks, block>>
      BY <2>1 DEF RunMessage
    <3>2. messages' \in Seq(Message) BY <1>1, <3>1, HeadMessage
    <3>3. CASE UNCHANGED threadVars BY <1>1, <3>1, <3>2, <3>3, TypesStay, HandsStay
    <3>4. CASE ~UNCHANGED threadVars
      <4>1. Head(messages).what = "connect"
            /\ Carry("handler", "idle", "connect", Head(messages).dev, NULL)
        BY <2>1, <3>4 DEF RunMessage
      <4>2. PICK d \in Devices : d = Head(messages).dev BY <1>1, <3>1, <4>1, HeadMessage
      <4>3. /\ "connect" \in Places /\ "connect" \in PlacesOf("handler")
            /\ "connect" \notin WithBlock
        BY DEF Places, PlacesOf, WithBlock
      <4>4. /\ ThreadTypes' /\ at'["handler"] = "connect" /\ dev'["handler"] = d
            /\ \A u \in Threads \ {"handler"} :
                 at'[u] = at[u] /\ dev'[u] = dev[u] /\ blk'[u] = blk[u]
        BY <1>1, <4>1, <4>2, <4>3, CarryMoves, ThreadNames
      <4> QED BY <1>1, <3>1, <3>2, <4>3, <4>4, HandsMove, TypesStay, ThreadNames
    <3> QED BY <3>3, <3>4
  <2>2. CASE ConnectStep
    <3>1. ThreadTypes' /\ TableTypes' /\ Hands'
      BY <1>1, <2>2, OpenerTypes, ThreadNames DEF Opener
    <3> QED BY <1>1, <2>2, <3>1 DEF ConnectStep, HandlerTypes
  <2> QED BY <2>1, <2>2 DEF MessageStep
<1>5. HandlerTypes' BY <1>1, <1>2, <1>4 DEF HandlerTypes
<1> QED BY <1>3, <1>4, <1>5, TypedIsPrimed

\* The application's thread begins a call.
LEMMA AppBegins ==
    ASSUME ThreadTypes, Hands, NEW to \in {"idle", "connect", "close", "destroy"},
           NEW d \in Devices \cup {NULL}, NEW b \in Blocks \cup {NULL},
           to = "connect" => d \in Devices, to = "close" => b \in Blocks,
           Carry("app", "idle", to, d, b)
    PROVE  ThreadTypes' /\ Hands'
<1>1. /\ to \in Places /\ to \in PlacesOf("app") /\ to # "put"
      /\ to \in WithBlock => to = "close"
  BY DEF Places, PlacesOf, WithBlock
<1>2. /\ ThreadTypes' /\ at'["app"] = to /\ dev'["app"] = d /\ blk'["app"] = b
      /\ \A u \in Threads \ {"app"} : at'[u] = at[u] /\ dev'[u] = dev[u] /\ blk'[u] = blk[u]
  BY <1>1, CarryMoves, ThreadNames
<1> QED BY <1>1, <1>2, HandsMove, ThreadNames

\* A step of the application that leaves its hands as they are.
LEMMA AppGoes ==
    ASSUME ThreadTypes, Hands, NEW from, NEW to \in {"idle", "destroy", "blocks", "quit"},
           Go("app", from, to), UNCHANGED <<dev, blk>>
    PROVE  ThreadTypes' /\ Hands'
<1>1. /\ to \in Places /\ to \in PlacesOf("app") /\ to \notin WithBlock /\ to # "connect"
      /\ to # "put"
  BY DEF Places, PlacesOf, WithBlock
<1>2. /\ ThreadTypes' /\ at'["app"] = to
      /\ \A u \in Threads \ {"app"} : at'[u] = at[u] /\ dev'[u] = dev[u] /\ blk'[u] = blk[u]
  BY <1>1, GoMoves, ThreadNames
<1> QED BY <1>1, <1>2, HandsMove, ThreadNames

\* A message removed is a message that does nothing; the others stay.
LEMMA RemovedType ==
    ASSUME NEW m \in Message
    PROVE  Removed(m) \in Message /\ (m.what # "check" => Removed(m) = m)
  BY DEF Removed, Message

\* What unregister leaves of the fields.
LEMMA UnregisterType ==
    ASSUME HandlerTypes, FieldTypes, IntentTypes, UnregisterFields
    PROVE  /\ messages' \in Seq(Message) /\ checks' \in Nat
           /\ registered' = FALSE /\ broadcasts' = <<>>
           /\ mHasPermissions' = mHasPermissions /\ mDeviceCounts' \in 0..Cardinality(Devices)
<1>1. CASE destroyed
  BY <1>1, DevicesFinite DEF UnregisterFields, HandlerTypes, FieldTypes
<1>2. CASE ~destroyed
  <2>1. messages' = [i \in DOMAIN messages |-> Removed(messages[i])] /\ checks' = 0
    BY <1>2 DEF UnregisterFields
  <2>2. PICK n \in Nat : n = Len(messages) /\ DOMAIN messages = 1..n
    BY LenProperties DEF HandlerTypes
  <2>3. \A i \in 1..n : messages[i] \in Message BY <2>2, ElementOfSeq DEF HandlerTypes
  <2>4. messages' \in [1..n -> Message] BY <2>1, <2>2, <2>3, RemovedType
  <2>5. messages' \in Seq(Message) BY <2>2, <2>4, SeqDef
  <2> QED BY <1>2, <2>1, <2>5, DevicesFinite DEF UnregisterFields
<1> QED BY <1>1, <1>2

\* What the first step of a call leaves of them.
LEMMA CallTypes ==
    ASSUME ThreadTypes, AndroidTypes, IntentTypes, FieldTypes, TableTypes, HandlerTypes, Hands,
           Call
    PROVE  /\ ThreadTypes' /\ TableTypes' /\ Hands' /\ IntentTypes'
           /\ asked' \subseteq Attached
           /\ registered' \in BOOLEAN /\ mHasPermissions' \subseteq Keys
           /\ mDeviceCounts' \in 0..Cardinality(Devices)
           /\ messages' \in Seq(Message) /\ checks' \in Nat
<1>1. asked \subseteq Attached /\ registered \in BOOLEAN /\ mHasPermissions \subseteq Keys
      /\ mDeviceCounts \in 0..Cardinality(Devices) /\ messages \in Seq(Message) /\ checks \in Nat
  BY DEF AndroidTypes, FieldTypes, HandlerTypes
<1>2. CASE ShortCall
  <2>1. ThreadTypes' /\ TableTypes' /\ Hands'
    BY <1>2, TypesStay, HandsStay DEF ShortCall
  <2>2. CASE Register /\ UNCHANGED asked
    <3>1. checks' \in Nat BY <1>1, <2>2 DEF Register
    <3>2. mDeviceCounts' \in 0..Cardinality(Devices) BY <2>2, DevicesFinite DEF Register
    <3>3. registered' = TRUE /\ UNCHANGED <<broadcasts, mHasPermissions, messages, asked>>
      BY <2>2 DEF Register
    <3>4. IntentTypes' BY <3>3, TypesStay
    <3>5. registered' \in BOOLEAN BY <3>3
    <3> QED BY <1>1, <2>1, <3>1, <3>2, <3>3, <3>4, <3>5
  <2>3. CASE Unregister /\ UNCHANGED asked
    <3>1. UnregisterFields BY <2>3 DEF Unregister
    <3>2. /\ messages' \in Seq(Message) /\ checks' \in Nat /\ registered' = FALSE
          /\ broadcasts' = <<>> /\ mHasPermissions' = mHasPermissions
          /\ mDeviceCounts' \in 0..Cardinality(Devices)
      BY <3>1, UnregisterType
    <3>3. IntentTypes' BY <3>2, EmptySeq DEF IntentTypes
    <3>4. registered' \in BOOLEAN BY <3>2
    <3> QED BY <1>1, <2>1, <2>3, <3>2, <3>3, <3>4
  <2>4. CASE \E d \in Devices : device[d] # "new" /\ RequestPermission(d)
    <3>1. PICK d \in Devices : RequestPermission(d) BY <2>4
    <3>2. messages' \in Seq(Message) /\ mHasPermissions' \subseteq Keys
      BY <1>1, <3>1, ProcessType DEF RequestPermission
    <3>3. asked' \subseteq Attached
      BY <1>1, <3>1 DEF RequestPermission, Attached
    <3>4. UNCHANGED <<broadcasts, registered, mDeviceCounts, checks>>
      BY <3>1 DEF RequestPermission
    <3>5. IntentTypes' BY <3>4, TypesStay
    <3> QED BY <1>1, <2>1, <3>2, <3>3, <3>4, <3>5
  <2> QED BY <1>2, <2>2, <2>3, <2>4 DEF ShortCall
<1>3. CASE CallOpenDevice
  <2>1. UNCHANGED <<asked, broadcasts, registered, mDeviceCounts, messages, checks,
                    mCtrlBlocks, block>>
    BY <1>3 DEF CallOpenDevice
  <2>2. PICK d \in Devices :
          /\ Permit(d, d \in granted)
          /\ Carry("app", "idle", "connect", d, NULL) \/ UNCHANGED threadVars
    BY <1>3 DEF CallOpenDevice
  <2>3. mHasPermissions' \subseteq Keys
    BY <1>1, <2>2, MonitorAssumption DEF Permit, MonitorAssumption, Devices
  <2>4. CASE Carry("app", "idle", "connect", d, NULL)
    BY <1>1, <2>1, <2>3, <2>4, AppBegins, TypesStay
  <2>5. CASE UNCHANGED threadVars
    BY <1>1, <2>1, <2>3, <2>5, TypesStay, HandsStay
  <2> QED BY <2>2, <2>4, <2>5
<1>4. CASE CallClone
  <2>1. UNCHANGED <<asked, broadcasts, registered, mHasPermissions, mDeviceCounts,
                    messages, checks, threadVars, mCtrlBlocks>>
    BY <1>4 DEF CallClone
  <2>2. PICK b \in Blocks, c \in Blocks :
          Connection(block[b].dev) = "open" /\ NewBlock(c, block[b].dev, TRUE)
    BY <1>4 DEF CallClone, Given
  <2>3. block[b].dev \in Devices \cup {NULL} BY <2>2 DEF TableTypes, Block
  <2>4. block' \in [Blocks -> Block]
    <3>1. PICK e \in Devices \cup {NULL} : e = block[b].dev BY <2>3
    <3>2. PICK r : r = [conn |-> Connection(e), dev |-> e, clone |-> TRUE, late |-> FALSE]
      OBVIOUS
    <3>3. r \in Block BY <3>2 DEF Block, Connection
    <3>4. block' = [block EXCEPT ![c] = r] BY <2>2, <3>1, <3>2 DEF NewBlock
    <3> QED BY <3>3, <3>4 DEF TableTypes
  <2>5. TableTypes' BY <2>1, <2>4 DEF TableTypes
  <2> QED BY <1>1, <2>1, <2>5, TypesStay, HandsStay
<1>5. CASE CallClose
  <2>1. UNCHANGED <<asked, broadcasts, registered, mHasPermissions, mDeviceCounts,
                    messages, checks, mCtrlBlocks, block>>
    BY <1>5 DEF CallClose
  <2>2. PICK b \in Blocks : Carry("app", "idle", "close", NULL, b)
    BY <1>5 DEF CallClose, Given
  <2>3. ThreadTypes' /\ Hands' BY <2>2, AppBegins
  <2> QED BY <1>1, <2>1, <2>3, TypesStay
<1>6. CASE CallDestroy
  <2>1. /\ messages' \in Seq(Message) /\ checks' \in Nat /\ registered' = FALSE
        /\ broadcasts' = <<>> /\ mHasPermissions' = mHasPermissions
        /\ mDeviceCounts' \in 0..Cardinality(Devices)
    BY <1>6, UnregisterType DEF CallDestroy
  <2>2. PICK to \in {"idle", "destroy"} : Go("app", "idle", to) BY <1>6 DEF CallDestroy
  <2>3. UNCHANGED <<asked, dev, blk, mCtrlBlocks, block>> BY <1>6 DEF CallDestroy
  <2>4. ThreadTypes' /\ Hands' BY <2>2, <2>3, AppGoes
  <2>5. IntentTypes' BY <2>1, EmptySeq DEF IntentTypes
  <2>6. registered' \in BOOLEAN BY <2>1
  <2> QED BY <1>1, <2>1, <2>3, <2>4, <2>5, <2>6, TypesStay
<1> QED BY <1>2, <1>3, <1>4, <1>5, <1>6 DEF Call

\* Typed is kept by the application's calls,
LEMMA TypedCall == Typed /\ Call => Typed'
<1> SUFFICES ASSUME Typed, Call PROVE Typed' OBVIOUS
<1>1. /\ ThreadTypes /\ AndroidTypes /\ IntentTypes /\ FieldTypes
      /\ TableTypes /\ HandlerTypes /\ CheckTypes /\ Hands
  BY TypedIs
<1>2. UNCHANGED <<device, granted, destroyed, quit, checkVars, told>> BY DEF Call
<1>3. CheckTypes'
  <2>1. calls' \in 0..MaxCalls
    BY <1>1, MonitorAssumption DEF Call, CheckTypes, MonitorAssumption
  <2> QED BY <1>1, <1>2, <2>1 DEF CheckTypes, checkVars
<1>4. /\ ThreadTypes' /\ TableTypes' /\ Hands' /\ IntentTypes'
      /\ asked' \subseteq Attached
      /\ registered' \in BOOLEAN /\ mHasPermissions' \subseteq Keys
      /\ mDeviceCounts' \in 0..Cardinality(Devices)
      /\ messages' \in Seq(Message) /\ checks' \in Nat
  BY <1>1, CallTypes
<1>5. AndroidTypes' /\ FieldTypes' /\ HandlerTypes'
  BY <1>1, <1>2, <1>4 DEF AndroidTypes, FieldTypes, HandlerTypes, Attached
<1> QED BY <1>3, <1>4, <1>5, TypedIsPrimed

\* by the steps of a call that follow,
LEMMA TypedApp == Typed /\ AppStep => Typed'
<1> SUFFICES ASSUME Typed, AppStep PROVE Typed' OBVIOUS
<1>1. /\ ThreadTypes /\ AndroidTypes /\ IntentTypes /\ FieldTypes
      /\ TableTypes /\ HandlerTypes /\ CheckTypes /\ Hands
  BY TypedIs
<1>2. UNCHANGED <<androidVars, broadcasts, registered, mHasPermissions, mDeviceCounts,
                  checkVars, calls>>
  BY DEF AppStep
<1>3. AndroidTypes' /\ IntentTypes' /\ CheckTypes' BY <1>1, <1>2, TypesStay DEF checkVars
<1>4. CASE BlockStep
  <2>1. UNCHANGED <<destroyed, handlerVars>> BY <1>4 DEF BlockStep
  <2>2. ThreadTypes' /\ TableTypes' /\ Hands'
    <3>1. CASE OpenDeviceStep BY <1>1, <3>1, OpenerTypes, ThreadNames DEF Opener
    <3>2. CASE \/ CloseStep
               \/ Close("app", "close_destroy", "forget_destroy", "blocks")
               \/ Forget("app", "forget_destroy", "blocks")
      BY <1>1, <3>2, CloseTypes
    <3>3. CASE TakeForDestroy
      <4>1. PICK d \in Devices :
              /\ mCtrlBlocks[d] # NULL /\ mCtrlBlocks' = [mCtrlBlocks EXCEPT ![d] = NULL]
              /\ Carry("app", "blocks", "close_destroy", NULL, mCtrlBlocks[d])
        BY <3>3 DEF TakeForDestroy
      <4>2. mCtrlBlocks[d] \in Blocks BY <1>1, <4>1 DEF TableTypes
      <4>3. "close_destroy" \in Places /\ "close_destroy" \in PlacesOf("app")
        BY DEF Places, PlacesOf
      <4>4. /\ ThreadTypes' /\ at'["app"] = "close_destroy" /\ blk'["app"] \in Blocks
            /\ \A u \in Threads \ {"app"} :
                 at'[u] = at[u] /\ dev'[u] = dev[u] /\ blk'[u] = blk[u]
        BY <1>1, <4>1, <4>2, <4>3, CarryMoves, ThreadNames
      <4>5. Hands' BY <1>1, <4>3, <4>4, HandsMove, ThreadNames
      <4> QED BY <1>1, <3>3, <4>1, <4>4, <4>5 DEF TakeForDestroy, TableTypes
    <3>4. CASE ClearBlocks
      <4>1. ThreadTypes' /\ Hands' BY <1>1, <3>4, AppGoes DEF ClearBlocks
      <4> QED BY <1>1, <3>4, <4>1 DEF ClearBlocks, TableTypes
    <3> QED BY <1>4, <3>1, <3>2, <3>3, <3>4 DEF BlockStep
  <2>3. FieldTypes' /\ HandlerTypes' BY <1>1, <1>2, <2>1, TypesStay
  <2> QED BY <1>3, <2>2, <2>3, TypedIsPrimed
<1>5. CASE MarkDestroyed
  <2>1. ThreadTypes' /\ Hands' BY <1>1, <1>5, AppGoes DEF MarkDestroyed
  <2>2. TableTypes' /\ HandlerTypes' BY <1>1, <1>5, TypesStay DEF MarkDestroyed
  <2>3. destroyed' = TRUE BY <1>5 DEF MarkDestroyed
  <2>4. FieldTypes' BY <1>1, <1>2, <2>3 DEF FieldTypes
  <2> QED BY <1>3, <2>1, <2>2, <2>4, TypedIsPrimed
<1>6. CASE QuitLooper
  <2>1. ThreadTypes' /\ Hands' BY <1>1, <1>6, AppGoes DEF QuitLooper
  <2>2. TableTypes' /\ FieldTypes' BY <1>1, <1>2, <1>6, TypesStay DEF QuitLooper
  <2>3. quit' \in BOOLEAN BY <1>6 DEF QuitLooper
  <2>4. HandlerTypes' BY <1>6, <2>3, EmptySeq DEF QuitLooper, HandlerTypes
  <2> QED BY <1>3, <2>1, <2>2, <2>4, TypedIsPrimed
<1> QED BY <1>4, <1>5, <1>6 DEF AppStep

\* and by a step that changes nothing;
LEMMA TypedStutter == Typed /\ UNCHANGED vars => Typed'
  BY TypedIs, TypedIsPrimed, TypesStay, HandsStay
  DEF vars, androidVars, fieldVars, handlerVars, threadVars, checkVars

\* by every step, then.
LEMMA TypedStep == Typed /\ [Next]_vars => Typed'
  BY TypedAndroid, TypedMain, TypedCheck, TypedMessage, TypedCall, TypedApp, TypedStutter
  DEF Next

\* Every variable has its type, and every thread the device and the block that its
\* next step uses.
THEOREM TypedHolds == Spec => []Typed
  BY TypedInit, TypedStep, PTL DEF Spec

\* Whatever the three threads of USBMonitor do and Android sends, every variable keeps
\* its type: mDeviceCounts stays within the devices there are, the tables hold blocks.
THEOREM TypeOKHolds == Spec => []TypeOK
<1>1. Typed => TypeOK BY DEF Typed
<1> QED BY <1>1, TypedHolds, PTL

-----------------------------------------------------------------------------
(* Whose step it is.                                                       *)

Others(t) ==
    \A u \in Threads \ {t} : at'[u] = at[u] /\ dev'[u] = dev[u] /\ blk'[u] = blk[u]

\* A step that moves no thread is anybody's.
LEMMA StayOthers == UNCHANGED threadVars => \A t \in Threads : Others(t)
  BY DEF threadVars, Others

\* A step that moves thread t moves no other.
LEMMA MoveOthers ==
    ASSUME ThreadTypes, NEW t \in Threads, NEW from, NEW to
    PROVE  /\ Go(t, from, to) /\ UNCHANGED <<dev, blk>> => Others(t)
           /\ \A d, b : Carry(t, from, to, d, b) => Others(t)
  BY DEF ThreadTypes, Go, Carry, Others

\* The steps of UsbControlBlock.close are of one thread,
LEMMA CloseOthers ==
    ASSUME ThreadTypes, NEW t \in Threads, NEW from, NEW forget, NEW to,
           Close(t, from, forget, to) \/ Forget(t, from, to)
    PROVE  Others(t)
  BY MoveOthers DEF Close, Forget

\* as are those of openDevice and of the message,
LEMMA OpenOthers ==
    ASSUME ThreadTypes, NEW t \in Threads, Opener(t)
    PROVE  Others(t)
<1>1. CASE LookUp(t, "connect", "put", "call") BY <1>1, MoveOthers DEF LookUp
<1>2. CASE PutBlock(t, "put", "call") BY <1>2, MoveOthers DEF PutBlock
<1>3. CASE \E what : HandBlock(t, "call", what) BY <1>3, MoveOthers DEF HandBlock
<1> QED BY <1>1, <1>2, <1>3, OpenerSteps

\* The main thread, the handler thread and the application move alone.
LEMMA MainMoves == ThreadTypes /\ MainStep => Others("main")
<1> SUFFICES ASSUME ThreadTypes, MainStep PROVE Others("main") OBVIOUS
<1>1. CASE ReceivePermission BY <1>1, StayOthers, ThreadNames DEF ReceivePermission
<1>2. CASE ReceiveDetached
  BY <1>2, StayOthers, MoveOthers, ThreadNames DEF ReceiveDetached
<1>3. CASE CloseDetached BY <1>3, CloseOthers, ThreadNames DEF CloseDetached
<1>4. CASE ResetCount BY <1>4, MoveOthers, ThreadNames DEF ResetCount
<1>5. CASE PostDetach BY <1>5, MoveOthers, ThreadNames DEF PostDetach
<1> QED BY <1>1, <1>2, <1>3, <1>4, <1>5 DEF MainStep

\* those of the check,
LEMMA CheckMoves == ThreadTypes /\ CheckStep => Others("handler")
<1> SUFFICES ASSUME ThreadTypes, CheckStep PROVE Others("handler") OBVIOUS
<1>1. UNCHANGED <<dev, blk>> BY DEF CheckStep
<1>2. UNCHANGED at \/ \E from, to : Go("handler", from, to)
  BY DEF CheckStep, CheckDue, BeginCheck, ListDevices, CountPermissions, Announce, EndCheck
<1> QED BY <1>1, <1>2, StayOthers, MoveOthers, ThreadNames DEF threadVars

\* those of the looper,
LEMMA MessageMoves == ThreadTypes /\ MessageStep => Others("handler")
<1> SUFFICES ASSUME ThreadTypes, MessageStep PROVE Others("handler") OBVIOUS
<1>1. CASE RunMessage
  BY <1>1, StayOthers, MoveOthers, ThreadNames DEF RunMessage
<1>2. CASE ConnectStep BY <1>2, OpenOthers, ThreadNames DEF Opener
<1> QED BY <1>1, <1>2 DEF MessageStep

\* and those of the application: its calls
LEMMA CallMoves == ThreadTypes /\ Call => Others("app")
<1> SUFFICES ASSUME ThreadTypes, Call PROVE Others("app") OBVIOUS
<1>1. CASE ShortCall BY <1>1, StayOthers, ThreadNames DEF ShortCall
<1>2. CASE CallOpenDevice
  BY <1>2, StayOthers, MoveOthers, ThreadNames DEF CallOpenDevice
<1>3. CASE CallClone BY <1>3, StayOthers, ThreadNames DEF CallClone
<1>4. CASE CallClose BY <1>4, MoveOthers, ThreadNames DEF CallClose
<1>5. CASE CallDestroy BY <1>5, MoveOthers, ThreadNames DEF CallDestroy
<1> QED BY <1>1, <1>2, <1>3, <1>4, <1>5 DEF Call

\* and the steps that follow.
LEMMA AppMoves == ThreadTypes /\ AppStep => Others("app")
<1> SUFFICES ASSUME ThreadTypes, AppStep PROVE Others("app") OBVIOUS
<1>1. CASE OpenDeviceStep BY <1>1, OpenOthers, ThreadNames DEF Opener
<1>2. CASE \/ CloseStep
           \/ Close("app", "close_destroy", "forget_destroy", "blocks")
           \/ Forget("app", "forget_destroy", "blocks")
  BY <1>2, CloseOthers, ThreadNames DEF CloseStep
<1>3. CASE TakeForDestroy BY <1>3, MoveOthers, ThreadNames DEF TakeForDestroy
<1>4. CASE ClearBlocks BY <1>4, MoveOthers, ThreadNames DEF ClearBlocks
<1>5. CASE MarkDestroyed BY <1>5, MoveOthers, ThreadNames DEF MarkDestroyed
<1>6. CASE QuitLooper BY <1>6, MoveOthers, ThreadNames DEF QuitLooper
<1> QED BY <1>1, <1>2, <1>3, <1>4, <1>5, <1>6 DEF AppStep, BlockStep

-----------------------------------------------------------------------------
(* The check of the device list stays alive.                               *)

\* Only in destroy, and after it, the looper quits and a check can fail.
Destroying ==
    /\ at["app"] \in {"blocks", "close_destroy", "forget_destroy", "quit"} => destroyed
    /\ quit => destroyed
    /\ at["handler"] = "dead" => destroyed

\* Destroying holds at first,
LEMMA DestroyingInit == Init => Destroying
  BY DEF Init, Destroying, Threads

\* and every step keeps it.
LEMMA DestroyingStep == Typed /\ Destroying /\ [Next]_vars => Destroying'
<1> SUFFICES ASSUME Typed, Destroying, [Next]_vars PROVE Destroying' OBVIOUS
<1>1. ThreadTypes BY TypedIs
<1>2. CASE AndroidStep
  BY <1>2 DEF AndroidStep, Destroying, fieldVars, handlerVars, threadVars
<1>3. CASE MainStep
  <2>1. at'["app"] = at["app"] /\ at'["handler"] = at["handler"]
    BY <1>1, <1>3, MainMoves DEF Others, Threads
  <2> QED BY <1>3, <2>1 DEF MainStep, Destroying
<1>4. CASE CheckStep
  <2>1. at'["app"] = at["app"] BY <1>1, <1>4, CheckMoves DEF Others, Threads
  <2>2. UNCHANGED <<destroyed, quit>> BY <1>4 DEF CheckStep
  <2>3. at'["handler"] = "dead" => destroyed \/ at["handler"] = "dead"
    BY <1>1, <1>4 DEF CheckStep, CheckDue, BeginCheck, ListDevices, CountPermissions,
                      Announce, EndCheck, Go, Throws, ThreadTypes, Threads
  <2> QED BY <2>1, <2>2, <2>3 DEF Destroying
<1>5. CASE MessageStep
  <2>1. at'["app"] = at["app"] BY <1>1, <1>5, MessageMoves DEF Others, Threads
  <2>2. UNCHANGED <<destroyed, quit>> BY <1>5 DEF MessageStep
  <2>3. at'["handler"] = "dead" => at["handler"] = "dead"
    BY <1>1, <1>5 DEF MessageStep, RunMessage, ConnectStep, LookUp, PutBlock, HandBlock,
                      Carry, Go, ThreadTypes, Threads, threadVars
  <2> QED BY <2>1, <2>2, <2>3 DEF Destroying
<1>6. CASE Call
  <2>1. at'["handler"] = at["handler"] BY <1>1, <1>6, CallMoves DEF Others, Threads
  <2>2. UNCHANGED <<destroyed, quit>> BY <1>6 DEF Call
  <2>3. at'["app"] = at["app"] \/ at'["app"] \in {"idle", "connect", "close", "destroy"}
    BY <1>1, <1>6 DEF Call, ShortCall, CallOpenDevice, CallClone, CallClose, CallDestroy,
                      Carry, Go, ThreadTypes, Threads, threadVars
  <2> QED BY <2>1, <2>2, <2>3 DEF Destroying
<1>7. CASE AppStep
  <2>1. at'["handler"] = at["handler"] BY <1>1, <1>7, AppMoves DEF Others, Threads
  <2>2. CASE OpenDeviceStep
    <3>1. UNCHANGED <<destroyed, quit>>
      BY <1>7, <2>2 DEF AppStep, BlockStep, MarkDestroyed, QuitLooper, OpenDeviceStep,
                        LookUp, PutBlock, HandBlock, Carry, Go, handlerVars
    <3>2. at'["app"] \in {"put", "call", "idle"}
      BY <1>1, <2>2 DEF OpenDeviceStep, LookUp, PutBlock, HandBlock, Carry, Go, ThreadTypes,
                        Threads
    <3> QED BY <2>1, <3>1, <3>2 DEF Destroying
  <2>3. CASE CloseStep /\ UNCHANGED <<destroyed, handlerVars>>
    <3>1. at'["app"] \in {"forget", "idle"}
      BY <1>1, <2>3 DEF CloseStep, Close, Forget, Carry, Go, ThreadTypes, Threads
    <3> QED BY <2>1, <2>3, <3>1 DEF Destroying, handlerVars
  <2>4. CASE /\ \/ TakeForDestroy \/ ClearBlocks
                \/ Close("app", "close_destroy", "forget_destroy", "blocks")
                \/ Forget("app", "forget_destroy", "blocks")
             /\ UNCHANGED <<destroyed, handlerVars>>
    <3>1. at["app"] \in {"blocks", "close_destroy", "forget_destroy"}
      BY <2>4 DEF TakeForDestroy, ClearBlocks, Close, Forget, Carry, Go
    <3> QED BY <2>1, <2>4, <3>1 DEF Destroying, handlerVars
  <2>5. CASE MarkDestroyed BY <2>1, <2>5 DEF MarkDestroyed, Destroying, handlerVars
  <2>6. CASE QuitLooper BY <2>1, <2>6 DEF QuitLooper, Destroying, Go
  <2> QED BY <1>7, <2>2, <2>3, <2>4, <2>5, <2>6 DEF AppStep, BlockStep
<1>8. CASE UNCHANGED vars BY <1>8 DEF vars, fieldVars, handlerVars, threadVars, Destroying
<1> QED BY <1>2, <1>3, <1>4, <1>5, <1>6, <1>7, <1>8 DEF Next

HasCheck(s) == \E i \in DOMAIN s : s[i].what = "check"

\* Messages posted leave a check that is due where it is, and others run before it.
LEMMA HasCheckAppend ==
    ASSUME NEW s \in Seq(Message), NEW m \in Message, HasCheck(s) \/ m.what = "check"
    PROVE  HasCheck(Append(s, m))
<1>1. /\ Len(Append(s, m)) = Len(s) + 1
      /\ \A i \in 1..Len(s) : Append(s, m)[i] = s[i]
      /\ Append(s, m)[Len(s) + 1] = m /\ Append(s, m) \in Seq(Message)
  BY AppendProperties
<1>2. /\ DOMAIN s = 1..Len(s) /\ Len(s) \in Nat
      /\ DOMAIN Append(s, m) = 1..Len(Append(s, m))
  BY <1>1, LenProperties
<1> QED BY <1>1, <1>2 DEF HasCheck

\* The check stays in a queue that others are added to,
LEMMA HasCheckConcat ==
    ASSUME NEW s \in Seq(Message), NEW q \in Seq(Message), HasCheck(s)
    PROVE  HasCheck(s \o q)
<1>1. /\ Len(s \o q) = Len(s) + Len(q) /\ s \o q \in Seq(Message)
      /\ \A i \in 1..(Len(s) + Len(q)) :
           (s \o q)[i] = IF i <= Len(s) THEN s[i] ELSE q[i - Len(s)]
  BY ConcatProperties
<1>2. /\ DOMAIN s = 1..Len(s) /\ Len(s) \in Nat /\ Len(q) \in Nat
      /\ DOMAIN (s \o q) = 1..Len(s \o q)
  BY <1>1, LenProperties
<1> QED BY <1>1, <1>2 DEF HasCheck

\* and in one from which another message is taken.
LEMMA HasCheckTail ==
    ASSUME NEW s \in Seq(Message), s # <<>>, HasCheck(s), Head(s).what # "check"
    PROVE  HasCheck(Tail(s))
<1>1. /\ Tail(s) \in Seq(Message) /\ Len(Tail(s)) = Len(s) - 1
      /\ \A i \in 1..Len(Tail(s)) : Tail(s)[i] = s[i + 1]
  BY HeadTailProperties
<1>2. Head(s) = s[1] OBVIOUS
<1>3. /\ DOMAIN s = 1..Len(s) /\ Len(s) \in Nat
      /\ DOMAIN Tail(s) = 1..Len(Tail(s))
  BY <1>1, LenProperties
<1>4. PICK i \in 1..Len(s) : s[i].what = "check" BY <1>3 DEF HasCheck
<1>5. i - 1 \in 1..Len(Tail(s)) /\ Tail(s)[i - 1] = s[i] BY <1>1, <1>2, <1>3, <1>4
<1> QED BY <1>3, <1>4, <1>5 DEF HasCheck

\* It stays when a message is posted,
LEMMA HasCheckPost ==
    ASSUME HandlerTypes, NEW d \in Devices,
           NEW w \in {"attach", "connect", "cancel", "detach"}, Post(w, d), HasCheck(messages)
    PROVE  HasCheck(messages')
<1>1. PICK m \in Message : m = [what |-> w, dev |-> d] BY DEF Message
<1>2. HasCheck(Append(messages, m)) BY HasCheckAppend DEF HandlerTypes
<1> QED BY <1>1, <1>2 DEF Post

\* as processConnect and processCancel do.
LEMMA HasCheckProcess ==
    ASSUME HandlerTypes, NEW d \in Devices, ProcessConnect(d) \/ ProcessCancel(d),
           HasCheck(messages)
    PROVE  HasCheck(messages')
  BY HasCheckPost DEF ProcessConnect, ProcessCancel

Alive == checks > 0 \/ Checking \/ HasCheck(messages)

\* CheckAlive in these words.
LEMMA CheckAliveIs == CheckAlive <=> (registered /\ ~destroyed => Alive)
  BY DEF CheckAlive, Alive, HasCheck

\* The same after a step.
LEMMA CheckAliveIsPrimed == CheckAlive' <=> (registered' /\ ~destroyed' => Alive')
  BY DEF CheckAlive, Alive, HasCheck

\* No check is due before register.
LEMMA CheckAliveInit == Init => CheckAlive
  BY DEF Init, CheckAlive

\* The check is lost neither by the main thread,
LEMMA AliveMain ==
    ASSUME Typed, MainStep, Alive
    PROVE  Alive'
<1>1. /\ ThreadTypes /\ IntentTypes /\ HandlerTypes /\ Hands BY TypedIs
<1>2. UNCHANGED checks BY DEF MainStep
<1>3. Checking' = Checking
  <2>1. at'["handler"] = at["handler"] BY <1>1, MainMoves DEF Others, Threads
  <2> QED BY <2>1 DEF Checking
<1>4. HasCheck(messages) => HasCheck(messages')
  <2>1. CASE ReceivePermission
    <3>1. PICK d \in Devices : ProcessConnect(d) \/ ProcessCancel(d)
      BY <1>1, <2>1, HeadIntent DEF ReceivePermission, NextBroadcast
    <3> QED BY <1>1, <3>1, HasCheckProcess
  <2>2. CASE PostDetach
    <3>1. dev["main"] \in Devices BY <1>1, <2>2 DEF PostDetach, Carry, Go, Hands
    <3>2. UNCHANGED messages \/ Post("detach", dev["main"]) BY <2>2 DEF PostDetach
    <3> QED BY <1>1, <3>1, <3>2, HasCheckPost
  <2>3. CASE ReceiveDetached \/ CloseDetached \/ ResetCount
    BY <2>3 DEF ReceiveDetached, CloseDetached, ResetCount
  <2> QED BY <2>1, <2>2, <2>3 DEF MainStep
<1> QED BY <1>2, <1>3, <1>4 DEF Alive

\* nor by the check itself, which posts the next one,
LEMMA AliveCheck ==
    ASSUME Typed, Destroying, CheckStep, ~destroyed, Alive
    PROVE  Alive'
<1>1. /\ ThreadTypes /\ CheckTypes /\ HandlerTypes /\ Hands BY TypedIs
<1>2. ~quit BY DEF Destroying
<1>3. CASE CheckDue
  <2>1. PICK m \in Message : m = [what |-> "check", dev |-> NULL] BY DEF Message
  <2>2. HasCheck(Append(messages, m)) BY <1>1, <2>1, HasCheckAppend DEF HandlerTypes
  <2> QED BY <1>3, <2>1, <2>2 DEF CheckDue, Alive
<1>4. CASE BeginCheck
  <2>1. at'["handler"] = "list" BY <1>1, <1>4 DEF BeginCheck, Go, ThreadTypes, Threads
  <2> QED BY <2>1 DEF Alive, Checking
<1>5. CASE ListDevices
  <2>1. at'["handler"] = "count" BY <1>1, <1>5 DEF ListDevices, Go, ThreadTypes, Threads
  <2> QED BY <2>1 DEF Alive, Checking
<1>6. CASE CountPermissions
  <2>1. at'["handler"] = "announce"
    BY <1>1, <1>6 DEF CountPermissions, Throws, Go, ThreadTypes, Threads
  <2> QED BY <2>1 DEF Alive, Checking
<1>7. CASE Announce
  <2>1. at'["handler"] = "repost" BY <1>1, <1>7 DEF Announce, Go, ThreadTypes, Threads
  <2> QED BY <2>1 DEF Alive, Checking
<1>8. CASE EndCheck
  BY <1>1, <1>2, <1>8 DEF EndCheck, RepostCheck, Alive, HandlerTypes
<1> QED BY <1>3, <1>4, <1>5, <1>6, <1>7, <1>8 DEF CheckStep

\* nor by the looper's other messages.
LEMMA AliveMessage ==
    ASSUME Typed, MessageStep, Alive
    PROVE  Alive'
<1>1. ThreadTypes /\ HandlerTypes BY TypedIs
<1>2. UNCHANGED checks BY DEF MessageStep
<1>3. at["handler"] \in {"idle", "connect", "put", "call"}
  BY DEF MessageStep, RunMessage, ConnectStep, LookUp, PutBlock, HandBlock, Carry, Go
<1>4. ~Checking BY <1>3 DEF Checking
<1>5. HasCheck(messages) => HasCheck(messages')
  <2>1. CASE RunMessage BY <1>1, <2>1, HasCheckTail DEF RunMessage, HandlerTypes
  <2>2. CASE ConnectStep BY <2>2 DEF ConnectStep
  <2> QED BY <2>1, <2>2 DEF MessageStep
<1> QED BY <1>2, <1>4, <1>5 DEF Alive

\* register posts the first check, and only unregister and destroy remove it.
LEMMA CheckAliveStep == Typed /\ Destroying /\ CheckAlive /\ [Next]_vars => CheckAlive'
<1> SUFFICES ASSUME Typed, Destroying, CheckAlive, [Next]_vars PROVE CheckAlive' OBVIOUS
<1>1. ThreadTypes /\ HandlerTypes /\ (registered /\ ~destroyed => Alive)
  BY TypedIs, CheckAliveIs
<1>2. CASE AndroidStep
  BY <1>1, <1>2, CheckAliveIsPrimed
  DEF AndroidStep, fieldVars, handlerVars, threadVars, Alive, HasCheck, Checking
<1>3. CASE MainStep BY <1>1, <1>3, AliveMain, CheckAliveIsPrimed DEF MainStep
<1>4. CASE CheckStep BY <1>1, <1>4, AliveCheck, CheckAliveIsPrimed DEF CheckStep
<1>5. CASE MessageStep BY <1>1, <1>5, AliveMessage, CheckAliveIsPrimed DEF MessageStep
<1>6. CASE Call
  <2>1. destroyed' = destroyed /\ at'["handler"] = at["handler"]
    BY <1>1, <1>6, CallMoves DEF Call, Others, Threads
  <2>2. Checking' = Checking BY <2>1 DEF Checking
  <2>3. CASE Register
    <3>1. checks' > 0 BY <1>1, <2>3 DEF Register, HandlerTypes
    <3> QED BY <3>1, CheckAliveIsPrimed DEF Alive
  <2>4. CASE UnregisterFields BY <2>4, CheckAliveIsPrimed DEF UnregisterFields
  <2>5. CASE \E d \in Devices : RequestPermission(d)
    <3>1. PICK d \in Devices : RequestPermission(d) BY <2>5
    <3>2. UNCHANGED messages \/ ProcessConnect(d) \/ ProcessCancel(d)
      BY <3>1 DEF RequestPermission
    <3>3. HasCheck(messages) => HasCheck(messages') BY <1>1, <3>2, HasCheckProcess
    <3>4. UNCHANGED <<registered, checks>> BY <3>1 DEF RequestPermission
    <3> QED BY <1>1, <2>1, <2>2, <3>3, <3>4, CheckAliveIsPrimed DEF Alive
  <2>6. CASE CallOpenDevice \/ CallClone \/ CallClose
    <3>1. UNCHANGED <<registered, checks, messages>>
      BY <2>6 DEF CallOpenDevice, CallClone, CallClose
    <3> QED BY <1>1, <2>1, <2>2, <3>1, CheckAliveIsPrimed DEF Alive, HasCheck
  <2> QED BY <1>6, <2>3, <2>4, <2>5, <2>6 DEF Call, ShortCall, Unregister, CallDestroy
<1>7. CASE AppStep
  <2>1. UNCHANGED registered /\ at'["handler"] = at["handler"]
    BY <1>1, <1>7, AppMoves DEF AppStep, Others, Threads
  <2>2. Checking' = Checking BY <2>1 DEF Checking
  <2>3. CASE BlockStep
    BY <1>1, <2>1, <2>2, <2>3, CheckAliveIsPrimed DEF BlockStep, handlerVars, Alive, HasCheck
  <2>4. CASE MarkDestroyed BY <2>4, CheckAliveIsPrimed DEF MarkDestroyed
  <2>5. CASE QuitLooper
    BY <2>5, CheckAliveIsPrimed DEF QuitLooper, Destroying, Go
  <2> QED BY <1>7, <2>3, <2>4, <2>5 DEF AppStep
<1>8. CASE UNCHANGED vars
  BY <1>1, <1>8, CheckAliveIsPrimed
  DEF vars, fieldVars, handlerVars, threadVars, Alive, HasCheck, Checking
<1> QED BY <1>2, <1>3, <1>4, <1>5, <1>6, <1>7, <1>8 DEF Next

\* mDeviceCheckRunnable removes and posts itself while unregister removes it and
\* register posts it: a registered monitor is never left without a check.
THEOREM CheckAliveHolds == Spec => []CheckAlive
<1>1. Init => Typed /\ Destroying /\ CheckAlive
  BY TypedInit, DestroyingInit, CheckAliveInit
<1>2. Typed /\ Destroying /\ CheckAlive /\ [Next]_vars => (Typed /\ Destroying /\ CheckAlive)'
  BY TypedStep, DestroyingStep, CheckAliveStep
<1> QED BY <1>1, <1>2, PTL DEF Spec

-----------------------------------------------------------------------------
(* Who can have a block.                                                   *)

HandedOut(b) == <<"onConnect", b>> \in told \/ <<"openDevice", b>> \in told

\* Neither mCtrlBlocks nor the application nor a thread of S has block b.
Nowhere(b, S) ==
    /\ \A d \in Devices : mCtrlBlocks[d] # b
    /\ \A t \in S : blk[t] # b
    /\ ~HandedOut(b) /\ ~block[b].clone

\* The table keeps a device's own blocks.
TableDev == \A d \in Devices : mCtrlBlocks[d] # NULL => block[mCtrlBlocks[d]].dev = d

UnusedNowhere == \A b \in Blocks : block[b].conn = "unused" => Nowhere(b, Threads)

\* Until it is put into mCtrlBlocks, a new block is known to its thread alone.
PutPrivate ==
    \A t \in Threads, b \in Blocks : at[t] = "put" /\ blk[t] = b =>
        block[b].conn # "closed" /\ Nowhere(b, Threads \ {t})

HandDev == \A t \in Threads : at[t] \in {"put", "call"} => block[blk[t]].dev = dev[t]

\* The threads that have closed a block have closed different ones.
ClosersApart ==
    \A t \in Threads : Closing(t) =>
        /\ block[blk[t]].conn = "closed"
        /\ \A u \in Threads \ {t} : Closing(u) => blk[u] # blk[t]

Placed ==
    TableDev /\ UnusedNowhere /\ PutPrivate /\ HandDev /\ ClosersApart /\ ClosedBlocksLeave

\* Placed holds at first, when no block is in use.
LEMMA PlacedInit == Init => Placed
<1> SUFFICES ASSUME Init PROVE Placed OBVIOUS
<1>1. TableDev /\ HandDev /\ PutPrivate /\ ClosersApart /\ ClosedBlocksLeave
  BY DEF Init, TableDev, HandDev, PutPrivate, ClosersApart, ClosedBlocksLeave, Closing, Threads
<1>2. \A b \in Blocks : b # NULL BY NullIsNone
<1>3. \A b \in Blocks : ~block[b].clone BY Zenon DEF Init
<1>4. UnusedNowhere
  BY <1>2, <1>3 DEF Init, UnusedNowhere, Nowhere, HandedOut, Threads
<1> QED BY <1>1, <1>4 DEF Placed

\* What is said of the threads and the table, whatever the operation.
LEMMA HandTypes ==
    ASSUME Typed
    PROVE  /\ \A d \in Devices : mCtrlBlocks[d] \in Blocks \cup {NULL}
           /\ \A t \in Threads : at[t] = "put" => blk[t] \in Blocks /\ dev[t] \in Devices
           /\ \A t \in Threads : at[t] = "call" => blk[t] \in Blocks
           /\ \A t \in Threads : Closing(t) => blk[t] \in Blocks
           /\ \A t \in Threads : blk[t] \in Blocks \cup {NULL}
  BY TypedIs DEF Hands, WithBlock, TableTypes, ThreadTypes, Closing

\* A step that changes neither a block nor the table, and takes no block.
LEMMA PlacedQuiet ==
    ASSUME Typed, Placed, NEW t \in Threads, Others(t), UNCHANGED <<mCtrlBlocks, block>>,
           \A b \in Blocks : HandedOut(b)' => HandedOut(b),
           \/ UNCHANGED threadVars
           \/ /\ ~Closing(t) /\ at'[t] \notin {"put", "call", "forget", "forget_destroy"}
              /\ blk'[t] \in {blk[t], NULL}
    PROVE  Placed'
<1>1. /\ TableDev /\ UnusedNowhere /\ PutPrivate /\ HandDev /\ ClosersApart
      /\ ClosedBlocksLeave
  BY DEF Placed
<1>2. \A u \in Threads : at'[u] \in {"put", "call"} =>
        at[u] = at'[u] /\ dev'[u] = dev[u] /\ blk'[u] = blk[u]
  BY DEF Others, threadVars
<1>3. \A u \in Threads : Closing(u)' <=> Closing(u) BY DEF Others, threadVars, Closing
<1>4. \A u \in Threads : Closing(u) => blk'[u] = blk[u] BY DEF Others, threadVars
<1>5. \A u \in Threads : blk'[u] \in {blk[u], NULL} BY DEF Others, threadVars
<1>6. \A b \in Blocks, S \in SUBSET Threads : Nowhere(b, S) => Nowhere(b, S)'
  <2> SUFFICES ASSUME NEW b \in Blocks, NEW S \in SUBSET Threads, Nowhere(b, S)
               PROVE Nowhere(b, S)'
    OBVIOUS
  <2>1. \A u \in S : blk'[u] # b BY <1>5, NullIsNone DEF Nowhere
  <2>2. ~HandedOut(b)' BY DEF Nowhere
  <2>3. ~block'[b].clone BY DEF Nowhere
  <2> QED BY <2>1, <2>2, <2>3 DEF Nowhere
<1>7. TableDev' BY <1>1 DEF TableDev
<1>8. UnusedNowhere' BY <1>1, <1>6 DEF UnusedNowhere
<1>9. PutPrivate'
  <2> SUFFICES ASSUME NEW u \in Threads, NEW b \in Blocks, at'[u] = "put", blk'[u] = b
               PROVE block'[b].conn # "closed" /\ Nowhere(b, Threads \ {u})'
    BY DEF PutPrivate
  <2>1. at[u] = "put" /\ blk[u] = b BY <1>2
  <2>2. block[b].conn # "closed" /\ Nowhere(b, Threads \ {u}) BY <1>1, <2>1 DEF PutPrivate
  <2> QED BY <1>6, <2>2
<1>10. HandDev' BY <1>1, <1>2 DEF HandDev
<1>11. ClosersApart' BY <1>1, <1>3, <1>4 DEF ClosersApart
<1>12. ClosedBlocksLeave' BY <1>1, <1>3, <1>4 DEF ClosedBlocksLeave
<1> QED BY <1>7, <1>8, <1>9, <1>10, <1>11, <1>12 DEF Placed

\* A step that takes into hand, or hands out, only what its thread knew already,
\* and may take blocks out of the table.
LEMMA PlacedKnown ==
    ASSUME Typed, Placed, NEW t \in Threads, Others(t), UNCHANGED block,
           ~Closing(t), at'[t] \notin {"put", "forget", "forget_destroy"},
           at'[t] = "call" => block[blk'[t]].dev = dev'[t],
           \A d \in Devices : mCtrlBlocks'[d] \in {mCtrlBlocks[d], NULL},
           \A b \in Blocks : blk'[t] = b \/ (HandedOut(b)' /\ ~HandedOut(b))
                               => ~Nowhere(b, {t})
    PROVE  Placed'
<1>1. /\ TableDev /\ UnusedNowhere /\ PutPrivate /\ HandDev /\ ClosersApart
      /\ ClosedBlocksLeave
  BY DEF Placed
<1>2. \A u \in Threads \ {t} : at'[u] = at[u] /\ dev'[u] = dev[u] /\ blk'[u] = blk[u]
  BY DEF Others
<1>3. \A u \in Threads : Closing(u)' <=> Closing(u) BY <1>2 DEF Closing
<1>4. \A u \in Threads : Closing(u) => u # t /\ blk'[u] = blk[u] BY <1>2
<1>5. \A b \in Blocks, S \in SUBSET Threads : Nowhere(b, S) /\ t \in S => Nowhere(b, S)'
  <2> SUFFICES ASSUME NEW b \in Blocks, NEW S \in SUBSET Threads, Nowhere(b, S), t \in S
               PROVE Nowhere(b, S)'
    OBVIOUS
  <2>1. Nowhere(b, {t}) BY DEF Nowhere
  <2>2. blk'[t] # b /\ ~HandedOut(b)' BY <2>1 DEF Nowhere
  <2>3. \A u \in S : blk'[u] # b BY <1>2, <2>2 DEF Nowhere
  <2>4. \A d \in Devices : mCtrlBlocks'[d] # b BY NullIsNone DEF Nowhere
  <2>5. ~block'[b].clone BY DEF Nowhere
  <2> QED BY <2>2, <2>3, <2>4, <2>5 DEF Nowhere
<1>6. TableDev' BY <1>1 DEF TableDev
<1>7. UnusedNowhere' BY <1>1, <1>5 DEF UnusedNowhere
<1>8. PutPrivate'
  <2> SUFFICES ASSUME NEW u \in Threads, NEW b \in Blocks, at'[u] = "put", blk'[u] = b
               PROVE block'[b].conn # "closed" /\ Nowhere(b, Threads \ {u})'
    BY DEF PutPrivate
  <2>1. u # t /\ at[u] = "put" /\ blk[u] = b BY <1>2
  <2>2. block[b].conn # "closed" /\ Nowhere(b, Threads \ {u}) BY <1>1, <2>1 DEF PutPrivate
  <2> QED BY <1>5, <2>1, <2>2
<1>9. HandDev' BY <1>1, <1>2 DEF HandDev
<1>10. ClosersApart' BY <1>1, <1>3, <1>4 DEF ClosersApart
<1>11. ClosedBlocksLeave' BY <1>1, <1>3, <1>4 DEF ClosedBlocksLeave
<1> QED BY <1>6, <1>7, <1>8, <1>9, <1>10, <1>11 DEF Placed

\* UsbControlBlock.close closes a block that no other thread is closing, ...
LEMMA PlacedClose ==
    ASSUME Typed, Placed, NEW t \in Threads, NEW b \in Blocks, Others(t),
           UNCHANGED <<mCtrlBlocks, told>>,
           ~Closing(t), Closing(t)', blk[t] = b, blk'[t] = b, block[b].conn = "open",
           \A u \in Threads : Closing(u) => blk[u] # b,
           block' = [block EXCEPT ![b].conn = "closed"]
    PROVE  Placed'
<1>1. /\ TableDev /\ UnusedNowhere /\ PutPrivate /\ HandDev /\ ClosersApart
      /\ ClosedBlocksLeave
  BY DEF Placed
<1>2. \A u \in Threads \ {t} : at'[u] = at[u] /\ dev'[u] = dev[u] /\ blk'[u] = blk[u]
  BY DEF Others
<1>3. \A u \in Threads : blk'[u] = blk[u] BY <1>2
<1>4. \A u \in Threads \ {t} : Closing(u)' <=> Closing(u) BY <1>2 DEF Closing
<1>5. block \in [Blocks -> Block] BY TypedIs DEF TableTypes
<1>6. /\ block'[b].conn = "closed" /\ block'[b].dev = block[b].dev
      /\ \A c \in Blocks \ {b} : block'[c] = block[c]
  BY <1>5 DEF Block
<1>7. \A c \in Blocks : block'[c].clone = block[c].clone
  <2>1. block'[b].clone = block[b].clone BY <1>5, Zenon DEF Block
  <2> QED BY <1>6, <2>1, Zenon
<1>8. \A c \in Blocks : block'[c].dev = block[c].dev BY <1>6
<1>9. \A c \in Blocks, S \in SUBSET Threads : Nowhere(c, S) => Nowhere(c, S)'
  BY <1>3, <1>7 DEF Nowhere, HandedOut
<1>10. TableDev' BY <1>1, <1>8, HandTypes DEF TableDev
<1>11. UnusedNowhere' BY <1>1, <1>6, <1>9 DEF UnusedNowhere
<1>12. \A u \in Threads : at'[u] \in {"put", "call"} => u # t /\ at[u] = at'[u]
  BY <1>2 DEF Closing
<1>13. PutPrivate'
  <2> SUFFICES ASSUME NEW u \in Threads, NEW c \in Blocks, at'[u] = "put", blk'[u] = c
               PROVE block'[c].conn # "closed" /\ Nowhere(c, Threads \ {u})'
    BY DEF PutPrivate
  <2>1. u # t /\ at[u] = "put" /\ blk[u] = c BY <1>3, <1>12
  <2>2. block[c].conn # "closed" /\ Nowhere(c, Threads \ {u}) BY <1>1, <2>1 DEF PutPrivate
  <2>3. c # b BY <2>1, <2>2 DEF Nowhere
  <2> QED BY <1>6, <1>9, <2>2, <2>3
<1>14. HandDev' BY <1>1, <1>2, <1>8, <1>12, HandTypes DEF HandDev
<1>15. ClosersApart'
  <2> SUFFICES ASSUME NEW u \in Threads, Closing(u)'
               PROVE /\ block'[blk'[u]].conn = "closed"
                     /\ \A w \in Threads \ {u} : Closing(w)' => blk'[w] # blk'[u]
    BY DEF ClosersApart
  <2>1. CASE u = t BY <1>3, <1>4, <1>6, <2>1
  <2>2. CASE u # t
    <3>1. Closing(u) /\ blk[u] \in Blocks BY <1>4, <2>2, HandTypes
    <3>2. block'[blk'[u]].conn = "closed" BY <1>1, <1>3, <1>6, <3>1 DEF ClosersApart
    <3>3. \A w \in Threads \ {u} : Closing(w)' => blk'[w] # blk'[u]
      BY <1>1, <1>3, <1>4, <3>1 DEF ClosersApart
    <3> QED BY <3>2, <3>3
  <2> QED BY <2>1, <2>2
<1>16. ClosedBlocksLeave'
  <2> SUFFICES ASSUME NEW d \in Devices, mCtrlBlocks'[d] # NULL,
                      block'[mCtrlBlocks'[d]].conn = "closed"
               PROVE \E u \in Threads : Closing(u)' /\ block'[blk'[u]].dev = d
    BY DEF ClosedBlocksLeave
  <2>1. mCtrlBlocks[d] # NULL /\ mCtrlBlocks[d] \in Blocks /\ block[mCtrlBlocks[d]].dev = d
    BY <1>1, HandTypes DEF TableDev
  <2>2. CASE mCtrlBlocks[d] = b BY <1>3, <1>8, <2>1, <2>2
  <2>3. CASE mCtrlBlocks[d] # b
    <3>1. block[mCtrlBlocks[d]].conn = "closed" BY <1>6, <2>1, <2>3
    <3>2. PICK u \in Threads : Closing(u) /\ block[blk[u]].dev = d
      BY <1>1, <2>1, <3>1 DEF ClosedBlocksLeave
    <3>3. u # t /\ blk[u] \in Blocks BY <3>2, HandTypes
    <3> QED BY <1>3, <1>4, <1>8, <3>2, <3>3
  <2> QED BY <2>2, <2>3
<1> QED BY <1>10, <1>11, <1>13, <1>14, <1>15, <1>16 DEF Placed

\* ... and takes the block of the device out of mCtrlBlocks.
LEMMA PlacedForget ==
    ASSUME Typed, Placed, NEW t \in Threads, Others(t), UNCHANGED <<block, told>>,
           Closing(t), ~Closing(t)', at'[t] \notin {"put", "call"}, blk'[t] = NULL,
           mCtrlBlocks' = [mCtrlBlocks EXCEPT ![block[blk[t]].dev] = NULL]
    PROVE  Placed'
<1>1. /\ TableDev /\ UnusedNowhere /\ PutPrivate /\ HandDev /\ ClosersApart
      /\ ClosedBlocksLeave
  BY DEF Placed
<1>2. \A u \in Threads \ {t} : at'[u] = at[u] /\ dev'[u] = dev[u] /\ blk'[u] = blk[u]
  BY DEF Others
<1>3. \A u \in Threads \ {t} : Closing(u)' <=> Closing(u) BY <1>2 DEF Closing
<1>4. \A d \in Devices : mCtrlBlocks'[d] = IF d = block[blk[t]].dev THEN NULL ELSE mCtrlBlocks[d]
  BY TypedIs DEF TableTypes
<1>5. \A b \in Blocks, S \in SUBSET Threads : Nowhere(b, S) => Nowhere(b, S)'
  <2> SUFFICES ASSUME NEW b \in Blocks, NEW S \in SUBSET Threads, Nowhere(b, S)
               PROVE Nowhere(b, S)'
    OBVIOUS
  <2>1. \A d \in Devices : mCtrlBlocks'[d] # b BY <1>4, NullIsNone DEF Nowhere
  <2>2. \A u \in S : blk'[u] # b BY <1>2, NullIsNone DEF Nowhere
  <2>3. ~block'[b].clone BY DEF Nowhere
  <2> QED BY <2>1, <2>2, <2>3 DEF Nowhere, HandedOut
<1>6. TableDev' BY <1>1, <1>4 DEF TableDev
<1>7. UnusedNowhere' BY <1>1, <1>5 DEF UnusedNowhere
<1>8. PutPrivate'
  <2> SUFFICES ASSUME NEW u \in Threads, NEW b \in Blocks, at'[u] = "put", blk'[u] = b
               PROVE block'[b].conn # "closed" /\ Nowhere(b, Threads \ {u})'
    BY DEF PutPrivate
  <2>1. at[u] = "put" /\ blk[u] = b BY <1>2
  <2>2. block[b].conn # "closed" /\ Nowhere(b, Threads \ {u}) BY <1>1, <2>1 DEF PutPrivate
  <2> QED BY <1>5, <2>2
<1>9. HandDev' BY <1>1, <1>2 DEF HandDev
<1>10. ClosersApart' BY <1>1, <1>2, <1>3 DEF ClosersApart
<1>11. ClosedBlocksLeave'
  <2> SUFFICES ASSUME NEW d \in Devices, mCtrlBlocks'[d] # NULL,
                      block'[mCtrlBlocks'[d]].conn = "closed"
               PROVE \E u \in Threads : Closing(u)' /\ block'[blk'[u]].dev = d
    BY DEF ClosedBlocksLeave
  <2>1. d # block[blk[t]].dev /\ mCtrlBlocks'[d] = mCtrlBlocks[d] BY <1>4
  <2>2. PICK u \in Threads : Closing(u) /\ block[blk[u]].dev = d
    BY <1>1, <2>1 DEF ClosedBlocksLeave
  <2>3. u # t BY <2>1, <2>2
  <2> QED BY <1>2, <1>3, <2>2, <2>3
<1> QED BY <1>6, <1>7, <1>8, <1>9, <1>10, <1>11 DEF Placed

\* A new block is known to the thread that has opened it, or is a clone.
LEMMA PlacedNew ==
    ASSUME Typed, Placed, NEW t \in Threads, NEW b \in Blocks, NEW d \in Devices \cup {NULL},
           NEW clone \in BOOLEAN, NewBlock(b, d, clone), UNCHANGED <<mCtrlBlocks, told>>,
           Others(t),
           \/ clone /\ UNCHANGED threadVars
           \/ /\ ~clone /\ ~Closing(t) /\ at'[t] = "put" /\ dev'[t] = d /\ blk'[t] = b
    PROVE  Placed'
<1>1. /\ TableDev /\ UnusedNowhere /\ PutPrivate /\ HandDev /\ ClosersApart
      /\ ClosedBlocksLeave
  BY DEF Placed
<1>2. /\ block[b].conn = "unused" /\ block'[b].conn \in {"open", "none"}
      /\ block'[b].dev = d /\ (block'[b].clone <=> clone)
      /\ \A c \in Blocks \ {b} : block'[c] = block[c]
  BY TypedIs, NewBlockIs
<1>3. Nowhere(b, Threads) BY <1>1, <1>2 DEF UnusedNowhere
<1>4. \A u \in Threads : blk[u] # b BY <1>3 DEF Nowhere
<1>5. \A u \in Threads \ {t} : at'[u] = at[u] /\ dev'[u] = dev[u] /\ blk'[u] = blk[u]
  BY DEF Others
<1>6. \A u \in Threads : Closing(u)' <=> Closing(u) BY <1>5 DEF Closing, threadVars
<1>7. \A u \in Threads : Closing(u) => blk'[u] = blk[u] /\ blk[u] \in Blocks \ {b}
  BY <1>4, <1>5, HandTypes DEF threadVars
<1>8. \A c \in Blocks \ {b}, S \in SUBSET Threads : Nowhere(c, S) => Nowhere(c, S)'
  <2> SUFFICES ASSUME NEW c \in Blocks \ {b}, NEW S \in SUBSET Threads, Nowhere(c, S)
               PROVE Nowhere(c, S)'
    OBVIOUS
  <2>1. \A u \in S : blk'[u] # c BY <1>5 DEF Nowhere, threadVars
  <2>2. ~block'[c].clone BY <1>2 DEF Nowhere
  <2> QED BY <2>1, <2>2 DEF Nowhere, HandedOut
<1>9. TableDev'
  <2> SUFFICES ASSUME NEW e \in Devices, mCtrlBlocks[e] # NULL
               PROVE block'[mCtrlBlocks[e]].dev = e
    BY DEF TableDev
  <2>1. mCtrlBlocks[e] \in Blocks \ {b} BY <1>3, HandTypes DEF Nowhere
  <2> QED BY <1>1, <1>2, <2>1 DEF TableDev
<1>10. UnusedNowhere' BY <1>1, <1>2, <1>8 DEF UnusedNowhere
<1>11. PutPrivate'
  <2> SUFFICES ASSUME NEW u \in Threads, NEW c \in Blocks, at'[u] = "put", blk'[u] = c
               PROVE block'[c].conn # "closed" /\ Nowhere(c, Threads \ {u})'
    BY DEF PutPrivate
  <2>1. CASE u = t /\ ~clone
    <3>1. c = b BY <2>1
    <3>2. \A w \in Threads \ {u} : blk'[w] # b BY <1>4, <1>5, <2>1
    <3>3. ~block'[b].clone BY <1>2, <2>1
    <3>4. (\A e \in Devices : mCtrlBlocks'[e] # b) /\ ~HandedOut(b)'
      BY <1>3 DEF Nowhere, HandedOut
    <3>5. Nowhere(b, Threads \ {u})' BY <3>2, <3>3, <3>4 DEF Nowhere
    <3> QED BY <1>2, <3>1, <3>5
  <2>2. CASE ~(u = t /\ ~clone)
    <3>1. at[u] = "put" /\ blk[u] = c BY <1>5, <2>2 DEF threadVars
    <3>2. c \in Blocks \ {b} BY <1>4, <3>1
    <3>3. block[c].conn # "closed" /\ Nowhere(c, Threads \ {u}) BY <1>1, <3>1 DEF PutPrivate
    <3> QED BY <1>2, <1>8, <3>2, <3>3
  <2> QED BY <2>1, <2>2
<1>12. HandDev'
  <2> SUFFICES ASSUME NEW u \in Threads, at'[u] \in {"put", "call"}
               PROVE block'[blk'[u]].dev = dev'[u]
    BY DEF HandDev
  <2>1. CASE u = t /\ ~clone BY <1>2, <2>1
  <2>2. CASE ~(u = t /\ ~clone)
    <3>1. at[u] \in {"put", "call"} /\ blk'[u] = blk[u] /\ dev'[u] = dev[u]
      BY <1>5, <2>2 DEF threadVars
    <3>2. blk[u] \in Blocks \ {b} BY <1>4, <3>1, HandTypes
    <3> QED BY <1>1, <1>2, <3>1, <3>2 DEF HandDev
  <2> QED BY <2>1, <2>2
<1>13. ClosersApart' BY <1>1, <1>2, <1>6, <1>7 DEF ClosersApart
<1>14. ClosedBlocksLeave'
  <2> SUFFICES ASSUME NEW e \in Devices, mCtrlBlocks[e] # NULL,
                      block'[mCtrlBlocks[e]].conn = "closed"
               PROVE \E u \in Threads : Closing(u)' /\ block'[blk'[u]].dev = e
    BY DEF ClosedBlocksLeave
  <2>1. mCtrlBlocks[e] \in Blocks \ {b} BY <1>3, HandTypes DEF Nowhere
  <2>2. PICK u \in Threads : Closing(u) /\ block[blk[u]].dev = e
    BY <1>1, <1>2, <2>1 DEF ClosedBlocksLeave
  <2> QED BY <1>2, <1>6, <1>7, <2>2
<1> QED BY <1>9, <1>10, <1>11, <1>12, <1>13, <1>14 DEF Placed

\* A block put into mCtrlBlocks is not closed.
LEMMA PlacedPut ==
    ASSUME Typed, Placed, NEW t \in Threads, NEW b \in Blocks, NEW d \in Devices,
           Others(t), UNCHANGED told, at[t] = "put", at'[t] = "call",
           blk[t] = b, blk'[t] = b, dev[t] = d, dev'[t] = d,
           mCtrlBlocks' = [mCtrlBlocks EXCEPT ![d] = b],
           block' = [block EXCEPT ![b].late = destroyed]
    PROVE  Placed'
<1>1. /\ TableDev /\ UnusedNowhere /\ PutPrivate /\ HandDev /\ ClosersApart
      /\ ClosedBlocksLeave
  BY DEF Placed
<1>2. \A u \in Threads \ {t} : at'[u] = at[u] /\ dev'[u] = dev[u] /\ blk'[u] = blk[u]
  BY DEF Others
<1>3. \A u \in Threads : blk'[u] = blk[u] /\ dev'[u] = dev[u] BY <1>2
<1>4. \A u \in Threads : Closing(u)' <=> Closing(u) BY <1>2 DEF Closing
<1>5. block \in [Blocks -> Block] BY TypedIs DEF TableTypes
<1>6. \A c \in Blocks : block'[c].conn = block[c].conn /\ block'[c].dev = block[c].dev
  BY <1>5 DEF Block
<1>7. \A c \in Blocks : block'[c].clone = block[c].clone
  <2>1. block'[b].clone = block[b].clone BY <1>5, Zenon DEF Block
  <2>2. \A c \in Blocks \ {b} : block'[c] = block[c] BY <1>5
  <2> QED BY <2>1, <2>2, Zenon
<1>8. block[b].conn # "closed" /\ Nowhere(b, Threads \ {t}) BY <1>1 DEF PutPrivate
<1>9. block[b].dev = d BY <1>1 DEF HandDev
<1>10. \A e \in Devices : mCtrlBlocks'[e] = IF e = d THEN b ELSE mCtrlBlocks[e]
  BY TypedIs DEF TableTypes
<1>11. \A c \in Blocks \ {b}, S \in SUBSET Threads : Nowhere(c, S) => Nowhere(c, S)'
  BY <1>3, <1>7, <1>10 DEF Nowhere, HandedOut
<1>12. TableDev' BY <1>1, <1>6, <1>9, <1>10, HandTypes DEF TableDev
<1>13. UnusedNowhere'
  <2>1. block[b].conn # "unused" BY <1>1 DEF UnusedNowhere, Nowhere
  <2> QED BY <1>1, <1>6, <1>11, <2>1 DEF UnusedNowhere
<1>14. PutPrivate'
  <2> SUFFICES ASSUME NEW u \in Threads, NEW c \in Blocks, at'[u] = "put", blk'[u] = c
               PROVE block'[c].conn # "closed" /\ Nowhere(c, Threads \ {u})'
    BY DEF PutPrivate
  <2>1. u # t /\ at[u] = "put" /\ blk[u] = c BY <1>2
  <2>2. block[c].conn # "closed" /\ Nowhere(c, Threads \ {u}) BY <1>1, <2>1 DEF PutPrivate
  <2>3. c # b BY <2>1, <2>2 DEF Nowhere
  <2> QED BY <1>6, <1>11, <2>2, <2>3
<1>15. HandDev'
  <2> SUFFICES ASSUME NEW u \in Threads, at'[u] \in {"put", "call"}
               PROVE block'[blk'[u]].dev = dev'[u]
    BY DEF HandDev
  <2>1. at[u] \in {"put", "call"} BY <1>2
  <2>2. blk[u] \in Blocks BY <2>1, HandTypes
  <2> QED BY <1>1, <1>3, <1>6, <2>1, <2>2 DEF HandDev
<1>16. ClosersApart' BY <1>1, <1>3, <1>4, <1>6, HandTypes DEF ClosersApart
<1>17. ClosedBlocksLeave'
  <2> SUFFICES ASSUME NEW e \in Devices, mCtrlBlocks'[e] # NULL,
                      block'[mCtrlBlocks'[e]].conn = "closed"
               PROVE \E u \in Threads : Closing(u)' /\ block'[blk'[u]].dev = e
    BY DEF ClosedBlocksLeave
  <2>1. e # d /\ mCtrlBlocks'[e] = mCtrlBlocks[e] BY <1>6, <1>8, <1>10
  <2>2. mCtrlBlocks[e] \in Blocks BY <2>1, HandTypes
  <2>3. PICK u \in Threads : Closing(u) /\ block[blk[u]].dev = e
    BY <1>1, <1>6, <2>1, <2>2 DEF ClosedBlocksLeave
  <2> QED BY <1>3, <1>4, <1>6, <2>3, HandTypes
<1> QED BY <1>12, <1>13, <1>14, <1>15, <1>16, <1>17 DEF Placed

-----------------------------------------------------------------------------
(* What a step can do to the blocks.                                       *)

Quiet(t) ==
    /\ UNCHANGED <<mCtrlBlocks, block>> /\ \A b \in Blocks : HandedOut(b)' => HandedOut(b)
    /\ \/ UNCHANGED threadVars
       \/ /\ ~Closing(t) /\ at[t] # "put"
          /\ at'[t] \notin {"put", "call", "forget", "forget_destroy"}
          /\ blk'[t] \in {blk[t], NULL}

Learns(t) ==
    /\ UNCHANGED block /\ ~Closing(t) /\ at[t] # "put"
    /\ at'[t] \notin {"put", "forget", "forget_destroy"}
    /\ at'[t] = "call" => block[blk'[t]].dev = dev'[t]
    /\ \A d \in Devices : \/ mCtrlBlocks'[d] = mCtrlBlocks[d]
                          \/ mCtrlBlocks'[d] = NULL /\ (destroyed \/ device[d] = "removed")
    /\ \A b \in Blocks : blk'[t] = b \/ (HandedOut(b)' /\ ~HandedOut(b)) => ~Nowhere(b, {t})

Closes(t, b) ==
    /\ UNCHANGED <<mCtrlBlocks, told>> /\ ~Closing(t) /\ at[t] # "put" /\ Closing(t)'
    /\ blk[t] = b /\ blk'[t] = b /\ block[b].conn = "open"
    /\ \A u \in Threads : Closing(u) => blk[u] # b
    /\ block' = [block EXCEPT ![b].conn = "closed"]

Forgets(t) ==
    /\ UNCHANGED <<block, told>> /\ Closing(t) /\ ~Closing(t)'
    /\ at'[t] \notin {"put", "call"} /\ blk'[t] = NULL
    /\ mCtrlBlocks' = [mCtrlBlocks EXCEPT ![block[blk[t]].dev] = NULL]

Opens(t, b, d) ==
    /\ NewBlock(b, d, FALSE) /\ UNCHANGED <<mCtrlBlocks, told>> /\ mCtrlBlocks[d] = NULL
    /\ ~Closing(t) /\ at[t] # "put" /\ at'[t] = "put" /\ dev'[t] = d /\ blk'[t] = b

ClonesOne(b, d) == NewBlock(b, d, TRUE) /\ UNCHANGED <<mCtrlBlocks, told, threadVars>>

Puts(t, b, d) ==
    /\ UNCHANGED told /\ at[t] = "put" /\ at'[t] = "call"
    /\ blk[t] = b /\ blk'[t] = b /\ dev[t] = d /\ dev'[t] = d
    /\ mCtrlBlocks' = [mCtrlBlocks EXCEPT ![d] = b]
    /\ block' = [block EXCEPT ![b].late = destroyed]

Effect(t) ==
    /\ Others(t)
    /\ \/ Quiet(t) \/ Learns(t) \/ Forgets(t)
       \/ \E b \in Blocks : Closes(t, b)
       \/ \E b \in Blocks, d \in Devices : t # "main" /\ (Opens(t, b, d) \/ Puts(t, b, d))
       \/ \E b \in Blocks, d \in Devices : ClonesOne(b, d)

\* Every effect but a few leaves Placed as it is; these are the lemmas above.
LEMMA PlacedEffect ==
    ASSUME Typed, Placed, NEW t \in Threads, Effect(t)
    PROVE  Placed'
<1>1. Others(t) BY DEF Effect
<1>2. CASE Quiet(t) BY <1>1, <1>2, PlacedQuiet DEF Quiet
<1>3. CASE Learns(t)
  <2>1. \A d \in Devices : mCtrlBlocks'[d] \in {mCtrlBlocks[d], NULL} BY <1>3 DEF Learns
  <2> QED BY <1>1, <1>3, <2>1, PlacedKnown DEF Learns
<1>4. CASE Forgets(t) BY <1>1, <1>4, PlacedForget DEF Forgets
<1>5. ASSUME NEW b \in Blocks, Closes(t, b) PROVE Placed'
  BY <1>1, <1>5, PlacedClose DEF Closes
<1>6. ASSUME NEW b \in Blocks, NEW d \in Devices, Opens(t, b, d) PROVE Placed'
  BY <1>1, <1>6, PlacedNew DEF Opens
<1>7. ASSUME NEW b \in Blocks, NEW d \in Devices, Puts(t, b, d) PROVE Placed'
  BY <1>1, <1>7, PlacedPut DEF Puts
<1>8. ASSUME NEW b \in Blocks, NEW d \in Devices, ClonesOne(b, d) PROVE Placed'
  BY <1>1, <1>8, PlacedNew DEF ClonesOne
<1> QED BY <1>2, <1>3, <1>4, <1>5, <1>6, <1>7, <1>8 DEF Effect

\* Every block in use is a block of some device.
UsedDev == \A b \in Blocks : block[b].conn # "unused" => block[b].dev \in Devices

\* No block is in use at first,
LEMMA UsedDevInit == Init => UsedDev
  BY DEF Init, UsedDev

\* and a new one is given its device.
LEMMA UsedDevEffect ==
    ASSUME Typed, UsedDev, NEW t \in Threads, Effect(t)
    PROVE  UsedDev'
<1>1. TableTypes /\ block \in [Blocks -> Block] BY TypedIs DEF TableTypes
<1>2. CASE UNCHANGED block BY <1>2 DEF UsedDev
<1>3. ASSUME NEW b \in Blocks, Closes(t, b) PROVE UsedDev'
  BY <1>1, <1>3 DEF Closes, UsedDev, Block
<1>4. ASSUME NEW b \in Blocks, NEW d \in Devices, Puts(t, b, d) PROVE UsedDev'
  <2>1. \A c \in Blocks : block'[c].conn = block[c].conn /\ block'[c].dev = block[c].dev
    BY <1>1, <1>4 DEF Puts, Block
  <2> QED BY <2>1 DEF UsedDev
<1>5. ASSUME NEW b \in Blocks, NEW d \in Devices, NEW clone \in BOOLEAN, NewBlock(b, d, clone)
      PROVE  UsedDev'
  BY <1>1, <1>5, NewBlockIs DEF UsedDev
<1> QED
  BY <1>2, <1>3, <1>4, <1>5 DEF Effect, Quiet, Learns, Forgets, Opens, ClonesOne

\* Which operation has which effect.
LEMMA StayEffect ==
    ASSUME UNCHANGED threadVars, UNCHANGED <<mCtrlBlocks, block>>,
           \A b \in Blocks : HandedOut(b)' => HandedOut(b), NEW t \in Threads
    PROVE  Effect(t)
  BY StayOthers DEF Effect, Quiet

\* A block is handed out only by a step that tells the listener or the caller.
LEMMA ToldStays == UNCHANGED told => \A b \in Blocks : HandedOut(b)' => HandedOut(b)
  BY DEF HandedOut

\* The effect of the two steps of close,
LEMMA CloseEffect ==
    ASSUME Typed, NEW t \in Threads, NEW from \in {"close", "close_destroy"},
           NEW forget \in {"forget", "forget_destroy"},
           NEW to \in {"reset", "idle", "blocks"},
           Close(t, from, forget, to) \/ Forget(t, forget, to)
    PROVE  Effect(t)
<1>1. ThreadTypes /\ TableTypes /\ Hands BY TypedIs
<1>2. Others(t) BY <1>1, CloseOthers
<1>3. CASE Close(t, from, forget, to)
  <2>1. at[t] = from BY <1>3 DEF Close
  <2>2. PICK b \in Blocks : b = blk[t] BY <1>1, <2>1 DEF Hands, WithBlock
  <2>3. ~Closing(t) /\ at[t] # "put" BY <2>1 DEF Closing
  <2>4. CASE block[b].conn = "open"
    <3>1. Go(t, from, forget) /\ UNCHANGED <<dev, blk>> BY <1>3, <2>2, <2>4 DEF Close
    <3>2. at'[t] = forget BY <1>1, <3>1 DEF Go, ThreadTypes
    <3>3. \A u \in Threads : Closing(u) => blk[u] # b BY <1>3, <2>2, <2>3 DEF Close
    <3>4. Closes(t, b)
      BY <1>3, <2>2, <2>3, <2>4, <3>1, <3>2, <3>3 DEF Closes, Close, Closing
    <3> QED BY <1>2, <3>4 DEF Effect
  <2>5. CASE block[b].conn # "open"
    <3>1. Carry(t, from, to, Held(t), NULL) /\ UNCHANGED <<mCtrlBlocks, block, told>>
      BY <1>3, <2>2, <2>5 DEF Close
    <3>2. at'[t] = to /\ blk'[t] = NULL BY <1>1, <3>1 DEF Carry, Go, ThreadTypes
    <3>3. Quiet(t) BY <2>3, <3>1, <3>2, ToldStays DEF Quiet
    <3> QED BY <1>2, <3>3 DEF Effect
  <2> QED BY <2>4, <2>5
<1>4. CASE Forget(t, forget, to)
  <2>1. /\ at[t] = forget /\ at'[t] = to /\ blk'[t] = NULL
    BY <1>1, <1>4 DEF Forget, Carry, Go, ThreadTypes
  <2>2. Forgets(t) BY <1>4, <2>1 DEF Forgets, Forget, Closing
  <2> QED BY <1>2, <2>2 DEF Effect
<1> QED BY <1>3, <1>4

\* of openDevice and of the message,
LEMMA OpenEffect ==
    ASSUME Typed, Placed, NEW t \in Threads, Opener(t)
    PROVE  Effect(t)
<1>1. ThreadTypes /\ TableTypes /\ Hands BY TypedIs
<1>2. Others(t) BY <1>1, OpenOthers
<1>3. t # "main" BY OpenerSteps
<1>4. CASE LookUp(t, "connect", "put", "call")
  <2>1. at[t] = "connect" /\ ~Closing(t) BY <1>4 DEF LookUp, Closing
  <2>2. PICK d \in Devices : d = dev[t] BY <1>1, <2>1 DEF Hands
  <2>3. CASE mCtrlBlocks[d] # NULL
    <3>1. PICK x \in Blocks : x = mCtrlBlocks[d] BY <2>3, HandTypes
    <3>2. UNCHANGED <<block, mCtrlBlocks, told>> /\ Carry(t, "connect", "call", d, x)
      BY <1>4, <2>2, <2>3, <3>1 DEF LookUp
    <3>3. at'[t] = "call" /\ dev'[t] = d /\ blk'[t] = x
      BY <1>1, <3>2 DEF Carry, Go, ThreadTypes
    <3>4. block[x].dev = d BY <3>1, <2>3 DEF Placed, TableDev
    <3>5. ~Nowhere(x, {t}) BY <3>1 DEF Nowhere
    <3>6. \A b \in Blocks : blk'[t] = b \/ (HandedOut(b)' /\ ~HandedOut(b)) => ~Nowhere(b, {t})
      BY <3>2, <3>3, <3>5, ToldStays
    <3>7. Learns(t) BY <2>1, <3>2, <3>3, <3>4, <3>6 DEF Learns
    <3> QED BY <1>2, <3>7 DEF Effect
  <2>4. CASE mCtrlBlocks[d] = NULL
    <3>1. PICK b \in Blocks : NewBlock(b, d, FALSE) /\ Carry(t, "connect", "put", d, b)
      BY <1>4, <2>2, <2>4 DEF LookUp
    <3>2. UNCHANGED <<mCtrlBlocks, told>> BY <1>4 DEF LookUp
    <3>3. at'[t] = "put" /\ dev'[t] = d /\ blk'[t] = b
      BY <1>1, <3>1 DEF Carry, Go, ThreadTypes
    <3>4. Opens(t, b, d) BY <2>1, <2>4, <3>1, <3>2, <3>3 DEF Opens
    <3> QED BY <1>2, <1>3, <3>4 DEF Effect
  <2> QED BY <2>3, <2>4
<1>5. CASE PutBlock(t, "put", "call")
  <2>1. at[t] = "put" /\ at'[t] = "call" /\ UNCHANGED <<dev, blk>>
    BY <1>1, <1>5 DEF PutBlock, Go, ThreadTypes
  <2>2. PICK b \in Blocks, d \in Devices : b = blk[t] /\ d = dev[t] BY <2>1, HandTypes
  <2>3. Puts(t, b, d) BY <1>5, <2>1, <2>2 DEF Puts, PutBlock
  <2> QED BY <1>2, <1>3, <2>3 DEF Effect
<1>6. ASSUME NEW what, HandBlock(t, "call", what) PROVE Effect(t)
  <2>1. /\ at[t] = "call" /\ at'[t] = "idle" /\ blk'[t] = NULL
        /\ UNCHANGED <<mCtrlBlocks, block>> /\ told' = told \cup {<<what, blk[t]>>}
    BY <1>1, <1>6 DEF HandBlock, Carry, Go, ThreadTypes
  <2>2. \A b \in Blocks : HandedOut(b)' /\ ~HandedOut(b) => b = blk[t]
    BY <2>1 DEF HandedOut
  <2>3. \A b \in Blocks : blk'[t] = b \/ (HandedOut(b)' /\ ~HandedOut(b)) => ~Nowhere(b, {t})
    BY <2>1, <2>2, NullIsNone DEF Nowhere
  <2>4. Learns(t) BY <2>1, <2>3 DEF Learns, Closing
  <2> QED BY <1>2, <2>4 DEF Effect
<1> QED BY <1>4, <1>5, <1>6, OpenerSteps

\* The receiver hears of removals that have happened.
DetachTrue ==
    \A i \in DOMAIN broadcasts : broadcasts[i].what = "detached" =>
        device[broadcasts[i].dev] = "removed"

DetachedAre(s) ==
    \A i \in DOMAIN s : s[i].what = "detached" => device[s[i].dev] = "removed"

\* DetachTrue holds at first;
LEMMA DetachTrueInit == Init => DetachTrue
  BY DEF Init, DetachTrue

\* an intent that says so is broadcast only for a removed device;
LEMMA DetachTrueAppend ==
    ASSUME IntentTypes, DetachTrue, NEW d \in Devices,
           NEW w \in {"granted", "denied", "detached"}, Broadcast(w, d),
           \A e \in Devices : device[e] = "removed" => device'[e] = "removed",
           w = "detached" => device'[d] = "removed"
    PROVE  DetachTrue'
<1>1. PICK m \in Intent : m = [what |-> w, dev |-> d] BY DEF Intent
<1>2. broadcasts \in Seq(Intent) /\ \A x \in Intent : x.dev \in Devices
  BY DEF IntentTypes, Intent
<1>3. DOMAIN broadcasts = 1..Len(broadcasts) /\ Len(broadcasts) \in Nat
  BY <1>2, LenProperties
<1>4. CASE UNCHANGED broadcasts
  <2>1. \A i \in DOMAIN broadcasts : broadcasts[i].dev \in Devices
    BY <1>2, <1>3, ElementOfSeq
  <2> QED BY <1>4, <2>1 DEF DetachTrue
<1>5. CASE broadcasts' = Append(broadcasts, m)
  <2>1. /\ Len(Append(broadcasts, m)) = Len(broadcasts) + 1
        /\ \A i \in 1..Len(broadcasts) : Append(broadcasts, m)[i] = broadcasts[i]
        /\ Append(broadcasts, m)[Len(broadcasts) + 1] = m
        /\ Append(broadcasts, m) \in Seq(Intent)
    BY <1>2, AppendProperties
  <2>2. DOMAIN broadcasts' = 1..(Len(broadcasts) + 1) BY <1>5, <2>1, LenProperties
  <2> SUFFICES ASSUME NEW i \in DOMAIN broadcasts', broadcasts'[i].what = "detached"
               PROVE device'[broadcasts'[i].dev] = "removed"
    BY DEF DetachTrue
  <2>3. CASE i \in 1..Len(broadcasts)
    <3>1. broadcasts'[i] = broadcasts[i] /\ broadcasts[i].dev \in Devices
      BY <1>2, <1>5, <2>1, <2>3, ElementOfSeq
    <3> QED BY <1>3, <2>3, <3>1 DEF DetachTrue
  <2>4. CASE i = Len(broadcasts) + 1
    <3>1. broadcasts'[i] = m BY <1>5, <2>1, <2>4
    <3> QED BY <1>1, <3>1
  <2> QED BY <1>3, <2>2, <2>3, <2>4
<1> QED BY <1>1, <1>4, <1>5 DEF Broadcast

\* what is received is what was broadcast.
LEMMA DetachTrueTail ==
    ASSUME IntentTypes, DetachTrue, UNCHANGED device, broadcasts # <<>>,
           broadcasts' = Tail(broadcasts)
    PROVE  DetachTrue' /\ (Head(broadcasts).what = "detached" =>
                              device[Head(broadcasts).dev] = "removed")
<1>1. /\ Tail(broadcasts) \in Seq(Intent) /\ Len(Tail(broadcasts)) = Len(broadcasts) - 1
      /\ \A i \in 1..Len(Tail(broadcasts)) : Tail(broadcasts)[i] = broadcasts[i + 1]
  BY HeadTailProperties DEF IntentTypes
<1>2. /\ DOMAIN broadcasts = 1..Len(broadcasts) /\ Len(broadcasts) \in Nat
      /\ DOMAIN Tail(broadcasts) = 1..Len(Tail(broadcasts))
  BY <1>1, LenProperties DEF IntentTypes
<1>3. Len(broadcasts) > 0 BY <1>2, EmptySeq DEF IntentTypes
<1>4. Head(broadcasts) = broadcasts[1] OBVIOUS
<1>5. DetachTrue' BY <1>1, <1>2 DEF DetachTrue
<1> QED BY <1>2, <1>3, <1>4, <1>5 DEF DetachTrue

\* No step brings a removed device back.
LEMMA RemovedStays ==
    Typed /\ [Next]_vars => \A d \in Devices : device[d] = "removed" => device'[d] = "removed"
<1> SUFFICES ASSUME Typed, [Next]_vars
             PROVE \A d \in Devices : device[d] = "removed" => device'[d] = "removed"
  OBVIOUS
<1>1. AndroidTypes BY TypedIs
<1>2. CASE AndroidStep
  BY <1>1, <1>2 DEF AndroidStep, Attach, Detach, Answer, AndroidTypes
<1>3. CASE UNCHANGED device BY <1>3
<1> QED BY <1>2, <1>3 DEF Next, MainStep, CheckStep, MessageStep, Call, AppStep, vars, androidVars

\* So every step keeps it.
LEMMA DetachTrueStep == Typed /\ DetachTrue /\ [Next]_vars => DetachTrue'
<1> SUFFICES ASSUME Typed, DetachTrue, [Next]_vars PROVE DetachTrue' OBVIOUS
<1>1. IntentTypes /\ AndroidTypes BY TypedIs
<1>2. \A d \in Devices : device[d] = "removed" => device'[d] = "removed" BY RemovedStays
<1>3. \A i \in DOMAIN broadcasts : broadcasts[i].dev \in Devices
  <2>1. \A x \in Intent : x.dev \in Devices BY DEF Intent
  <2> QED BY <1>1, <2>1, LenProperties, ElementOfSeq DEF IntentTypes
<1>4. CASE UNCHANGED broadcasts BY <1>2, <1>3, <1>4 DEF DetachTrue
<1>5. CASE AndroidStep
  <2>1. PICK d \in Devices : Attach(d) \/ Detach(d) \/ Answer(d) BY <1>5 DEF AndroidStep
  <2>2. CASE Attach(d) BY <1>4, <2>2 DEF Attach
  <2>3. CASE Detach(d)
    <3>1. device'[d] = "removed" BY <1>1, <2>3 DEF Detach, AndroidTypes
    <3> QED BY <1>1, <1>2, <2>3, <3>1, DetachTrueAppend DEF Detach
  <2>4. CASE Answer(d) BY <1>1, <1>2, <2>4, DetachTrueAppend DEF Answer
  <2> QED BY <2>1, <2>2, <2>3, <2>4
<1>6. CASE MainStep
  <2>1. UNCHANGED broadcasts \/ (broadcasts # <<>> /\ broadcasts' = Tail(broadcasts))
    BY <1>6 DEF MainStep, ReceivePermission, ReceiveDetached, CloseDetached, ResetCount,
                PostDetach, NextBroadcast
  <2>2. UNCHANGED device BY <1>6 DEF MainStep, androidVars
  <2> QED BY <1>1, <1>4, <2>1, <2>2, DetachTrueTail
<1>7. CASE CheckStep \/ MessageStep \/ AppStep \/ UNCHANGED vars
  BY <1>4, <1>7 DEF CheckStep, MessageStep, AppStep, vars
<1>8. CASE Call
  <2>1. UNCHANGED broadcasts \/ broadcasts' = <<>>
    BY <1>8 DEF Call, ShortCall, Register, Unregister, UnregisterFields, RequestPermission,
                CallOpenDevice, CallClone, CallClose, CallDestroy
  <2>2. CASE broadcasts' = <<>> BY <2>2 DEF DetachTrue
  <2> QED BY <1>4, <2>1, <2>2
<1> QED BY <1>5, <1>6, <1>7, <1>8 DEF Next

-----------------------------------------------------------------------------
(* Every step has one of these effects.                                    *)

\* The effect of a step of the main thread,
LEMMA MainEffect ==
    ASSUME Typed, Placed, DetachTrue, MainStep
    PROVE  Effect("main")
<1>1. ThreadTypes /\ TableTypes /\ Hands /\ IntentTypes BY TypedIs
<1>2. CASE ReceivePermission
  BY <1>2, StayEffect, ToldStays, ThreadNames DEF ReceivePermission
<1>3. CASE ReceiveDetached
  <2>1. UNCHANGED <<block, told, device>> BY <1>3 DEF ReceiveDetached, MainStep, androidVars
  <2>2. PICK d \in Devices : d = Head(broadcasts).dev
    BY <1>1, <1>3, HeadIntent DEF ReceiveDetached, NextBroadcast
  <2>3. device[d] = "removed"
    BY <1>1, <1>3, <2>1, <2>2, DetachTrueTail DEF ReceiveDetached, NextBroadcast
  <2>4. CASE UNCHANGED <<mCtrlBlocks, threadVars>>
    BY <2>1, <2>4, StayEffect, ToldStays, ThreadNames
  <2>5. CASE ~UNCHANGED <<mCtrlBlocks, threadVars>>
    <3>1. PICK to \in {"reset", "close"} :
            /\ Carry("main", "idle", to, d, mCtrlBlocks[d])
            /\ mCtrlBlocks' = [mCtrlBlocks EXCEPT ![d] = NULL]
      BY <1>3, <2>2, <2>5 DEF ReceiveDetached
    <3>2. at["main"] = "idle" /\ at'["main"] = to /\ blk'["main"] = mCtrlBlocks[d]
      BY <1>1, <3>1, ThreadNames DEF Carry, Go, ThreadTypes
    <3>3. \A b \in Blocks : blk'["main"] = b => ~Nowhere(b, {"main"}) BY <3>2 DEF Nowhere
    <3>4. \A e \in Devices : \/ mCtrlBlocks'[e] = mCtrlBlocks[e]
                             \/ mCtrlBlocks'[e] = NULL /\ device[e] = "removed"
      BY <1>1, <2>3, <3>1 DEF TableTypes
    <3>5. Learns("main") BY <2>1, <3>2, <3>3, <3>4, ToldStays DEF Learns, Closing
    <3>6. Others("main") BY <1>1, <3>1, MoveOthers, ThreadNames
    <3> QED BY <3>5, <3>6 DEF Effect
  <2> QED BY <2>4, <2>5
<1>4. CASE CloseDetached BY <1>4, CloseEffect, ThreadNames DEF CloseDetached
<1>5. CASE ResetCount \/ PostDetach
  <2>1. /\ at["main"] \in {"reset", "post"} /\ at'["main"] \in {"post", "idle"}
        /\ blk'["main"] \in {blk["main"], NULL} /\ UNCHANGED <<mCtrlBlocks, block, told>>
    BY <1>1, <1>5, ThreadNames DEF ResetCount, PostDetach, Carry, Go, ThreadTypes
  <2>2. Quiet("main") BY <2>1, ToldStays DEF Quiet, Closing
  <2>3. Others("main") BY <1>1, MainMoves
  <2> QED BY <2>2, <2>3 DEF Effect
<1> QED BY <1>2, <1>3, <1>4, <1>5 DEF MainStep

\* of the handler thread,
LEMMA HandlerEffect ==
    ASSUME Typed, Placed, CheckStep \/ MessageStep
    PROVE  Effect("handler")
<1>1. ThreadTypes /\ TableTypes /\ Hands BY TypedIs
<1>2. Others("handler") BY <1>1, CheckMoves, MessageMoves
<1>3. CASE CheckStep
  <2>1. UNCHANGED <<mCtrlBlocks, block, told, dev, blk>> BY <1>3 DEF CheckStep
  <2>2. \/ UNCHANGED at
        \/ /\ at["handler"] \in {"idle", "list", "count", "announce", "repost"}
           /\ at'["handler"] \in {"idle", "list", "count", "announce", "repost", "dead"}
    BY <1>1, <1>3, ThreadNames
    DEF CheckStep, CheckDue, BeginCheck, ListDevices, CountPermissions, Announce, EndCheck,
        Go, ThreadTypes
  <2>3. Quiet("handler") BY <2>1, <2>2, ToldStays DEF Quiet, Closing, threadVars
  <2> QED BY <1>2, <2>3 DEF Effect
<1>4. CASE RunMessage
  <2>1. UNCHANGED <<mCtrlBlocks, block>> BY <1>4 DEF RunMessage
  <2>2. \A b \in Blocks : HandedOut(b)' => HandedOut(b) BY <1>4 DEF RunMessage, HandedOut
  <2>3. \/ UNCHANGED threadVars
        \/ at["handler"] = "idle" /\ at'["handler"] = "connect" /\ blk'["handler"] = NULL
    BY <1>1, <1>4, ThreadNames DEF RunMessage, Carry, Go, ThreadTypes
  <2>4. Quiet("handler") BY <2>1, <2>2, <2>3 DEF Quiet, Closing
  <2> QED BY <1>2, <2>4 DEF Effect
<1>5. CASE ConnectStep BY <1>5, OpenEffect, ThreadNames DEF Opener
<1> QED BY <1>3, <1>4, <1>5 DEF MessageStep

\* of the application's calls
LEMMA CallEffect ==
    ASSUME Typed, Placed, UsedDev, Call
    PROVE  Effect("app")
<1>1. ThreadTypes /\ TableTypes /\ Hands BY TypedIs
<1>2. Others("app") /\ UNCHANGED told BY <1>1, CallMoves DEF Call
<1>3. \A b \in Given : \A S : ~Nowhere(b, S) BY DEF Given, Nowhere, HandedOut
<1>4. CASE ShortCall BY <1>2, <1>4, StayEffect, ToldStays, ThreadNames DEF ShortCall
<1>5. CASE CallOpenDevice
  <2>1. UNCHANGED <<mCtrlBlocks, block>> BY <1>5 DEF CallOpenDevice
  <2>2. \/ UNCHANGED threadVars
        \/ at["app"] = "idle" /\ at'["app"] = "connect" /\ blk'["app"] = NULL
    BY <1>1, <1>5, ThreadNames DEF CallOpenDevice, Carry, Go, ThreadTypes
  <2>3. Quiet("app") BY <1>2, <2>1, <2>2, ToldStays DEF Quiet, Closing
  <2> QED BY <1>2, <2>3 DEF Effect
<1>6. CASE CallClone
  <2>1. PICK b \in Given, c \in Blocks : NewBlock(c, block[b].dev, TRUE)
    BY <1>6 DEF CallClone
  <2>2. block[b].dev \in Devices
    <3>1. b \in Blocks /\ ~Nowhere(b, Threads) BY <1>3 DEF Given
    <3> QED BY <3>1 DEF Placed, UnusedNowhere, UsedDev
  <2>3. PICK d \in Devices : d = block[b].dev BY <2>2
  <2>4. ClonesOne(c, d) BY <1>2, <1>6, <2>1, <2>3 DEF ClonesOne, CallClone
  <2> QED BY <1>2, <2>4 DEF Effect
<1>7. CASE CallClose
  <2>1. PICK b \in Given : Carry("app", "idle", "close", NULL, b) BY <1>7 DEF CallClose
  <2>2. at["app"] = "idle" /\ at'["app"] = "close" /\ blk'["app"] = b
    BY <1>1, <2>1, ThreadNames DEF Carry, Go, ThreadTypes
  <2>3. \A x \in Blocks : blk'["app"] = x => ~Nowhere(x, {"app"}) BY <1>3, <2>2
  <2>4. UNCHANGED <<mCtrlBlocks, block>> BY <1>7 DEF CallClose
  <2>5. Learns("app") BY <1>2, <2>2, <2>3, <2>4, ToldStays DEF Learns, Closing
  <2> QED BY <1>2, <2>5 DEF Effect
<1>8. CASE CallDestroy
  <2>1. /\ at["app"] = "idle" /\ at'["app"] \in {"idle", "destroy"}
        /\ UNCHANGED <<mCtrlBlocks, block, dev, blk>>
    BY <1>1, <1>8, ThreadNames DEF CallDestroy, Go, ThreadTypes
  <2>2. Quiet("app") BY <1>2, <2>1, ToldStays DEF Quiet, Closing
  <2> QED BY <1>2, <2>2 DEF Effect
<1> QED BY <1>4, <1>5, <1>6, <1>7, <1>8 DEF Call

\* and of the steps that follow them.
LEMMA AppEffect ==
    ASSUME Typed, Placed, Destroying, AppStep
    PROVE  Effect("app")
<1>1. ThreadTypes /\ TableTypes /\ Hands BY TypedIs
<1>2. Others("app") BY <1>1, AppMoves
<1>3. CASE OpenDeviceStep BY <1>3, OpenEffect, ThreadNames DEF Opener
<1>4. CASE \/ CloseStep
           \/ Close("app", "close_destroy", "forget_destroy", "blocks")
           \/ Forget("app", "forget_destroy", "blocks")
  BY <1>4, CloseEffect, ThreadNames DEF CloseStep
<1>5. CASE TakeForDestroy
  <2>1. PICK d \in Devices :
          /\ mCtrlBlocks[d] # NULL /\ mCtrlBlocks' = [mCtrlBlocks EXCEPT ![d] = NULL]
          /\ Carry("app", "blocks", "close_destroy", NULL, mCtrlBlocks[d])
    BY <1>5 DEF TakeForDestroy
  <2>2. at["app"] = "blocks" /\ at'["app"] = "close_destroy" /\ blk'["app"] = mCtrlBlocks[d]
    BY <1>1, <2>1, ThreadNames DEF Carry, Go, ThreadTypes
  <2>3. destroyed BY <2>2 DEF Destroying
  <2>4. \A b \in Blocks : blk'["app"] = b => ~Nowhere(b, {"app"}) BY <2>2 DEF Nowhere
  <2>5. \A e \in Devices : mCtrlBlocks'[e] \in {mCtrlBlocks[e], NULL}
    BY <1>1, <2>1 DEF TableTypes
  <2>6. UNCHANGED <<block, told>> BY <1>5 DEF TakeForDestroy
  <2>7. Learns("app") BY <2>2, <2>3, <2>4, <2>5, <2>6, ToldStays DEF Learns, Closing
  <2> QED BY <1>2, <2>7 DEF Effect
<1>6. CASE ClearBlocks
  <2>1. at["app"] = "blocks" /\ at'["app"] = "quit" /\ UNCHANGED <<dev, blk, block, told>>
    BY <1>1, <1>6, ThreadNames DEF ClearBlocks, Go, ThreadTypes
  <2>2. destroyed /\ \A e \in Devices : mCtrlBlocks'[e] = NULL
    BY <1>6, <2>1 DEF ClearBlocks, Destroying
  <2>3. \A b \in Blocks : blk'["app"] = b => ~Nowhere(b, {"app"}) BY <2>1 DEF Nowhere
  <2>4. Learns("app") BY <2>1, <2>2, <2>3, ToldStays DEF Learns, Closing
  <2> QED BY <1>2, <2>4 DEF Effect
<1>7. CASE MarkDestroyed \/ QuitLooper
  <2>1. /\ at["app"] \in {"destroy", "quit"} /\ at'["app"] \in {"blocks", "idle"}
        /\ UNCHANGED <<mCtrlBlocks, block, told, dev, blk>>
    BY <1>1, <1>7, ThreadNames DEF MarkDestroyed, QuitLooper, Go, ThreadTypes
  <2>2. Quiet("app") BY <2>1, ToldStays DEF Quiet, Closing
  <2> QED BY <1>2, <2>2 DEF Effect
<1> QED BY <1>3, <1>4, <1>5, <1>6, <1>7 DEF AppStep, BlockStep

Located == Typed /\ Destroying /\ DetachTrue /\ UsedDev /\ Placed

\* Every step of the monitor has one of these effects.
LEMMA StepEffect == Located /\ [Next]_vars => \E t \in Threads : Effect(t)
<1> SUFFICES ASSUME Located, [Next]_vars PROVE \E t \in Threads : Effect(t) OBVIOUS
<1>1. Typed /\ Destroying /\ DetachTrue /\ UsedDev /\ Placed BY DEF Located
<1>2. CASE AndroidStep
  BY <1>2, StayEffect, ToldStays, ThreadNames DEF AndroidStep, fieldVars
<1>3. CASE UNCHANGED vars
  BY <1>3, StayEffect, ToldStays, ThreadNames DEF vars, fieldVars
<1> QED
  BY <1>1, <1>2, <1>3, MainEffect, HandlerEffect, CallEffect, AppEffect, ThreadNames DEF Next

\* Located holds at first,
LEMMA LocatedInit == Init => Located
  BY TypedInit, DestroyingInit, DetachTrueInit, UsedDevInit, PlacedInit DEF Located

\* and every step keeps it.
LEMMA LocatedStep == Located /\ [Next]_vars => Located'
  BY TypedStep, DestroyingStep, DetachTrueStep, StepEffect, UsedDevEffect, PlacedEffect
  DEF Located

\* A closed block is in mCtrlBlocks only until the thread that has closed it has taken
\* it out, whichever of the three threads closes, opens and looks up meanwhile.
THEOREM ClosedBlocksLeaveHolds == Spec => []ClosedBlocksLeave
<1>1. Located => ClosedBlocksLeave BY DEF Located, Placed
<1> QED BY <1>1, LocatedInit, LocatedStep, PTL DEF Spec

-----------------------------------------------------------------------------
(* One connection to a device.                                             *)

\* What OneConnection excepts; it stays so.
Exempt(d) ==
    \/ destroyed
    \/ at["app"] \in {"put", "call"} /\ dev["app"] = d
    \/ \E x \in Blocks : /\ block[x].dev = d
                         /\ \/ <<"openDevice", x>> \in told
                            \/ block[x].clone /\ block[x].conn = "closed"

Opened(b, d) == block[b].conn = "open" /\ ~block[b].clone /\ block[b].dev = d

\* The block that is open is the one mCtrlBlocks has, or will have.
Kept(b, d) ==
    \/ device[d] = "removed" \/ mCtrlBlocks[d] = b
    \/ at["handler"] = "put" /\ blk["handler"] = b

Single(d) ==
    /\ \A b, c \in Blocks : Opened(b, d) /\ Opened(c, d) => b = c
    /\ \A b \in Blocks : Opened(b, d) => Kept(b, d)
    /\ at["handler"] = "put" /\ dev["handler"] = d => mCtrlBlocks[d] = NULL
    /\ \A t \in Threads, b \in Blocks :
         Closing(t) /\ blk[t] = b /\ block[b].dev = d /\ ~block[b].clone =>
             device[d] = "removed" \/ mCtrlBlocks[d] = b

Singles == \A d \in Devices : Exempt(d) \/ Single(d)

\* No device is open at first.
LEMMA SinglesInit == Init => Singles
<1> SUFFICES ASSUME Init, NEW d \in Devices PROVE Single(d) BY DEF Singles
<1>1. \A b \in Blocks : ~Opened(b, d) BY DEF Init, Opened
<1>2. at = [t \in Threads |-> "idle"] BY DEF Init
<1> QED BY <1>1, <1>2, ThreadNames DEF Single, Closing

\* Singles says more than OneConnection.
LEMMA SinglesSuffice == Located /\ Singles => OneConnection
<1> SUFFICES ASSUME Located, Singles,
                    NEW b \in Blocks, NEW c \in Blocks, b # c, block[b].dev = block[c].dev,
                    block[b].conn = "open", ~block[b].clone,
                    block[c].conn = "open", ~block[c].clone
             PROVE  Exempt(block[b].dev)
  BY DEF OneConnection, Exempt
<1>1. block[b].dev \in Devices BY DEF Located, UsedDev
<1>2. PICK d \in Devices : d = block[b].dev BY <1>1
<1>3. Exempt(d) BY <1>2 DEF Singles, Single, Opened
<1> QED BY <1>2, <1>3

\* A destroyed monitor stays destroyed.
LEMMA DestroyedStays == [Next]_vars /\ destroyed => destroyed'
  BY DEF Next, AndroidStep, MainStep, CheckStep, MessageStep, Call, AppStep, BlockStep,
         MarkDestroyed, QuitLooper, vars, fieldVars

\* What the listener was told is not taken back.
LEMMA ToldGrows == [Next]_vars => told \subseteq told'
<1> SUFFICES ASSUME [Next]_vars PROVE told \subseteq told' OBVIOUS
<1>1. CASE UNCHANGED told BY <1>1
<1>2. CASE MainStep
  BY <1>2 DEF MainStep, ReceivePermission, ReceiveDetached, CloseDetached, ResetCount,
              PostDetach, Close, Forget
<1>3. CASE MessageStep
  BY <1>3 DEF MessageStep, RunMessage, ConnectStep, LookUp, PutBlock, HandBlock
<1>4. CASE AppStep
  BY <1>4 DEF AppStep, BlockStep, OpenDeviceStep, CloseStep, LookUp, PutBlock, HandBlock,
              Close, Forget, TakeForDestroy, ClearBlocks, MarkDestroyed, QuitLooper
<1> QED BY <1>1, <1>2, <1>3, <1>4 DEF Next, AndroidStep, CheckStep, Call, vars

\* A block in use stays what it is, and closed when it is closed.
LEMMA BlockStays ==
    ASSUME Typed, NEW t \in Threads, Effect(t), NEW x \in Blocks, block[x].conn # "unused"
    PROVE  /\ block'[x].dev = block[x].dev /\ (block'[x].clone <=> block[x].clone)
           /\ block[x].conn = "closed" => block'[x].conn = "closed"
<1>1. block \in [Blocks -> Block] BY TypedIs DEF TableTypes
<1>2. CASE UNCHANGED block BY <1>2
<1>3. ASSUME NEW b \in Blocks, Closes(t, b)
      PROVE  block'[x].dev = block[x].dev /\ (block'[x].clone <=> block[x].clone)
             /\ (block[x].conn = "closed" => block'[x].conn = "closed")
  <2>1. block' = [block EXCEPT ![b].conn = "closed"] BY <1>3 DEF Closes
  <2>2. block'[x].clone = block[x].clone BY <1>1, <2>1, Zenon DEF Block
  <2>3. block'[x].dev = block[x].dev /\ (block[x].conn = "closed" => block'[x].conn = "closed")
    BY <1>1, <2>1 DEF Block
  <2> QED BY <2>2, <2>3
<1>4. ASSUME NEW b \in Blocks, NEW d \in Devices, Puts(t, b, d)
      PROVE  block'[x].dev = block[x].dev /\ (block'[x].clone <=> block[x].clone)
             /\ (block[x].conn = "closed" => block'[x].conn = "closed")
  <2>1. block' = [block EXCEPT ![b].late = destroyed] BY <1>4 DEF Puts
  <2>2. block'[x].clone = block[x].clone BY <1>1, <2>1, Zenon DEF Block
  <2>3. block'[x].dev = block[x].dev /\ (block[x].conn = "closed" => block'[x].conn = "closed")
    BY <1>1, <2>1 DEF Block
  <2> QED BY <2>2, <2>3
<1>5. ASSUME NEW b \in Blocks, NEW d \in Devices, NEW clone \in BOOLEAN, NewBlock(b, d, clone)
      PROVE  block'[x] = block[x]
  <2>1. TableTypes BY TypedIs
  <2> QED BY <1>5, <2>1, NewBlockIs
<1> QED
  BY <1>2, <1>3, <1>4, <1>5 DEF Effect, Quiet, Learns, Forgets, Opens, ClonesOne

\* Once openDevice has found or opened a block, the application gets it.
LEMMA AppKeeps ==
    ASSUME Typed, [Next]_vars, at["app"] \in {"put", "call"}
    PROVE  \/ at'["app"] \in {"put", "call"} /\ dev'["app"] = dev["app"]
           \/ at["app"] = "call" /\ <<"openDevice", blk["app"]>> \in told'
<1>1. ThreadTypes BY TypedIs
<1>2. CASE at'["app"] = at["app"] /\ dev'["app"] = dev["app"] BY <1>2
<1>3. CASE AndroidStep \/ UNCHANGED vars BY <1>2, <1>3 DEF AndroidStep, vars, threadVars
<1>4. CASE MainStep \/ CheckStep \/ MessageStep
  BY <1>1, <1>2, <1>4, MainMoves, CheckMoves, MessageMoves DEF Others, Threads
<1>5. CASE Call
  BY <1>5 DEF Call, ShortCall, CallOpenDevice, CallClone, CallClose, CallDestroy, Carry, Go,
              threadVars
<1>6. CASE AppStep
  <2>1. OpenDeviceStep
    BY <1>6 DEF AppStep, BlockStep, CloseStep, Close, Forget, TakeForDestroy, ClearBlocks,
                MarkDestroyed, QuitLooper, Carry, Go
  <2>2. CASE LookUp("app", "connect", "put", "call") BY <2>2 DEF LookUp
  <2>3. CASE PutBlock("app", "put", "call")
    BY <1>1, <2>3, ThreadNames DEF PutBlock, Go, ThreadTypes
  <2>4. CASE HandBlock("app", "call", "openDevice") BY <2>4 DEF HandBlock, Carry, Go
  <2> QED BY <2>1, <2>2, <2>3, <2>4 DEF OpenDeviceStep
<1> QED BY <1>3, <1>4, <1>5, <1>6 DEF Next

\* A device that OneConnection excepts stays excepted.
LEMMA ExemptStays ==
    ASSUME Located, [Next]_vars, NEW d \in Devices, Exempt(d)
    PROVE  Exempt(d)'
<1>1. Typed /\ Placed BY DEF Located
<1>2. PICK t \in Threads : Effect(t) BY StepEffect
<1>3. UnusedNowhere /\ HandDev BY <1>1 DEF Placed
<1>4. CASE destroyed BY <1>4, DestroyedStays DEF Exempt
<1>5. CASE at["app"] \in {"put", "call"} /\ dev["app"] = d
  <2>1. CASE at'["app"] \in {"put", "call"} /\ dev'["app"] = dev["app"]
    BY <1>5, <2>1 DEF Exempt
  <2>2. CASE at["app"] = "call" /\ <<"openDevice", blk["app"]>> \in told'
    <3>1. PICK x \in Blocks : x = blk["app"] BY <1>1, <2>2, HandTypes, ThreadNames
    <3>2. block[x].dev = d BY <1>3, <1>5, <2>2, <3>1, ThreadNames DEF HandDev
    <3>3. block[x].conn # "unused" BY <1>3, <3>1, ThreadNames DEF UnusedNowhere, Nowhere
    <3>4. block'[x].dev = d BY <1>1, <1>2, <3>2, <3>3, BlockStays
    <3> QED BY <2>2, <3>1, <3>4 DEF Exempt
  <2> QED BY <1>1, <1>5, <2>1, <2>2, AppKeeps
<1>6. ASSUME NEW x \in Blocks, block[x].dev = d,
             <<"openDevice", x>> \in told \/ (block[x].clone /\ block[x].conn = "closed")
      PROVE  Exempt(d)'
  <2>1. block[x].conn # "unused"
    BY <1>3, <1>6 DEF UnusedNowhere, Nowhere, HandedOut
  <2>2. /\ block'[x].dev = d /\ (block'[x].clone <=> block[x].clone)
        /\ block[x].conn = "closed" => block'[x].conn = "closed"
    BY <1>1, <1>2, <1>6, <2>1, BlockStays
  <2>3. CASE <<"openDevice", x>> \in told BY <2>2, <2>3, ToldGrows DEF Exempt
  <2>4. CASE block[x].clone /\ block[x].conn = "closed" BY <2>2, <2>4 DEF Exempt
  <2> QED BY <1>6, <2>3, <2>4
<1> QED BY <1>4, <1>5, <1>6 DEF Exempt

\* A step that changes no block; the table loses only what destroy or the removal of the
\* device takes out.
LEMMA SingleSame ==
    ASSUME Typed, NEW d \in Devices, Single(d), UNCHANGED block,
           device[d] = "removed" => device'[d] = "removed",
           mCtrlBlocks'[d] = mCtrlBlocks[d] \/ (mCtrlBlocks'[d] = NULL /\ device[d] = "removed"),
           at'["handler"] = "put" <=> at["handler"] = "put",
           at["handler"] = "put" => /\ dev'["handler"] = dev["handler"]
                                    /\ blk'["handler"] = blk["handler"],
           \A u \in Threads : Closing(u)' => Closing(u) /\ blk'[u] = blk[u]
    PROVE  Single(d)'
<1>1. \A b \in Blocks : Opened(b, d)' <=> Opened(b, d) BY DEF Opened
<1>2. \A b \in Blocks : Kept(b, d) => Kept(b, d)' BY DEF Kept
<1>3. \A b, c \in Blocks : Opened(b, d)' /\ Opened(c, d)' => b = c BY <1>1 DEF Single
<1>4. \A b \in Blocks : Opened(b, d)' => Kept(b, d)' BY <1>1, <1>2 DEF Single
<1>5. at'["handler"] = "put" /\ dev'["handler"] = d => mCtrlBlocks'[d] = NULL BY DEF Single
<1>6. \A u \in Threads, b \in Blocks :
        Closing(u)' /\ blk'[u] = b /\ block'[b].dev = d /\ ~block'[b].clone =>
            device'[d] = "removed" \/ mCtrlBlocks'[d] = b
  <2> SUFFICES ASSUME NEW u \in Threads, NEW b \in Blocks,
                      Closing(u)', blk'[u] = b, block'[b].dev = d, ~block'[b].clone
               PROVE  device'[d] = "removed" \/ mCtrlBlocks'[d] = b
    OBVIOUS
  <2>1. Closing(u) /\ blk[u] = b /\ block[b].dev = d /\ ~block[b].clone OBVIOUS
  <2>2. device[d] = "removed" \/ mCtrlBlocks[d] = b BY <2>1 DEF Single
  <2> QED BY <2>2
<1> QED BY <1>3, <1>4, <1>5, <1>6 DEF Single

\* Single is kept by steps that change no block,
LEMMA SingleQuiet ==
    ASSUME Typed, NEW d \in Devices, Single(d), ~destroyed, NEW t \in Threads, Others(t),
           Quiet(t) \/ Learns(t),
           device[d] = "removed" => device'[d] = "removed"
    PROVE  Single(d)'
<1>1. \A u \in Threads : \/ at'[u] = at[u] /\ dev'[u] = dev[u] /\ blk'[u] = blk[u]
                         \/ /\ ~Closing(u) /\ at[u] # "put" /\ at'[u] # "put"
                            /\ at'[u] \notin {"forget", "forget_destroy"}
  BY DEF Others, Quiet, Learns, threadVars
<1>2. UNCHANGED block
      /\ (mCtrlBlocks'[d] = mCtrlBlocks[d] \/ (mCtrlBlocks'[d] = NULL /\ device[d] = "removed"))
  BY DEF Quiet, Learns
<1>3. /\ at'["handler"] = "put" <=> at["handler"] = "put"
      /\ at["handler"] = "put" => /\ dev'["handler"] = dev["handler"]
                                  /\ blk'["handler"] = blk["handler"]
  BY <1>1, ThreadNames
<1>4. \A u \in Threads : Closing(u)' => Closing(u) /\ blk'[u] = blk[u] BY <1>1 DEF Closing
<1> QED BY <1>2, <1>3, <1>4, SingleSame

\* by the first step of close,
LEMMA SingleCloses ==
    ASSUME Typed, Placed, NEW d \in Devices, Single(d), NEW t \in Threads, Others(t),
           NEW b \in Blocks, Closes(t, b),
           device[d] = "removed" => device'[d] = "removed"
    PROVE  Single(d)'
<1>1. block \in [Blocks -> Block] BY TypedIs DEF TableTypes
<1>2. /\ UNCHANGED mCtrlBlocks /\ at[t] # "put" /\ Closing(t)' /\ blk[t] = b /\ blk'[t] = b
      /\ block[b].conn = "open" /\ block' = [block EXCEPT ![b].conn = "closed"]
  BY DEF Closes
<1>3. \A u \in Threads \ {t} : at'[u] = at[u] /\ dev'[u] = dev[u] /\ blk'[u] = blk[u]
  BY DEF Others
<1>4. /\ block'[b].conn = "closed" /\ \A c \in Blocks : block'[c].dev = block[c].dev
      /\ \A c \in Blocks \ {b} : block'[c] = block[c]
  BY <1>1, <1>2 DEF Block
<1>5. \A c \in Blocks : block'[c].clone = block[c].clone
  <2>1. block'[b].clone = block[b].clone BY <1>1, <1>2, Zenon DEF Block
  <2> QED BY <1>4, <2>1, Zenon
<1>6. \A c \in Blocks : Opened(c, d)' => Opened(c, d) BY <1>4, <1>5 DEF Opened
<1>7. at'["handler"] = "put" <=> at["handler"] = "put" BY <1>2, <1>3, ThreadNames DEF Closing
<1>8. at["handler"] = "put" => /\ dev'["handler"] = dev["handler"]
                               /\ blk'["handler"] = blk["handler"]
  BY <1>2, <1>3, ThreadNames
<1>9. \A c \in Blocks : Kept(c, d) => Kept(c, d)' BY <1>2, <1>7, <1>8 DEF Kept
<1>10. \A c, e \in Blocks : Opened(c, d)' /\ Opened(e, d)' => c = e BY <1>6 DEF Single
<1>11. \A c \in Blocks : Opened(c, d)' => Kept(c, d)' BY <1>6, <1>9 DEF Single
<1>12. at'["handler"] = "put" /\ dev'["handler"] = d => mCtrlBlocks'[d] = NULL
  BY <1>2, <1>7, <1>8 DEF Single
<1>13. \A u \in Threads, c \in Blocks :
        Closing(u)' /\ blk'[u] = c /\ block'[c].dev = d /\ ~block'[c].clone =>
            device'[d] = "removed" \/ mCtrlBlocks'[d] = c
  <2> SUFFICES ASSUME NEW u \in Threads, NEW c \in Blocks,
                      Closing(u)', blk'[u] = c, block'[c].dev = d, ~block'[c].clone
               PROVE  device'[d] = "removed" \/ mCtrlBlocks'[d] = c
    OBVIOUS
  <2>1. block[c].dev = d /\ ~block[c].clone BY <1>4, <1>5
  <2>2. CASE u = t
    <3>1. c = b /\ Opened(b, d) BY <1>2, <2>1, <2>2 DEF Opened
    <3>2. Kept(b, d) BY <3>1 DEF Single
    <3>3. ~(at["handler"] = "put" /\ blk["handler"] = b)
      <4>1. at["handler"] = "put" /\ blk["handler"] = b => Nowhere(b, Threads \ {"handler"})
        BY ThreadNames DEF Placed, PutPrivate
      <4> QED BY <1>2, <4>1, ThreadNames DEF Nowhere
    <3> QED BY <1>2, <3>1, <3>2, <3>3 DEF Kept
  <2>3. CASE u # t
    <3>1. Closing(u) /\ blk[u] = c BY <1>3, <2>3 DEF Closing
    <3>2. device[d] = "removed" \/ mCtrlBlocks[d] = c BY <2>1, <3>1 DEF Single
    <3> QED BY <1>2, <3>2
  <2> QED BY <2>2, <2>3
<1> QED BY <1>10, <1>11, <1>12, <1>13 DEF Single

\* by the second, unless it was a clone's,
LEMMA SingleForgets ==
    ASSUME Typed, Placed, NEW d \in Devices, Single(d), ~Exempt(d),
           NEW t \in Threads, Others(t), Forgets(t),
           device[d] = "removed" => device'[d] = "removed"
    PROVE  Single(d)'
<1>1. /\ UNCHANGED block /\ Closing(t) /\ ~Closing(t)' /\ at'[t] # "put"
      /\ mCtrlBlocks' = [mCtrlBlocks EXCEPT ![block[blk[t]].dev] = NULL]
  BY DEF Forgets
<1>2. \A u \in Threads \ {t} : at'[u] = at[u] /\ dev'[u] = dev[u] /\ blk'[u] = blk[u]
  BY DEF Others
<1>3. /\ at'["handler"] = "put" <=> at["handler"] = "put"
      /\ at["handler"] = "put" => /\ dev'["handler"] = dev["handler"]
                                  /\ blk'["handler"] = blk["handler"]
  BY <1>1, <1>2, ThreadNames DEF Closing
<1>4. \A u \in Threads : Closing(u)' => u # t /\ Closing(u) /\ blk'[u] = blk[u]
  BY <1>1, <1>2 DEF Closing
<1>5. PICK x \in Blocks : x = blk[t] BY <1>1, HandTypes
<1>6. CASE block[x].dev # d
  <2>1. mCtrlBlocks'[d] = mCtrlBlocks[d] BY <1>1, <1>5, <1>6
  <2> QED BY <1>1, <1>3, <1>4, <2>1, SingleSame
<1>7. CASE block[x].dev = d
  <2>1. block[x].conn = "closed" BY <1>1, <1>5 DEF Placed, ClosersApart
  <2>2. ~block[x].clone BY <1>7, <2>1 DEF Exempt
  <2>3. device[d] = "removed" \/ mCtrlBlocks[d] = x BY <1>1, <1>5, <1>7, <2>2 DEF Single
  <2>4. mCtrlBlocks'[d] = NULL
    BY <1>1, <1>5, <1>7, TypedIs DEF TableTypes
  <2>5. CASE device[d] = "removed"
    BY <1>1, <1>3, <1>4, <2>4, <2>5, SingleSame
  <2>6. CASE mCtrlBlocks[d] = x
    <3>1. \A b \in Blocks : Opened(b, d)' <=> Opened(b, d) BY <1>1 DEF Opened
    <3>2. \A b \in Blocks : Opened(b, d) => b # x BY <2>1 DEF Opened
    <3>3. \A b \in Blocks : Opened(b, d) => Kept(b, d)'
      BY <1>3, <2>6, <3>2 DEF Single, Kept
    <3>4. \A b, c \in Blocks : Opened(b, d)' /\ Opened(c, d)' => b = c BY <3>1 DEF Single
    <3>5. \A u \in Threads, b \in Blocks :
            Closing(u)' /\ blk'[u] = b /\ block'[b].dev = d /\ ~block'[b].clone =>
                device'[d] = "removed" \/ mCtrlBlocks'[d] = b
      <4> SUFFICES ASSUME NEW u \in Threads, NEW b \in Blocks,
                          Closing(u)', blk'[u] = b, block'[b].dev = d, ~block'[b].clone
                   PROVE  device'[d] = "removed"
        OBVIOUS
      <4>1. u # t /\ Closing(u) /\ blk[u] = b /\ block[b].dev = d /\ ~block[b].clone
        BY <1>1, <1>4
      <4>2. device[d] = "removed" \/ mCtrlBlocks[d] = b BY <4>1 DEF Single
      <4>3. b # x BY <1>1, <1>5, <4>1 DEF Placed, ClosersApart
      <4> QED BY <2>6, <4>2, <4>3
    <3> QED BY <2>4, <3>1, <3>3, <3>4, <3>5 DEF Single
  <2> QED BY <2>3, <2>5, <2>6
<1> QED BY <1>6, <1>7

\* by clone,
LEMMA SingleClones ==
    ASSUME Typed, Placed, NEW d \in Devices, Single(d), NEW b \in Blocks, NEW e \in Devices,
           ClonesOne(b, e), device[d] = "removed" => device'[d] = "removed"
    PROVE  Single(d)'
<1>1. /\ block[b].conn = "unused" /\ block'[b].clone /\ block'[b].conn # "closed"
      /\ \A c \in Blocks \ {b} : block'[c] = block[c]
  BY TypedIs, NewBlockIs DEF ClonesOne
<1>2. UNCHANGED <<mCtrlBlocks, threadVars>> BY DEF ClonesOne
<1>3. \A c \in Blocks : Opened(c, d)' => Opened(c, d) BY <1>1 DEF Opened
<1>4. \A c \in Blocks : Kept(c, d) => Kept(c, d)' BY <1>2 DEF Kept, threadVars
<1>5. \A c, f \in Blocks : Opened(c, d)' /\ Opened(f, d)' => c = f BY <1>3 DEF Single
<1>6. \A c \in Blocks : Opened(c, d)' => Kept(c, d)' BY <1>3, <1>4 DEF Single
<1>7. at'["handler"] = "put" /\ dev'["handler"] = d => mCtrlBlocks'[d] = NULL
  BY <1>2 DEF Single, threadVars
<1>8. \A u \in Threads, c \in Blocks :
        Closing(u)' /\ blk'[u] = c /\ block'[c].dev = d /\ ~block'[c].clone =>
            device'[d] = "removed" \/ mCtrlBlocks'[d] = c
  <2> SUFFICES ASSUME NEW u \in Threads, NEW c \in Blocks,
                      Closing(u)', blk'[u] = c, block'[c].dev = d, ~block'[c].clone
               PROVE  device'[d] = "removed" \/ mCtrlBlocks'[d] = c
    OBVIOUS
  <2>1. Closing(u) /\ blk[u] = c BY <1>2 DEF Closing, threadVars
  <2>2. block'[c] = block[c] BY <1>1
  <2>3. device[d] = "removed" \/ mCtrlBlocks[d] = c BY <2>1, <2>2 DEF Single
  <2> QED BY <1>2, <2>3
<1> QED BY <1>5, <1>6, <1>7, <1>8 DEF Single

\* by opening a block, unless the device has one,
LEMMA SingleOpens ==
    ASSUME Typed, Placed, NEW d \in Devices, Single(d), ~Exempt(d)',
           NEW t \in Threads, t # "main", Others(t), NEW b \in Blocks, NEW e \in Devices,
           Opens(t, b, e), device[d] = "removed" => device'[d] = "removed"
    PROVE  Single(d)'
<1>1. /\ block[b].conn = "unused" /\ block'[b].conn \in {"open", "none"}
      /\ block'[b].conn = "open" => device[e] = "attached"
      /\ block'[b].dev = e /\ ~block'[b].clone
      /\ \A c \in Blocks \ {b} : block'[c] = block[c]
  <2>1. TableTypes /\ NewBlock(b, e, FALSE) BY TypedIs DEF Opens
  <2>2. \E clone \in BOOLEAN : ~clone /\ NewBlock(b, e, clone) BY <2>1, Zenon
  <2> QED BY <2>1, <2>2, NewBlockIs
<1>2. /\ UNCHANGED mCtrlBlocks /\ mCtrlBlocks[e] = NULL /\ ~Closing(t) /\ at[t] # "put"
      /\ at'[t] = "put" /\ dev'[t] = e /\ blk'[t] = b
  BY DEF Opens
<1>3. \A u \in Threads \ {t} : at'[u] = at[u] /\ dev'[u] = dev[u] /\ blk'[u] = blk[u]
  BY DEF Others
<1>4. Nowhere(b, Threads) BY <1>1 DEF Placed, UnusedNowhere
<1>5. \A u \in Threads : Closing(u)' => u # t /\ Closing(u) /\ blk'[u] = blk[u]
  BY <1>2, <1>3 DEF Closing
<1>6. \A u \in Threads, c \in Blocks :
        Closing(u)' /\ blk'[u] = c /\ block'[c].dev = d /\ ~block'[c].clone =>
            device'[d] = "removed" \/ mCtrlBlocks'[d] = c
  <2> SUFFICES ASSUME NEW u \in Threads, NEW c \in Blocks,
                      Closing(u)', blk'[u] = c, block'[c].dev = d, ~block'[c].clone
               PROVE  device'[d] = "removed" \/ mCtrlBlocks'[d] = c
    OBVIOUS
  <2>1. Closing(u) /\ blk[u] = c BY <1>5
  <2>2. c # b BY <1>4, <2>1 DEF Nowhere
  <2>3. block'[c] = block[c] BY <1>1, <2>2
  <2>4. device[d] = "removed" \/ mCtrlBlocks[d] = c BY <2>1, <2>3 DEF Single
  <2> QED BY <1>2, <2>4
<1>7. \A c \in Blocks : Opened(c, d)' => c = b \/ Opened(c, d) BY <1>1 DEF Opened
<1>8. CASE t = "handler" /\ e = d
  <2>1. \A c \in Blocks : Opened(c, d) => device[d] = "removed"
    <3> SUFFICES ASSUME NEW c \in Blocks, Opened(c, d) PROVE device[d] = "removed"
      OBVIOUS
    <3>1. Kept(c, d) BY DEF Single
    <3> QED BY <1>2, <1>8, <3>1, NullIsNone DEF Kept
  <2>2. Opened(b, d)' => device[d] = "attached" BY <1>1, <1>8 DEF Opened
  <2>3. \A c, f \in Blocks : Opened(c, d)' /\ Opened(f, d)' => c = f
    <3> SUFFICES ASSUME NEW c \in Blocks, NEW f \in Blocks, Opened(c, d)', Opened(f, d)'
                 PROVE  c = f
      OBVIOUS
    <3>1. CASE Opened(b, d)' BY <1>7, <2>1, <2>2, <3>1
    <3>2. CASE ~Opened(b, d)'
      <4>1. Opened(c, d) /\ Opened(f, d) BY <1>7, <3>2
      <4> QED BY <4>1 DEF Single
    <3> QED BY <3>1, <3>2
  <2>4. \A c \in Blocks : Opened(c, d)' => Kept(c, d)'
    <3> SUFFICES ASSUME NEW c \in Blocks, Opened(c, d)' PROVE Kept(c, d)' OBVIOUS
    <3>1. CASE c = b BY <1>2, <1>8, <3>1 DEF Kept
    <3>2. CASE c # b BY <1>7, <2>1, <3>2 DEF Kept
    <3> QED BY <3>1, <3>2
  <2>5. mCtrlBlocks'[d] = NULL BY <1>2, <1>8
  <2> QED BY <1>6, <2>3, <2>4, <2>5 DEF Single
<1>9. CASE t = "handler" /\ e # d
  <2>1. \A c \in Blocks : Opened(c, d)' => Opened(c, d) BY <1>1, <1>9 DEF Opened
  <2>2. \A c \in Blocks : Kept(c, d) => Kept(c, d)' BY <1>2, <1>9 DEF Kept
  <2>3. \A c, f \in Blocks : Opened(c, d)' /\ Opened(f, d)' => c = f BY <2>1 DEF Single
  <2>4. \A c \in Blocks : Opened(c, d)' => Kept(c, d)' BY <2>1, <2>2 DEF Single
  <2>5. dev'["handler"] # d BY <1>2, <1>9
  <2> QED BY <1>6, <2>3, <2>4, <2>5 DEF Single
<1>10. CASE t = "app"
  <2>1. e # d BY <1>2, <1>10 DEF Exempt
  <2>2. \A c \in Blocks : Opened(c, d)' => Opened(c, d) BY <1>1, <2>1 DEF Opened
  <2>3. at'["handler"] = at["handler"] /\ dev'["handler"] = dev["handler"]
        /\ blk'["handler"] = blk["handler"]
    BY <1>3, <1>10, ThreadNames
  <2>4. \A c \in Blocks : Kept(c, d) => Kept(c, d)' BY <1>2, <2>3 DEF Kept
  <2>5. \A c, f \in Blocks : Opened(c, d)' /\ Opened(f, d)' => c = f BY <2>2 DEF Single
  <2>6. \A c \in Blocks : Opened(c, d)' => Kept(c, d)' BY <2>2, <2>4 DEF Single
  <2>7. at'["handler"] = "put" /\ dev'["handler"] = d => mCtrlBlocks'[d] = NULL
    BY <1>2, <2>3 DEF Single
  <2> QED BY <1>6, <2>5, <2>6, <2>7 DEF Single
<1> QED BY <1>8, <1>9, <1>10 DEF Threads

\* and by putting it into mCtrlBlocks.
LEMMA SinglePuts ==
    ASSUME Typed, Placed, NEW d \in Devices, Single(d), ~Exempt(d)',
           NEW t \in Threads, t # "main", Others(t), NEW b \in Blocks, NEW e \in Devices,
           Puts(t, b, e), device[d] = "removed" => device'[d] = "removed"
    PROVE  Single(d)'
<1>1. block \in [Blocks -> Block] BY TypedIs DEF TableTypes
<1>2. /\ at[t] = "put" /\ at'[t] = "call" /\ blk[t] = b /\ blk'[t] = b
      /\ dev[t] = e /\ dev'[t] = e
      /\ mCtrlBlocks' = [mCtrlBlocks EXCEPT ![e] = b]
      /\ block' = [block EXCEPT ![b].late = destroyed]
  BY DEF Puts
<1>3. \A u \in Threads \ {t} : at'[u] = at[u] /\ dev'[u] = dev[u] /\ blk'[u] = blk[u]
  BY DEF Others
<1>4. \A c \in Blocks : block'[c].conn = block[c].conn /\ block'[c].dev = block[c].dev
  BY <1>1, <1>2 DEF Block
<1>5. \A c \in Blocks : block'[c].clone = block[c].clone
  <2>1. block'[b].clone = block[b].clone BY <1>1, <1>2, Zenon DEF Block
  <2>2. \A c \in Blocks \ {b} : block'[c] = block[c] BY <1>1, <1>2
  <2> QED BY <2>1, <2>2, Zenon
<1>6. \A c \in Blocks : Opened(c, d)' <=> Opened(c, d) BY <1>4, <1>5 DEF Opened
<1>7. \A c, f \in Blocks : Opened(c, d)' /\ Opened(f, d)' => c = f BY <1>6 DEF Single
<1>8. \A u \in Threads : Closing(u)' => Closing(u) /\ blk'[u] = blk[u]
  BY <1>2, <1>3 DEF Closing
<1>9. mCtrlBlocks'[e] = b /\ (e # d => mCtrlBlocks'[d] = mCtrlBlocks[d])
  BY <1>2, TypedIs DEF TableTypes
<1>10. block[b].dev = e BY <1>2 DEF Placed, HandDev
<1>11. e = d => t = "handler" /\ mCtrlBlocks[d] = NULL
  <2>1. e = d => t # "app" BY <1>2 DEF Exempt
  <2> QED BY <1>2, <2>1 DEF Single, Threads
<1>12. \A u \in Threads, c \in Blocks :
        Closing(u)' /\ blk'[u] = c /\ block'[c].dev = d /\ ~block'[c].clone =>
            device'[d] = "removed" \/ mCtrlBlocks'[d] = c
  <2> SUFFICES ASSUME NEW u \in Threads, NEW c \in Blocks,
                      Closing(u)', blk'[u] = c, block'[c].dev = d, ~block'[c].clone
               PROVE  device'[d] = "removed" \/ mCtrlBlocks'[d] = c
    OBVIOUS
  <2>1. Closing(u) /\ blk[u] = c /\ block[c].dev = d /\ ~block[c].clone BY <1>4, <1>5, <1>8
  <2>2. device[d] = "removed" \/ mCtrlBlocks[d] = c BY <2>1 DEF Single
  <2> QED BY <1>9, <1>11, <2>2, NullIsNone
<1>13. \A c \in Blocks : Opened(c, d)' => Kept(c, d)'
  <2> SUFFICES ASSUME NEW c \in Blocks, Opened(c, d)' PROVE Kept(c, d)' OBVIOUS
  <2>1. Opened(c, d) /\ Kept(c, d) BY <1>6 DEF Single
  <2>2. CASE e = d
    BY <1>2, <1>9, <1>11, <2>1, <2>2, NullIsNone DEF Kept
  <2>3. CASE e # d
    <3>1. c # b BY <1>10, <2>1, <2>3 DEF Opened
    <3>2. at["handler"] = "put" /\ blk["handler"] = c =>
            at'["handler"] = "put" /\ blk'["handler"] = c
      BY <1>2, <1>3, <3>1, ThreadNames
    <3> QED BY <1>9, <2>1, <2>3, <3>2 DEF Kept
  <2> QED BY <2>2, <2>3
<1>14. at'["handler"] = "put" /\ dev'["handler"] = d => mCtrlBlocks'[d] = NULL
  <2> SUFFICES ASSUME at'["handler"] = "put", dev'["handler"] = d
               PROVE  mCtrlBlocks'[d] = NULL
    OBVIOUS
  <2>1. t # "handler" BY <1>2
  <2>2. at["handler"] = "put" /\ dev["handler"] = d BY <1>3, <2>1, ThreadNames
  <2>3. e # d BY <1>11, <2>1
  <2> QED BY <1>9, <2>2, <2>3 DEF Single
<1> QED BY <1>7, <1>12, <1>13, <1>14 DEF Single

\* So every step keeps it for each device that is not excepted.
LEMMA SinglesStep == Located /\ Singles /\ [Next]_vars => Singles'
<1> SUFFICES ASSUME Located, Singles, [Next]_vars, NEW d \in Devices
             PROVE  (Exempt(d) \/ Single(d))'
  BY DEF Singles
<1>1. Typed /\ Placed BY DEF Located
<1>2. PICK t \in Threads : Effect(t) BY StepEffect
<1>3. device[d] = "removed" => device'[d] = "removed" BY <1>1, RemovedStays
<1>4. CASE Exempt(d) BY <1>4, ExemptStays
<1>5. CASE Exempt(d)' BY <1>5
<1>6. CASE ~Exempt(d) /\ ~Exempt(d)'
  <2>1. Single(d) /\ Others(t) /\ ~destroyed BY <1>2, <1>6 DEF Singles, Effect, Exempt
  <2>2. CASE Quiet(t) \/ Learns(t) BY <1>1, <1>3, <2>1, <2>2, SingleQuiet
  <2>3. CASE Forgets(t) BY <1>1, <1>3, <1>6, <2>1, <2>3, SingleForgets
  <2>4. ASSUME NEW b \in Blocks, Closes(t, b) PROVE Single(d)'
    BY <1>1, <1>3, <2>1, <2>4, SingleCloses
  <2>5. ASSUME NEW b \in Blocks, NEW e \in Devices, t # "main", Opens(t, b, e)
        PROVE  Single(d)'
    BY <1>1, <1>3, <1>6, <2>1, <2>5, SingleOpens
  <2>6. ASSUME NEW b \in Blocks, NEW e \in Devices, t # "main", Puts(t, b, e)
        PROVE  Single(d)'
    BY <1>1, <1>3, <1>6, <2>1, <2>6, SinglePuts
  <2>7. ASSUME NEW b \in Blocks, NEW e \in Devices, ClonesOne(b, e) PROVE Single(d)'
    BY <1>1, <1>3, <2>1, <2>7, SingleClones
  <2> QED BY <1>2, <2>2, <2>3, <2>4, <2>5, <2>6, <2>7 DEF Effect
<1> QED BY <1>4, <1>5, <1>6

\* Of requests, permissions, removals and closes alone no order opens a second
\* connection to a device: it takes openDevice beside processConnect, a clone closed, or
\* destroy.
THEOREM OneConnectionHolds == Spec => []OneConnection
<1>1. Init => Located /\ Singles BY LocatedInit, SinglesInit
<1>2. Located /\ Singles /\ [Next]_vars => (Located /\ Singles)'
  BY LocatedStep, SinglesStep
<1>3. Located /\ Singles => OneConnection BY SinglesSuffice
<1> QED BY <1>1, <1>2, <1>3, PTL DEF Spec
=============================================================================
