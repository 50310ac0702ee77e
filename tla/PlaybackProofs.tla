--------------------------- MODULE PlaybackProofs ---------------------------
(***************************************************************************)
(* Proofs about Playback for recordings, cursors, connections and channels *)
(* of any size and any number of generations: no request is sent with a    *)
(* cursor of another, the process does not die in a single playback, and   *)
(* Play returns last.  A single playback does not forget a cursor that an  *)
(* op still has to look up: that is proved by counting the places of the   *)
(* recording where the cursor stands and that are not looked up yet.       *)
(***************************************************************************)
EXTENDS Playback, FiniteSetTheorems, TLAPS

-----------------------------------------------------------------------------
(* The inductive invariant.                                                *)

Seens == [origin : 0..MaxOps, replyConn : Conns \cup {NoConn}, replySeen : BOOLEAN, uses : Nat]
Infos == [mapped : BOOLEAN, success : BOOLEAN, fail : BOOLEAN, live : Lives, uses : Int,
          replyConn : Conns \cup {NoConn}, origin : 0..MaxOps]
Pcs == {"none", "idle", "lookup", "await", "execute", "handle", "done"}

TypeInv ==
    /\ case \in Cases
    /\ recording \in Seq(Ops) /\ Len(recording) <= MaxOps
    /\ phase \in {"preprocess", "dispatch", "wait", "done"}
    /\ cursorsSeen \in [Cursors -> Seens]
    /\ info \in [Cursors -> Infos]
    /\ filePos \in 1..(Len(recording) + 1)
    /\ generation \in Generations
    /\ chan \in [Conns -> Seq(Items)]
    /\ \A c \in Conns : Len(chan[c]) <= QueueCap
    /\ chanState \in [Conns -> {"none", "open", "closed"}]
    /\ pc \in [Conns -> Pcs]
    /\ current \in [Conns -> Items \cup {NoItem}]
    /\ todo \in [Conns -> Seq(Cursors)]
    /\ got \in [Conns -> Seq(Lives)]
    /\ connected \in [Conns -> BOOLEAN]
    /\ incomplete \subseteq Halves
    /\ complete \subseteq Pairs
    /\ crashed \in BOOLEAN

(* What a recording looks like: uses have cursors, replies answer requests *)
(* and carry the one cursor they create or that was asked for.             *)
RecordingInv ==
    \A i \in DOMAIN recording :
      LET op == recording[i] IN
        /\ op.kind = "use" => op.curs \in UseLists
        /\ op.kind = "reply" =>
             /\ op.to \in DOMAIN recording
             /\ recording[op.to].kind \in {"query", "use"}
             /\ op.curs # <<>> =>
                  \E k \in Cursors :
                    /\ op.curs = <<k>>
                    /\ recording[op.to].kind = "query" \/ recording[op.to].curs = <<k>>

(* Nothing has happened before the file was read.                          *)
QuietInv ==
    phase = "preprocess" =>
      /\ \A c \in Conns : pc[c] = "none" /\ chan[c] = <<>> /\ chanState[c] = "none"
      /\ ~crashed
      /\ \A k \in Cursors : info[k] = NoInfo
      /\ incomplete = {} /\ complete = {} /\ sent = {} /\ skips = {}
      /\ filePos = 1 /\ generation = 0

(* The goroutine of a connection gets the ops of its connection.           *)
Busy(c) == pc[c] \in {"lookup", "await", "execute"}
ConnInv ==
    \A c \in Conns :
      /\ chanState[c] = "open" => pc[c] # "none"
      /\ pc[c] \in {"none", "done"} => chan[c] = <<>>
      /\ pc[c] = "done" => chanState[c] = "closed"
      /\ phase = "done" => pc[c] \in {"none", "done"}
      /\ \A i \in DOMAIN chan[c] :
           chan[c][i].pos \in DOMAIN recording /\ recording[chan[c][i].pos].conn = c
      /\ Busy(c) =>
           LET op == recording[current[c].pos] IN
             /\ current[c].pos \in DOMAIN recording /\ op.conn = c
             /\ pc[c] # "execute" => op.kind = "use"
             /\ op.kind \in {"query", "use"}
      /\ pc[c] = "await" => todo[c] # <<>>
      /\ pc[c] = "execute" /\ recording[current[c].pos].kind = "use" => got[c] # <<>>

(* In a single playback an op is executed once, in the order of the file;  *)
(* a failed cursor is one of an op that was executed.                      *)
Gone(p) ==
    /\ p < filePos
    /\ \A c \in Conns :
         /\ \A i \in DOMAIN chan[c] : chan[c][i].pos # p
         /\ Busy(c) => current[c].pos # p
OnceInv ==
    Repeat = 1 =>
      /\ ~crashed
      /\ \A c \in Conns :
           /\ \A i \in DOMAIN chan[c] : chan[c][i].pos < filePos
           /\ \A i, j \in DOMAIN chan[c] : i < j => chan[c][i].pos < chan[c][j].pos
           /\ Busy(c) => /\ current[c].pos < filePos
                         /\ \A i \in DOMAIN chan[c] : current[c].pos < chan[c][i].pos
      /\ \A k \in Cursors : info[k].fail => Gone(info[k].origin)

(* The live cursor of request p may stand for one of the cursors of op o.  *)
StandsFor(p, o) == \E j \in DOMAIN recording[o].curs : p \in OriginOf(recording[o].curs[j])

(* Whatever was learnt of live cursors is of the request that created the  *)
(* recorded one.                                                           *)
HalfIsRight(h) ==
    /\ h.key.pos \in DOMAIN recording
    /\ h.from = "file" =>
         \E r \in DOMAIN recording : /\ recording[r].kind = "reply" /\ recording[r].to = h.key.pos
                                     /\ recording[r].curs = <<h.file>>
    /\ h.from = "wire" =>
         IF recording[h.key.pos].kind = "query" THEN h.live[1] = h.key.pos
         ELSE StandsFor(h.live[1], h.key.pos)
RightInv ==
    /\ \A h \in incomplete : HalfIsRight(h)
    /\ \A p \in complete : p.live[1] \in OriginOf(p.file)
    /\ \A k \in Cursors :
         info[k].success \/ (~preprocess /\ info[k].mapped) => info[k].live[1] \in OriginOf(k)
    /\ \A c \in Conns :
         Busy(c) /\ recording[current[c].pos].kind = "use" =>
           /\ \A i \in DOMAIN got[c] : StandsFor(got[c][i][1], current[c].pos)
           /\ \A i \in DOMAIN todo[c] :
                \E j \in DOMAIN recording[current[c].pos].curs : todo[c][i] = recording[current[c].pos].curs[j]
    /\ SentCursorsAreRight

IInv == TypeInv /\ RecordingInv /\ QuietInv /\ ConnInv /\ OnceInv /\ RightInv

-----------------------------------------------------------------------------
(* Facts about the data.                                                   *)

(* The first element of a sequence and the rest.                           *)
LEMMA HeadAndTail ==
    ASSUME NEW S, NEW s \in Seq(S), s # <<>>
    PROVE  /\ Len(s) \in Nat \ {0} /\ Head(s) = s[1] /\ Head(s) \in S
           /\ Tail(s) \in Seq(S) /\ Len(Tail(s)) = Len(s) - 1
           /\ \A i \in DOMAIN Tail(s) : i + 1 \in DOMAIN s /\ Tail(s)[i] = s[i + 1]
OBVIOUS

(* A sequence with an element at its end.                                  *)
LEMMA Appended ==
    ASSUME NEW S, NEW s \in Seq(S), NEW e \in S
    PROVE  /\ Append(s, e) \in Seq(S) /\ Len(Append(s, e)) = Len(s) + 1
           /\ DOMAIN Append(s, e) = DOMAIN s \cup {Len(s) + 1}
           /\ \A i \in DOMAIN s : Append(s, e)[i] = s[i]
           /\ Append(s, e)[Len(s) + 1] = e
           /\ \A i \in DOMAIN s : i \in 1..Len(s)
OBVIOUS

(* What the assumptions say of the invocation.                             *)
LEMMA CaseFacts ==
    ASSUME case \in Cases
    PROVE  /\ case.cursors \subseteq Cursors
           /\ UseLists \subseteq Seq(Cursors) /\ <<>> \notin UseLists
           /\ MaxOps \in Nat /\ Repeat \in Nat \ {0} /\ preprocess \in BOOLEAN
<1>1. UseLists \subseteq Seq(case.cursors) \ {<<>>} /\ case.cursors \subseteq Cursors
  BY CasesAssumption DEF UseLists
<1>2. Seq(case.cursors) \subseteq Seq(Cursors)
  BY <1>1
<1> QED BY <1>1, <1>2, CasesAssumption DEF MaxOps, Repeat, preprocess

(* What depends on the invocation alone stays what it is.                  *)
LEMMA SameCase ==
    ASSUME case' = case
    PROVE  /\ UseLists' = UseLists /\ MaxOps' = MaxOps /\ Repeat' = Repeat
           /\ preprocess' = preprocess /\ Positions' = Positions /\ Generations' = Generations
           /\ Lives' = Lives /\ Ops' = Ops /\ Items' = Items /\ Halves' = Halves /\ Pairs' = Pairs
           /\ Seens' = Seens /\ Infos' = Infos
BY DEF UseLists, MaxOps, Repeat, preprocess, Positions, Generations, Lives, Ops, Items, Halves,
       Pairs, Seens, Infos

(* And what depends on the recording, when it is complete.                 *)
LEMMA SameRecording ==
    ASSUME recording' = recording
    PROVE  /\ \A k : OriginOf(k)' = OriginOf(k)
           /\ \A p, o : StandsFor(p, o)' <=> StandsFor(p, o)
           /\ \A h : HalfIsRight(h)' <=> HalfIsRight(h)
           /\ SentCursorsAreRight /\ sent' = sent => SentCursorsAreRight'
<1>1. \A k : OriginOf(k)' = OriginOf(k)
  BY DEF OriginOf, Creates
<1>2. \A p, o : StandsFor(p, o)' <=> StandsFor(p, o)
  BY <1>1 DEF StandsFor
<1>3. \A h : HalfIsRight(h)' <=> HalfIsRight(h)
  BY <1>2 DEF HalfIsRight
<1> QED BY <1>1, <1>2, <1>3 DEF SentCursorsAreRight

(* The values that stand for nothing are well typed.                       *)
LEMMA DefaultsAreTyped ==
    ASSUME case \in Cases
    PROVE  /\ NoInfo \in Infos /\ NotSeen \in Seens /\ NoLive \in Lives /\ 0 \in Generations
           /\ NoInfo.fail = FALSE /\ NoInfo.success = FALSE /\ NoInfo.mapped = FALSE
           /\ NotSeen.uses = 0
BY CaseFacts DEF NoInfo, NotSeen, NoLive, Infos, Seens, Lives, Generations

-----------------------------------------------------------------------------
(* The beginning and the preprocessing pass.                               *)

(* Before the file was read there is nothing the parts about connections,  *)
(* executions and cursors could say.                                       *)
LEMMA QuietFacts ==
    QuietInv /\ phase = "preprocess" => ConnInv /\ OnceInv /\ RightInv
<1> SUFFICES ASSUME QuietInv, phase = "preprocess" PROVE ConnInv /\ OnceInv /\ RightInv
  OBVIOUS
<1>1. /\ \A c \in Conns : pc[c] = "none" /\ DOMAIN chan[c] = {} /\ chan[c] = <<>> /\ chanState[c] = "none"
      /\ \A k \in Cursors : ~info[k].fail /\ ~info[k].success /\ ~info[k].mapped
      /\ incomplete = {} /\ complete = {} /\ sent = {} /\ ~crashed
  BY DEF QuietInv, NoInfo
<1>2. \A c \in Conns : ~Busy(c)
  BY <1>1 DEF Busy
<1>c. ConnInv
  BY <1>1, <1>2 DEF ConnInv
<1>o. OnceInv
  BY <1>1, <1>2 DEF OnceInv
<1>i. RightInv
  BY <1>1, <1>2 DEF RightInv, SentCursorsAreRight
<1> QED BY <1>c, <1>o, <1>i

(* The state the model starts in satisfies the invariant.                   *)
LEMMA InitEstablishes == Init => IInv
<1> SUFFICES ASSUME Init PROVE IInv
  OBVIOUS
<1>0. case \in Cases /\ recording = <<>>
  BY DEF Init
<1>t. TypeInv
  <2>1. cursorsSeen \in [Cursors -> Seens] /\ info \in [Cursors -> Infos] /\ generation \in Generations
    BY <1>0, DefaultsAreTyped DEF Init
  <2>2. recording \in Seq(Ops) /\ Len(recording) <= MaxOps /\ filePos \in 1..(Len(recording) + 1)
    BY <1>0, CaseFacts DEF Init
  <2>3. chan \in [Conns -> Seq(Items)] /\ \A c \in Conns : Len(chan[c]) <= QueueCap
    BY QueueCapAssumption DEF Init
  <2>4. todo \in [Conns -> Seq(Cursors)] /\ got \in [Conns -> Seq(Lives)]
    BY DEF Init
  <2> QED BY <2>1, <2>2, <2>3, <2>4 DEF Init, TypeInv, Pcs
<1>r. RecordingInv
  BY <1>0 DEF RecordingInv
<1>q. QuietInv
  BY DEF Init, QuietInv
<1>c. ConnInv /\ OnceInv /\ RightInv
  BY <1>t, <1>q, QuietFacts DEF Init
<1> QED BY <1>t, <1>r, <1>q, <1>c DEF IInv

(* The number of occurrences in a list is one.                             *)
LEMMA OccurrencesType ==
    ASSUME NEW S, NEW l \in Seq(S), NEW k
    PROVE  /\ IsFiniteSet({i \in DOMAIN l : l[i] = k})
           /\ Occurrences(l, k) \in Nat
<1>1. IsFiniteSet(DOMAIN l)
  BY FS_Interval
<1>2. IsFiniteSet({i \in DOMAIN l : l[i] = k})
  BY <1>1, FS_Subset
<1> QED BY <1>2, FS_CardinalityType DEF Occurrences

(* What an op that comes next in the recording looks like.                 *)
LEMMA NextOpFacts ==
    ASSUME TypeInv, NEW op \in NextOps
    PROVE  /\ op \in Ops
           /\ op.curs \in Seq(Cursors)
           /\ op.kind = "use" => op.curs \in UseLists
           /\ op.kind = "reply" =>
                /\ op.to \in DOMAIN recording
                /\ recording[op.to].kind \in {"query", "use"}
                /\ op.curs # <<>> =>
                     \E k \in Cursors :
                       /\ op.curs = <<k>>
                       /\ recording[op.to].kind = "query" \/ recording[op.to].curs = <<k>>
<1>0. case \in Cases /\ recording \in Seq(Ops) /\ Len(recording) <= MaxOps
  BY DEF TypeInv
<1>1. PICK c \in Conns : op \in QueryOps(c) \cup UseOps(c) \cup ReplyOps(c) \cup EndOps(c)
  BY DEF NextOps
<1>2. CanFollow(op)
  BY DEF NextOps
<1>3. /\ case.cursors \subseteq Cursors /\ UseLists \subseteq Seq(Cursors) /\ MaxOps \in Nat
  BY <1>0, CaseFacts
<1>4. CASE op \in QueryOps(c)
  <2>1. op = [kind |-> "query", conn |-> c, to |-> 0, curs |-> <<>>]
    BY <1>4 DEF QueryOps
  <2> QED BY <1>3, <2>1 DEF Ops
<1>5. CASE op \in UseOps(c)
  BY <1>3, <1>5 DEF UseOps, Ops
<1>6. CASE op \in EndOps(c)
  <2>1. op = [kind |-> "eof", conn |-> c, to |-> 0, curs |-> <<>>]
    BY <1>6 DEF EndOps
  <2> QED BY <1>3, <2>1 DEF Ops
<1>7. CASE op \in ReplyOps(c)
  <2>1. PICK i \in Recorded("query", c) \cup Recorded("use", c), ks \in {<<k>> : k \in case.cursors} \cup {<<>>} :
          op = [kind |-> "reply", conn |-> c, to |-> i, curs |-> ks]
    BY <1>7 DEF ReplyOps
  <2>2. i \in DOMAIN recording /\ recording[i].kind \in {"query", "use"} /\ i \in 0..MaxOps
    BY <1>0, <1>3 DEF Recorded
  <2>3. CASE ks = <<>>
    BY <1>3, <2>1, <2>2, <2>3 DEF Ops
  <2>4. CASE ks # <<>>
    <3>1. PICK k \in Cursors : ks = <<k>>
      BY <1>3, <2>1, <2>4
    <3>2. recording[i].kind = "query" \/ recording[i].curs = <<k>>
      BY <1>2, <2>1, <3>1 DEF CanFollow
    <3> QED BY <1>3, <2>1, <2>2, <3>1, <3>2 DEF Ops
  <2> QED BY <2>3, <2>4
<1> QED BY <1>1, <1>4, <1>5, <1>6, <1>7

(* The pass over the file reads one more op.                               *)
LEMMA PreprocessOpKeeps == ASSUME IInv, PreprocessOp PROVE IInv'
<1>0. /\ phase = "preprocess" /\ phase' = "preprocess" /\ Len(recording) < MaxOps
      /\ UNCHANGED <<case, playVars, info, connVars, replyVars, crashed, history>>
  BY DEF PreprocessOp, playVars
<1>1. PICK op \in NextOps :
        /\ recording' = Append(recording, op)
        /\ cursorsSeen' =
              [k \in Cursors |->
                 IF op.kind = "use" THEN trackSeen(cursorsSeen[k], k, op)
                 ELSE IF op.kind = "reply" /\ op.curs = <<k>>
                   THEN trackReplied(cursorsSeen[k], op)
                   ELSE cursorsSeen[k]]
  BY DEF PreprocessOp
<1>2. /\ op \in Ops /\ op.curs \in Seq(Cursors)
      /\ op.kind = "use" => op.curs \in UseLists
      /\ op.kind = "reply" =>
           /\ op.to \in DOMAIN recording
           /\ recording[op.to].kind \in {"query", "use"}
           /\ op.curs # <<>> =>
                \E k \in Cursors :
                  /\ op.curs = <<k>>
                  /\ recording[op.to].kind = "query" \/ recording[op.to].curs = <<k>>
  BY NextOpFacts DEF IInv
<1>3. /\ recording' \in Seq(Ops) /\ Len(recording') = Len(recording) + 1
      /\ DOMAIN recording' = DOMAIN recording \cup {Len(recording) + 1}
      /\ \A i \in DOMAIN recording : recording'[i] = recording[i]
      /\ recording'[Len(recording) + 1] = op
  BY <1>1, <1>2, Appended DEF IInv, TypeInv
<1>4. case \in Cases /\ MaxOps \in Nat /\ case' = case
  BY <1>0, CaseFacts DEF IInv, TypeInv
<1>5. cursorsSeen' \in [Cursors -> Seens]
  <2>1. ASSUME NEW k \in Cursors PROVE cursorsSeen'[k] \in Seens
    <3>1. cursorsSeen[k] \in Seens
      BY DEF IInv, TypeInv
    <3>2. Occurrences(op.curs, k) \in Nat
      BY <1>2, OccurrencesType
    <3>3. trackSeen(cursorsSeen[k], k, op) \in Seens
      BY <3>1, <3>2 DEF trackSeen, Seens
    <3>4. trackReplied(cursorsSeen[k], op) \in Seens
      BY <1>2, <3>1 DEF trackReplied, Seens, Ops
    <3> QED BY <1>1, <3>1, <3>3, <3>4
  <2> QED BY <1>1, <2>1
<1>t. TypeInv'
  <2>1. Len(recording') <= MaxOps /\ filePos' \in 1..(Len(recording') + 1)
    BY <1>0, <1>3, <1>4 DEF IInv, TypeInv, playVars
  <2>2. /\ info' = info /\ chan' = chan /\ chanState' = chanState /\ pc' = pc /\ current' = current
        /\ todo' = todo /\ got' = got /\ connected' = connected /\ incomplete' = incomplete
        /\ complete' = complete /\ crashed' = crashed /\ generation' = generation
    BY <1>0 DEF playVars, connVars, replyVars
  <2> QED BY <1>0, <1>3, <1>4, <1>5, <2>1, <2>2, SameCase DEF IInv, TypeInv
<1>r. RecordingInv'
  <2>1. UseLists' = UseLists
    BY <1>4, SameCase
  <2> QED BY <1>2, <1>3, <2>1 DEF IInv, RecordingInv
<1>q. QuietInv'
  BY <1>0 DEF IInv, QuietInv, playVars, connVars, replyVars, history
<1>c. ConnInv' /\ OnceInv' /\ RightInv'
  <2>1. (phase = "preprocess")'
    BY <1>0
  <2> QED BY <1>q, <2>1, QuietFacts, PTL
<1> QED BY <1>t, <1>r, <1>q, <1>c DEF IInv

-----------------------------------------------------------------------------
(* Play.                                                                   *)

(* When the file was read, what is said of the recording stays true.       *)
LEMMA LateFrame ==
    ASSUME IInv, UNCHANGED <<case, recording>>, phase' # "preprocess"
    PROVE  RecordingInv' /\ QuietInv'
<1>1. UseLists' = UseLists
  BY SameCase
<1> QED BY <1>1 DEF IInv, RecordingInv, QuietInv

(* What was learnt stays right while nobody learns anything.               *)
LEMMA RightFrame ==
    ASSUME IInv, UNCHANGED <<case, recording, info, pc, current, todo, got, incomplete, complete, sent>>
    PROVE  RightInv'
BY SameCase, SameRecording DEF IInv, RightInv, Busy

(* Play moves on in the file; the goroutines stay where they are.          *)
LEMMA OnceFrame ==
    ASSUME IInv, UNCHANGED <<case, chan, pc, current, info, crashed>>, filePos' >= filePos, filePos' \in Int
    PROVE  OnceInv'
<1>1. Repeat' = Repeat
  BY SameCase
<1>2. filePos \in Int /\ (\A k \in Cursors : info[k].origin \in Int)
       /\ (\A c \in Conns : current[c].pos \in Int /\ \A i \in DOMAIN chan[c] : chan[c][i].pos \in Int)
  <2>1. case \in Cases /\ MaxOps \in Nat
    BY CaseFacts DEF IInv, TypeInv
  <2>2. \A k \in Cursors : info[k].origin \in Int
    BY <2>1 DEF IInv, TypeInv, Infos
  <2>3. \A x \in Items \cup {NoItem} : x.pos \in Int
    BY <2>1 DEF Items, NoItem, Positions
  <2>4. \A c \in Conns : current[c] \in Items \cup {NoItem} /\ \A i \in DOMAIN chan[c] : chan[c][i] \in Items
    BY DEF IInv, TypeInv
  <2> QED BY <2>2, <2>3, <2>4 DEF IInv, TypeInv
<1>3. \A p \in Int : Gone(p) => Gone(p)'
  BY <1>2 DEF Gone, Busy
<1> QED BY <1>1, <1>2, <1>3 DEF IInv, OnceInv, Busy

LEMMA newPreprocessCursorManagerKeeps == ASSUME IInv, newPreprocessCursorManager PROVE IInv'
<1>0. /\ phase = "preprocess" /\ phase' = "dispatch"
      /\ case' = case /\ recording' = recording
      /\ info' = [k \in Cursors |->
           IF preprocess /\ cursorsSeen[k].replySeen /\ cursorsSeen[k].uses > 0
           THEN [NoInfo EXCEPT !.mapped = TRUE,
                               !.uses = cursorsSeen[k].uses,
                               !.replyConn = cursorsSeen[k].replyConn,
                               !.origin = cursorsSeen[k].origin]
           ELSE NoInfo]
      /\ UNCHANGED <<filePos, generation, cursorsSeen, connVars, replyVars, crashed, history>>
  BY DEF newPreprocessCursorManager, input
<1>1. case \in Cases
  BY DEF IInv, TypeInv
<1>2. /\ info' \in [Cursors -> Infos]
      /\ \A k \in Cursors : /\ info'[k].fail = FALSE /\ info'[k].success = FALSE
                            /\ info'[k].mapped => preprocess
  <2>1. \A k \in Cursors : cursorsSeen[k] \in Seens
    BY DEF IInv, TypeInv
  <2>2. ASSUME NEW k \in Cursors
        PROVE  /\ info'[k] \in Infos
               /\ info'[k].fail = FALSE /\ info'[k].success = FALSE
               /\ info'[k].mapped => preprocess
    <3>1. CASE preprocess /\ cursorsSeen[k].replySeen /\ cursorsSeen[k].uses > 0
      <4>1. info'[k] = [NoInfo EXCEPT !.mapped = TRUE, !.uses = cursorsSeen[k].uses,
                               !.replyConn = cursorsSeen[k].replyConn,
                               !.origin = cursorsSeen[k].origin]
        BY <1>0, <3>1
      <4>2. cursorsSeen[k].uses \in Int /\ cursorsSeen[k].replyConn \in Conns \cup {NoConn}
            /\ cursorsSeen[k].origin \in 0..MaxOps
        BY <2>1 DEF Seens
      <4>3. NoLive \in Lives
        BY <1>1, DefaultsAreTyped
      <4> QED BY ZenonT(60), <3>1, <4>1, <4>2, <4>3 DEF Infos, NoInfo
    <3>2. CASE ~(preprocess /\ cursorsSeen[k].replySeen /\ cursorsSeen[k].uses > 0)
      <4>1. info'[k] = NoInfo
        BY <1>0, <3>2
      <4> QED BY <1>1, <4>1, DefaultsAreTyped
    <3> QED BY <3>1, <3>2
  <2> QED BY <1>0, <2>2
<1>3. /\ \A c \in Conns : pc[c] = "none" /\ DOMAIN chan[c] = {} /\ chan[c] = <<>> /\ chanState[c] = "none" /\ ~Busy(c)
      /\ incomplete = {} /\ complete = {} /\ sent = {} /\ ~crashed
  <2>1. phase = "preprocess"
    BY <1>0
  <2>2. \A c \in Conns : pc[c] = "none" /\ DOMAIN chan[c] = {} /\ chan[c] = <<>> /\ chanState[c] = "none"
    BY <2>1 DEF IInv, QuietInv
  <2> QED BY <2>1, <2>2 DEF IInv, QuietInv, Busy
<1>t. TypeInv'
  BY <1>0, <1>2, SameCase DEF IInv, TypeInv, connVars, replyVars
<1>r. RecordingInv' /\ QuietInv'
  BY <1>0, LateFrame
<1>4. \A c \in Conns : pc'[c] = "none" /\ DOMAIN chan'[c] = {} /\ chan'[c] = <<>> /\ chanState'[c] = "none" /\ ~Busy(c)'
  BY <1>0, <1>3 DEF connVars, Busy
<1>c. ConnInv'
  BY <1>4 DEF ConnInv
<1>o. OnceInv'
  BY <1>0, <1>2, <1>3, <1>4 DEF OnceInv
<1>i. RightInv'
  <2>1. preprocess' = preprocess
    BY <1>0, SameCase
  <2> QED BY <1>0, <1>2, <1>3, <1>4, <2>1 DEF RightInv, SentCursorsAreRight, replyVars, history
<1> QED BY <1>t, <1>r, <1>c, <1>o, <1>i DEF IInv

(* OpChan begins the file again: only where there are more generations.    *)
LEMMA NextGenerationKeeps == ASSUME IInv, NextGeneration PROVE IInv'
<1>0. /\ phase = "dispatch" /\ phase' = phase /\ generation < Repeat - 1
      /\ filePos' = 1 /\ generation' = generation + 1
      /\ case' = case /\ recording' = recording
      /\ UNCHANGED <<cursorsSeen, info, connVars, replyVars, crashed, history>>
  BY DEF NextGeneration, input
<1>1. Repeat \in Nat \ {0} /\ generation \in 0..(Repeat - 1)
  BY CaseFacts DEF IInv, TypeInv, Generations
<1>t. TypeInv'
  <2>1. generation' \in Generations /\ filePos' \in 1..(Len(recording) + 1)
    BY <1>0, <1>1 DEF IInv, TypeInv, Generations
  <2> QED BY <1>0, <2>1, SameCase DEF IInv, TypeInv, connVars, replyVars
<1>r. RecordingInv' /\ QuietInv'
  BY <1>0, LateFrame
<1>c. ConnInv'
  BY <1>0 DEF IInv, ConnInv, Busy, connVars
<1>o. OnceInv'
  BY <1>0, <1>1, SameCase DEF OnceInv
<1>i. RightInv'
  BY <1>0, RightFrame DEF connVars, replyVars, history
<1> QED BY <1>t, <1>r, <1>c, <1>o, <1>i DEF IInv

LEMMA SuppressEOFKeeps == ASSUME IInv, SuppressEOF PROVE IInv'
<1>0. /\ phase = "dispatch" /\ phase' = phase /\ ~AtEnd
      /\ filePos' = filePos + 1 /\ generation' = generation
      /\ case' = case /\ recording' = recording
      /\ UNCHANGED <<cursorsSeen, info, connVars, replyVars, crashed, history>>
  BY DEF SuppressEOF, input
<1>1. filePos' \in 1..(Len(recording) + 1) /\ filePos' >= filePos /\ filePos' \in Int
  BY <1>0 DEF IInv, TypeInv, AtEnd
<1>t. TypeInv'
  BY <1>0, <1>1, SameCase DEF IInv, TypeInv, connVars, replyVars
<1>r. RecordingInv' /\ QuietInv'
  BY <1>0, LateFrame
<1>c. ConnInv'
  BY <1>0 DEF IInv, ConnInv, Busy, connVars
<1>o. OnceInv'
  BY <1>0, <1>1, OnceFrame DEF connVars
<1>i. RightInv'
  BY <1>0, RightFrame DEF connVars, replyVars, history
<1> QED BY <1>t, <1>r, <1>c, <1>o, <1>i DEF IInv

(* Channels are closed at the end of a connection and of the file.         *)
LEMMA DispatchEOFKeeps == ASSUME IInv, DispatchEOF PROVE IInv'
<1>0. /\ phase = "dispatch" /\ phase' = phase /\ ~AtEnd
      /\ filePos' = filePos + 1 /\ generation' = generation
      /\ chanState' = [chanState EXCEPT ![recording[filePos].conn] = "closed"]
      /\ case' = case /\ recording' = recording
      /\ UNCHANGED <<cursorsSeen, info, chan, pc, current, todo, got, connected, replyVars, crashed, history>>
  BY DEF DispatchEOF, input
<1>1. filePos' \in 1..(Len(recording) + 1) /\ filePos' >= filePos /\ filePos' \in Int
  BY <1>0 DEF IInv, TypeInv, AtEnd
<1>2. /\ chanState' \in [Conns -> {"none", "open", "closed"}]
      /\ \A c \in Conns : chanState'[c] = chanState[c] \/ chanState'[c] = "closed"
  BY <1>0 DEF IInv, TypeInv
<1>t. TypeInv'
  BY <1>0, <1>1, <1>2, SameCase DEF IInv, TypeInv, replyVars
<1>r. RecordingInv' /\ QuietInv'
  BY <1>0, LateFrame
<1>c. ConnInv'
  BY <1>0, <1>2 DEF IInv, ConnInv, Busy
<1>o. OnceInv'
  BY <1>0, <1>1, OnceFrame
<1>i. RightInv'
  BY <1>0, RightFrame DEF replyVars, history
<1> QED BY <1>t, <1>r, <1>c, <1>o, <1>i DEF IInv

LEMMA CloseChansKeeps == ASSUME IInv, CloseChans PROVE IInv'
<1>0. /\ phase = "dispatch" /\ phase' = "wait"
      /\ chanState' = [c \in Conns |-> IF chanState[c] = "open" THEN "closed" ELSE chanState[c]]
      /\ case' = case /\ recording' = recording
      /\ UNCHANGED <<filePos, generation, cursorsSeen, info, chan, pc, current, todo, got, connected,
                     replyVars, crashed, history>>
  BY DEF CloseChans, input
<1>1. filePos' >= filePos /\ filePos' \in Int
  BY <1>0 DEF IInv, TypeInv
<1>2. /\ chanState' \in [Conns -> {"none", "open", "closed"}]
      /\ \A c \in Conns : chanState'[c] = chanState[c] \/ chanState'[c] = "closed"
  BY <1>0 DEF IInv, TypeInv
<1>t. TypeInv'
  BY <1>0, <1>2, SameCase DEF IInv, TypeInv, replyVars
<1>r. RecordingInv' /\ QuietInv'
  BY <1>0, LateFrame
<1>c. ConnInv'
  BY <1>0, <1>2 DEF IInv, ConnInv, Busy
<1>o. OnceInv'
  BY <1>0, <1>1, OnceFrame
<1>i. RightInv'
  BY <1>0, RightFrame DEF replyVars, history
<1> QED BY <1>t, <1>r, <1>c, <1>o, <1>i DEF IInv

(* Play returns when all goroutines have ended.                            *)
LEMMA PlayReturnKeeps == ASSUME IInv, PlayReturn PROVE IInv'
<1>0. /\ phase = "wait" /\ phase' = "done"
      /\ \A c \in Conns : pc[c] \in {"none", "done"}
      /\ case' = case /\ recording' = recording
      /\ UNCHANGED <<filePos, generation, cursorsSeen, info, connVars, replyVars, crashed, history>>
  BY DEF PlayReturn, input
<1>1. filePos' >= filePos /\ filePos' \in Int
  BY <1>0 DEF IInv, TypeInv
<1>t. TypeInv'
  BY <1>0, SameCase DEF IInv, TypeInv, connVars, replyVars
<1>r. RecordingInv' /\ QuietInv'
  BY <1>0, LateFrame
<1>c. ConnInv'
  BY <1>0 DEF IInv, ConnInv, Busy, connVars
<1>o. OnceInv'
  BY <1>0, <1>1, OnceFrame DEF connVars
<1>i. RightInv'
  BY <1>0, RightFrame DEF connVars, replyVars, history
<1> QED BY <1>t, <1>r, <1>c, <1>o, <1>i DEF IInv

(* An op is handed to its connection, whose goroutine may have to be       *)
(* started.                                                                *)
LEMMA DispatchOpKeeps == ASSUME IInv, DispatchOp PROVE IInv'
<1> DEFINE c == recording[filePos].conn
           item == [pos |-> filePos, gen |-> generation]
<1>0. /\ phase = "dispatch" /\ phase' = phase /\ ~AtEnd /\ ~crashed
      /\ filePos' = filePos + 1 /\ generation' = generation
      /\ chan' = [chan EXCEPT ![c] = Append(chan[c], item)]
      /\ Len(chan[c]) < QueueCap
      /\ newExecutionConnection(c) \/ (chanState[c] = "open" /\ UNCHANGED <<chanState, pc, connected>>)
      /\ case' = case /\ recording' = recording
      /\ UNCHANGED <<cursorsSeen, info, current, todo, got, replyVars, crashed, history>>
  BY DEF DispatchOp, input
<1>1. /\ filePos \in DOMAIN recording /\ filePos \in Int /\ filePos \in 1..MaxOps
      /\ filePos' \in 1..(Len(recording) + 1) /\ MaxOps \in Nat /\ case \in Cases
      /\ c \in Conns /\ item \in Items
  <2>1. case \in Cases /\ MaxOps \in Nat
    BY CaseFacts DEF IInv, TypeInv
  <2>2. filePos \in DOMAIN recording /\ filePos \in 1..MaxOps /\ filePos' \in 1..(Len(recording) + 1)
    BY <1>0, <2>1 DEF IInv, TypeInv, AtEnd
  <2>3. recording[filePos] \in Ops
    BY <2>2 DEF IInv, TypeInv
  <2> QED BY <2>1, <2>2, <2>3 DEF IInv, TypeInv, Ops, Items, Positions
<1>2. /\ chanState' \in [Conns -> {"none", "open", "closed"}]
      /\ pc' \in [Conns -> Pcs] /\ connected' \in [Conns -> BOOLEAN]
      /\ \A d \in Conns : d # c => pc'[d] = pc[d] /\ chanState'[d] = chanState[d]
      /\ pc'[c] \notin {"none", "done"} /\ chanState'[c] = "open"
      /\ pc'[c] = pc[c] \/ pc'[c] = "idle"
  <2>1. CASE newExecutionConnection(c)
    <3>1. PICK up \in BOOLEAN : connected' = [connected EXCEPT ![c] = up]
      BY <2>1 DEF newExecutionConnection
    <3> QED BY <1>1, <2>1, <3>1 DEF IInv, TypeInv, newExecutionConnection, Pcs
  <2>2. CASE chanState[c] = "open" /\ UNCHANGED <<chanState, pc, connected>>
    BY <1>1, <2>2 DEF IInv, TypeInv, ConnInv
  <2> QED BY <1>0, <2>1, <2>2
<1>3. /\ chan' \in [Conns -> Seq(Items)]
      /\ Len(chan'[c]) = Len(chan[c]) + 1
      /\ DOMAIN chan'[c] = DOMAIN chan[c] \cup {Len(chan[c]) + 1}
      /\ \A i \in DOMAIN chan[c] : chan'[c][i] = chan[c][i] /\ i \in 1..Len(chan[c])
      /\ chan'[c][Len(chan[c]) + 1] = item
      /\ \A d \in Conns : d # c => chan'[d] = chan[d]
  <2>1. chan[c] \in Seq(Items)
    BY <1>1 DEF IInv, TypeInv
  <2> DEFINE longer == Append(chan[c], item)
  <2>2. /\ longer \in Seq(Items) /\ Len(longer) = Len(chan[c]) + 1
        /\ DOMAIN longer = DOMAIN chan[c] \cup {Len(chan[c]) + 1}
        /\ \A i \in DOMAIN chan[c] : longer[i] = chan[c][i]
        /\ longer[Len(chan[c]) + 1] = item
        /\ \A i \in DOMAIN chan[c] : i \in 1..Len(chan[c])
    BY <1>1, <2>1, Appended
  <2>3. chan' = [chan EXCEPT ![c] = longer]
    BY <1>0
  <2> HIDE DEF longer
  <2> QED BY <1>1, <2>2, <2>3 DEF IInv, TypeInv
<1>4. \A d \in Conns : Busy(d)' => Busy(d)
  BY <1>2 DEF Busy
<1>t. TypeInv'
  <2>1. \A d \in Conns : Len(chan'[d]) <= QueueCap
    <3>1. Len(chan[c]) \in Nat /\ QueueCap \in Nat
      BY <1>1, QueueCapAssumption DEF IInv, TypeInv
    <3> QED BY <1>0, <1>3, <3>1 DEF IInv, TypeInv
  <2> QED BY <1>0, <1>1, <1>2, <1>3, <2>1, SameCase DEF IInv, TypeInv, replyVars
<1>r. RecordingInv' /\ QuietInv'
  BY <1>0, LateFrame
<1>c. ConnInv'
  <2>1. ASSUME NEW d \in Conns, d # c
        PROVE  /\ pc'[d] = pc[d] /\ chanState'[d] = chanState[d] /\ chan'[d] = chan[d]
               /\ current'[d] = current[d] /\ todo'[d] = todo[d] /\ got'[d] = got[d]
    BY <1>0, <1>2, <1>3, <2>1
  <2>2. \A i \in DOMAIN chan'[c] : chan'[c][i].pos \in DOMAIN recording /\ recording[chan'[c][i].pos].conn = c
    BY <1>1, <1>3 DEF IInv, ConnInv
  <2> HIDE DEF c, item
  <2>3. ASSUME NEW d \in Conns
        PROVE  /\ chanState'[d] = "open" => pc'[d] # "none"
               /\ pc'[d] \in {"none", "done"} => chan'[d] = <<>>
               /\ pc'[d] = "done" => chanState'[d] = "closed"
               /\ \A i \in DOMAIN chan'[d] :
                    chan'[d][i].pos \in DOMAIN recording /\ recording[chan'[d][i].pos].conn = d
    BY <1>2, <2>1, <2>2 DEF IInv, ConnInv
  <2>4. ASSUME NEW d \in Conns, pc'[d] \in {"lookup", "await", "execute"}
        PROVE  pc'[d] = pc[d]
    BY <1>2, <2>4
  <2> QED BY <1>0, <2>3, <2>4 DEF IInv, ConnInv, Busy
<1>o. OnceInv'
  <2> SUFFICES ASSUME Repeat = 1 PROVE OnceInv'
    <3>1. Repeat' = Repeat
      BY <1>0, SameCase
    <3> QED BY <3>1 DEF OnceInv
  <2>1. /\ \A d \in Conns :
             /\ \A i \in DOMAIN chan[d] : chan[d][i].pos < filePos
             /\ \A i, j \in DOMAIN chan[d] : i < j => chan[d][i].pos < chan[d][j].pos
             /\ Busy(d) => /\ current[d].pos < filePos
                           /\ \A i \in DOMAIN chan[d] : current[d].pos < chan[d][i].pos
        /\ \A k \in Cursors : info[k].fail => Gone(info[k].origin)
    BY DEF IInv, OnceInv
  <2>2. /\ \A x \in Items \cup {NoItem} : x.pos \in Int
        /\ \A d \in Conns : current[d] \in Items \cup {NoItem} /\ \A i \in DOMAIN chan[d] : chan[d][i] \in Items
        /\ \A k \in Cursors : info[k].origin \in Int
    <3>1. \A x \in Items \cup {NoItem} : x.pos \in Int
      BY <1>1 DEF Items, NoItem, Positions
    <3>2. \A k \in Cursors : info[k].origin \in Int
      BY <1>1 DEF IInv, TypeInv, Infos
    <3> QED BY <3>1, <3>2 DEF IInv, TypeInv
  <2>3. item.pos = filePos
    OBVIOUS
  <2> HIDE DEF c, item
  <2>4. ASSUME NEW d \in Conns
        PROVE  /\ \A i \in DOMAIN chan'[d] : chan'[d][i].pos < filePos'
               /\ \A i, j \in DOMAIN chan'[d] : i < j => chan'[d][i].pos < chan'[d][j].pos
               /\ Busy(d)' => /\ current'[d].pos < filePos'
                              /\ \A i \in DOMAIN chan'[d] : current'[d].pos < chan'[d][i].pos
    <3>1. CASE d # c
      BY <1>0, <1>1, <1>3, <1>4, <2>1, <2>2, <3>1
    <3>2. CASE d = c
      BY <1>0, <1>1, <1>3, <1>4, <2>1, <2>2, <2>3, <3>2
    <3> QED BY <3>1, <3>2
  <2>5. ASSUME NEW p \in Int, Gone(p) PROVE Gone(p)'
    <3>1. p < filePos'
      BY <1>0, <1>1, <2>5 DEF Gone
    <3>2. ASSUME NEW d \in Conns
          PROVE  /\ \A i \in DOMAIN chan'[d] : chan'[d][i].pos # p
                 /\ Busy(d)' => current'[d].pos # p
      BY <1>0, <1>1, <1>3, <1>4, <2>3, <2>5, <3>2 DEF Gone
    <3> QED BY <3>1, <3>2 DEF Gone
  <2> QED BY <1>0, <2>1, <2>2, <2>4, <2>5 DEF OnceInv
<1>i. RightInv'
  <2>1. \A d \in Conns : Busy(d)' => current'[d] = current[d] /\ got'[d] = got[d] /\ todo'[d] = todo[d]
    BY <1>0
  <2> QED BY <1>0, <1>4, <2>1, SameCase, SameRecording DEF IInv, RightInv, replyVars, history
<1> QED BY <1>t, <1>r, <1>c, <1>o, <1>i DEF IInv

-----------------------------------------------------------------------------
(* The goroutine of a connection: the parts of the invariant on the order  *)
(* of execution.                                                           *)

(* Whoever has something to do has been started.                           *)
LEMMA Running ==
    ASSUME IInv, NEW c \in Conns, pc[c] \notin {"none", "done"}
    PROVE  phase # "preprocess" /\ phase # "done"
BY DEF IInv, QuietInv, ConnInv

(* A step of connection c that takes no op: if it is still executing its   *)
(* op it was before.                                                       *)
LEMMA OnceStep ==
    ASSUME IInv, NEW c \in Conns, NEW q \in Pcs,
           UNCHANGED <<case, filePos, chan, current, crashed>>,
           pc' = [pc EXCEPT ![c] = q],
           q \in {"lookup", "await", "execute"} => Busy(c),
           \A k \in Cursors : info'[k].fail => info[k].fail /\ info'[k].origin = info[k].origin
    PROVE  OnceInv'
<1>1. Repeat' = Repeat
  BY SameCase
<1>2. \A d \in Conns : Busy(d)' => Busy(d)
  BY DEF IInv, TypeInv, Busy
<1>3. \A p : Gone(p) => Gone(p)'
  BY <1>2 DEF Gone
<1> QED BY <1>1, <1>2, <1>3 DEF IInv, OnceInv

(* A step that takes the next op of connection c, to execute it or not.    *)
LEMMA OnceTake ==
    ASSUME IInv, NEW c \in Conns, NEW q \in Pcs, chan[c] # <<>>, pc[c] = "idle",
           UNCHANGED <<case, filePos, info, crashed>>,
           pc' = [pc EXCEPT ![c] = q], chan' = [chan EXCEPT ![c] = Tail(@)],
           \/ current' = current /\ q \notin {"lookup", "await", "execute"}
           \/ current' = [current EXCEPT ![c] = Head(chan[c])]
    PROVE  OnceInv'
<1>0. chan[c] \in Seq(Items) /\ case \in Cases
  BY DEF IInv, TypeInv
<1>1. Repeat' = Repeat
  BY SameCase
<1>2. /\ \A d \in Conns : d # c => chan'[d] = chan[d] /\ (Busy(d)' <=> Busy(d)) /\ current'[d] = current[d]
      /\ chan'[c] = Tail(chan[c])
      /\ Busy(c)' => current'[c] = Head(chan[c])
  BY DEF IInv, TypeInv, Busy
<1>3. /\ Len(chan[c]) \in Nat \ {0} /\ Head(chan[c]) = chan[c][1] /\ 1 \in DOMAIN chan[c]
      /\ \A i \in DOMAIN chan'[c] : i \in Nat \ {0} /\ i + 1 \in DOMAIN chan[c] /\ chan'[c][i] = chan[c][i + 1]
  <2>1. Tail(chan[c]) \in Seq(Items)
    BY <1>0, HeadAndTail
  <2>2. DOMAIN Tail(chan[c]) = 1..Len(Tail(chan[c])) /\ DOMAIN chan[c] = 1..Len(chan[c])
        /\ Len(Tail(chan[c])) \in Nat
    BY <1>0, <2>1
  <2>3. /\ Len(chan[c]) \in Nat \ {0} /\ Head(chan[c]) = chan[c][1]
        /\ \A i \in DOMAIN Tail(chan[c]) : i + 1 \in DOMAIN chan[c] /\ Tail(chan[c])[i] = chan[c][i + 1]
    BY <1>0, HeadAndTail
  <2>4. 1 \in DOMAIN chan[c] /\ \A i \in DOMAIN Tail(chan[c]) : i \in Nat \ {0}
    BY <2>2, <2>3
  <2> QED BY <1>2, <2>3, <2>4
<1>4. \A p : Gone(p) => Gone(p)'
  <2> SUFFICES ASSUME NEW p, Gone(p) PROVE Gone(p)'
    OBVIOUS
  <2>1. ASSUME NEW d \in Conns
        PROVE  /\ \A i \in DOMAIN chan'[d] : chan'[d][i].pos # p
               /\ Busy(d)' => current'[d].pos # p
    <3>1. CASE d = c
      BY <1>2, <1>3, <3>1 DEF Gone
    <3>2. CASE d # c
      BY <1>2, <3>2 DEF Gone
    <3> QED BY <3>1, <3>2
  <2> QED BY <2>1 DEF Gone
<1> SUFFICES ASSUME Repeat = 1 PROVE OnceInv'
  BY <1>1 DEF OnceInv
<1>5. /\ \A d \in Conns :
           /\ \A i \in DOMAIN chan[d] : chan[d][i].pos < filePos
           /\ \A i, j \in DOMAIN chan[d] : i < j => chan[d][i].pos < chan[d][j].pos
           /\ Busy(d) => /\ current[d].pos < filePos
                         /\ \A i \in DOMAIN chan[d] : current[d].pos < chan[d][i].pos
      /\ \A k \in Cursors : info[k].fail => Gone(info[k].origin)
      /\ ~crashed
  BY DEF IInv, OnceInv
<1>6. ASSUME NEW d \in Conns
      PROVE  /\ \A i \in DOMAIN chan'[d] : chan'[d][i].pos < filePos
             /\ \A i, j \in DOMAIN chan'[d] : i < j => chan'[d][i].pos < chan'[d][j].pos
             /\ Busy(d)' => /\ current'[d].pos < filePos
                            /\ \A i \in DOMAIN chan'[d] : current'[d].pos < chan'[d][i].pos
  <2>1. CASE d = c
    <3>1. \A i \in DOMAIN chan'[c] : chan'[c][i].pos < filePos
      BY <1>3, <1>5
    <3>2. \A i, j \in DOMAIN chan'[c] : i < j => chan'[c][i].pos < chan'[c][j].pos
      BY <1>3, <1>5
    <3>3. Busy(c)' => /\ current'[c].pos < filePos
                      /\ \A i \in DOMAIN chan'[c] : current'[c].pos < chan'[c][i].pos
      BY <1>2, <1>3, <1>5
    <3> QED BY <2>1, <3>1, <3>2, <3>3
  <2>2. CASE d # c
    BY <1>2, <1>5, <2>2
  <2> QED BY <2>1, <2>2
<1> QED BY <1>1, <1>4, <1>5, <1>6 DEF OnceInv

(* The same for what is said of the channels and the goroutines.           *)
LEMMA ConnTake ==
    ASSUME IInv, NEW c \in Conns, NEW q \in {"idle", "lookup", "execute", "handle"},
           chan[c] # <<>>, pc[c] = "idle",
           UNCHANGED <<case, recording, phase, chanState>>,
           pc' = [pc EXCEPT ![c] = q], chan' = [chan EXCEPT ![c] = Tail(@)],
           \A d \in Conns : d # c => got'[d] = got[d] /\ todo'[d] = todo[d],
           \/ current' = current /\ q \notin {"lookup", "execute"}
           \/ /\ current' = [current EXCEPT ![c] = Head(chan[c])]
              /\ HeadOp(c).kind = IF q = "lookup" THEN "use" ELSE "query"
    PROVE  /\ chan' \in [Conns -> Seq(Items)] /\ (\A d \in Conns : Len(chan'[d]) <= QueueCap)
           /\ pc' \in [Conns -> Pcs] /\ current' \in [Conns -> Items \cup {NoItem}]
           /\ ConnInv'
<1>0. chan[c] \in Seq(Items) /\ phase # "done" /\ phase # "preprocess"
  BY Running DEF IInv, TypeInv
<1>1. /\ Len(chan[c]) \in Nat \ {0} /\ Head(chan[c]) = chan[c][1] /\ Head(chan[c]) \in Items
      /\ Tail(chan[c]) \in Seq(Items) /\ Len(Tail(chan[c])) = Len(chan[c]) - 1
      /\ \A i \in DOMAIN Tail(chan[c]) : i + 1 \in DOMAIN chan[c] /\ Tail(chan[c])[i] = chan[c][i + 1]
  BY <1>0, HeadAndTail
<1>2. 1 \in DOMAIN chan[c]
  BY <1>0, <1>1
<1>3. chan' \in [Conns -> Seq(Items)] /\ (\A d \in Conns : Len(chan'[d]) <= QueueCap)
  <2>1. \A d \in Conns : Len(chan[d]) \in Nat /\ Len(chan[d]) <= QueueCap
    BY DEF IInv, TypeInv
  <2>2. chan'[c] = Tail(chan[c]) /\ \A d \in Conns : d # c => chan'[d] = chan[d]
    BY DEF IInv, TypeInv
  <2> QED BY <1>1, <2>1, <2>2, QueueCapAssumption DEF IInv, TypeInv
<1>4. /\ pc' \in [Conns -> Pcs] /\ current' \in [Conns -> Items \cup {NoItem}]
      /\ pc'[c] = q /\ \A d \in Conns : d # c => pc'[d] = pc[d] /\ current'[d] = current[d] /\ chan'[d] = chan[d]
      /\ chan'[c] = Tail(chan[c])
  BY <1>1 DEF IInv, TypeInv, Pcs
<1>5. recording[Head(chan[c]).pos].conn = c /\ Head(chan[c]).pos \in DOMAIN recording
  BY <1>1, <1>2 DEF IInv, ConnInv
<1>6. \A i \in DOMAIN chan'[c] : chan'[c][i].pos \in DOMAIN recording /\ recording[chan'[c][i].pos].conn = c
  BY <1>1, <1>4 DEF IInv, ConnInv
<1>7. q \in {"lookup", "execute"} =>
        /\ current'[c] = Head(chan[c])
        /\ recording[current'[c].pos].kind = IF q = "lookup" THEN "use" ELSE "query"
  BY DEF IInv, TypeInv, HeadOp
<1>8. ConnInv'
  <2> SUFFICES ASSUME NEW d \in Conns
               PROVE  (/\ chanState[d] = "open" => pc[d] # "none"
                       /\ pc[d] \in {"none", "done"} => chan[d] = <<>>
                       /\ pc[d] = "done" => chanState[d] = "closed"
                       /\ phase = "done" => pc[d] \in {"none", "done"}
                       /\ \A i \in DOMAIN chan[d] :
                            chan[d][i].pos \in DOMAIN recording /\ recording[chan[d][i].pos].conn = d
                       /\ Busy(d) =>
                            LET op == recording[current[d].pos] IN
                              /\ current[d].pos \in DOMAIN recording /\ op.conn = d
                              /\ pc[d] # "execute" => op.kind = "use"
                              /\ op.kind \in {"query", "use"}
                       /\ pc[d] = "await" => todo[d] # <<>>
                       /\ pc[d] = "execute" /\ recording[current[d].pos].kind = "use" => got[d] # <<>>)'
    BY DEF ConnInv
  <2>1. CASE d # c
    BY <1>4, <2>1 DEF IInv, ConnInv, Busy
  <2>2. CASE d = c
    BY <1>0, <1>4, <1>5, <1>6, <1>7, <2>2 DEF Busy
  <2> QED BY <2>1, <2>2
<1> QED BY <1>3, <1>4, <1>8

-----------------------------------------------------------------------------
(* The goroutine of a connection: its steps.                               *)

(* What has to be shown of a step that learns something: its new halves,   *)
(* pairs and live cursors are right.                                       *)
LEMMA RightStep ==
    ASSUME UNCHANGED <<case, recording>>,
           \A h \in incomplete' : HalfIsRight(h),
           \A p \in complete' : p.live[1] \in OriginOf(p.file),
           \A k \in Cursors :
             info'[k].success \/ (~preprocess /\ info'[k].mapped) => info'[k].live[1] \in OriginOf(k),
           \A d \in Conns :
             Busy(d)' /\ recording[current'[d].pos].kind = "use" =>
               /\ \A i \in DOMAIN got'[d] : StandsFor(got'[d][i][1], current'[d].pos)
               /\ \A i \in DOMAIN todo'[d] :
                    \E j \in DOMAIN recording[current'[d].pos].curs :
                      todo'[d][i] = recording[current'[d].pos].curs[j],
           SentCursorsAreRight'
    PROVE  RightInv'
<1>1. preprocess' = preprocess
  BY SameCase
<1>2. /\ \A h \in incomplete' : HalfIsRight(h)'
      /\ \A p \in complete' : p.live[1] \in OriginOf(p.file)'
  BY SameRecording
<1>3. \A k \in Cursors :
        info'[k].success \/ (~preprocess /\ info'[k].mapped) => info'[k].live[1] \in OriginOf(k)'
  BY SameRecording
<1>4. ASSUME NEW d \in Conns, Busy(d)', recording[current'[d].pos].kind = "use"
      PROVE  \A i \in DOMAIN got'[d] : StandsFor(got[d][i][1], current[d].pos)'
  BY <1>4, SameRecording
<1> QED BY <1>1, <1>2, <1>3, <1>4 DEF RightInv

(* Receives takes the next op of a connected goroutine.                    *)
LEMMA ReceiveFacts ==
    ASSUME IInv, NEW c \in Conns, NEW kind, Receives(c, kind)
    PROVE  /\ pc[c] = "idle" /\ chan[c] # <<>> /\ ~crashed /\ HeadOp(c).kind = kind
           /\ chan' = [chan EXCEPT ![c] = Tail(@)]
           /\ phase # "preprocess" /\ phase # "done"
           /\ HeadOp(c) \in Ops /\ Head(chan[c]) \in Items /\ Head(chan[c]).pos \in DOMAIN recording
           /\ HeadOp(c) = recording[Head(chan[c]).pos] /\ HeadOp(c).curs \in Seq(Cursors)
<1>1. pc[c] = "idle" /\ chan[c] # <<>> /\ ~crashed /\ HeadOp(c).kind = kind
        /\ chan' = [chan EXCEPT ![c] = Tail(@)]
  BY DEF Receives
<1>2. chan[c] \in Seq(Items) /\ case \in Cases
  BY DEF IInv, TypeInv
<1>3. Head(chan[c]) = chan[c][1] /\ Head(chan[c]) \in Items /\ 1 \in DOMAIN chan[c]
  BY <1>1, <1>2
<1>4. Head(chan[c]).pos \in DOMAIN recording
  BY <1>3 DEF IInv, ConnInv
<1>5. HeadOp(c) \in Ops /\ HeadOp(c) = recording[Head(chan[c]).pos]
  BY <1>4 DEF IInv, TypeInv, HeadOp
<1>6. HeadOp(c).curs \in Seq(Cursors)
  <2>1. HeadOp(c).curs \in UseLists \cup {<<k>> : k \in Cursors} \cup {<<>>}
    BY <1>5 DEF Ops
  <2>2. UseLists \subseteq Seq(Cursors)
    BY <1>2, CaseFacts
  <2>3. CASE HeadOp(c).curs \in {<<k>> : k \in Cursors}
    <3>1. PICK k \in Cursors : HeadOp(c).curs = <<k>>
      BY <2>3
    <3> QED BY <3>1
  <2>4. CASE HeadOp(c).curs \in UseLists
    BY <2>2, <2>4
  <2>5. CASE HeadOp(c).curs = <<>>
    BY <2>5
  <2> QED BY <2>1, <2>3, <2>4, <2>5
<1> QED BY <1>1, <1>3, <1>4, <1>5, <1>6, Running

LEMMA SkipNotConnectedKeeps == ASSUME IInv, NEW c \in Conns, SkipNotConnected(c) PROVE IInv'
<1>0. /\ pc[c] = "idle" /\ chan[c] # <<>>
      /\ chan' = [chan EXCEPT ![c] = Tail(@)]
      /\ UNCHANGED <<case, recording, phase, filePos, generation, cursorsSeen, info, chanState, pc, current,
                     todo, got, connected, incomplete, complete, crashed, sent, skips>>
  BY DEF SkipNotConnected, input, playVars, replyVars, history
<1>1. pc' = [pc EXCEPT ![c] = "idle"]
  BY <1>0 DEF IInv, TypeInv
<1>2. /\ chan' \in [Conns -> Seq(Items)] /\ (\A d \in Conns : Len(chan'[d]) <= QueueCap)
      /\ pc' \in [Conns -> Pcs] /\ current' \in [Conns -> Items \cup {NoItem}]
      /\ ConnInv'
  BY <1>0, <1>1, ConnTake
<1>t. TypeInv'
  BY <1>0, <1>2, SameCase DEF IInv, TypeInv
<1>r. RecordingInv' /\ QuietInv'
  BY <1>0, Running, LateFrame
<1>o. OnceInv'
  BY <1>0, <1>1, OnceTake DEF Pcs
<1>i. RightInv'
  BY <1>0, RightFrame
<1> QED BY <1>2, <1>t, <1>r, <1>o, <1>i DEF IInv

LEMMA ReceiveQueryKeeps == ASSUME IInv, NEW c \in Conns, ReceiveQuery(c) PROVE IInv'
<1>0. /\ Receives(c, "query")
      /\ current' = [current EXCEPT ![c] = Head(chan[c])]
      /\ pc' = [pc EXCEPT ![c] = "execute"]
      /\ UNCHANGED <<case, recording, phase, filePos, generation, cursorsSeen, info, chanState,
                     todo, got, connected, incomplete, complete, crashed, sent, skips>>
  BY DEF ReceiveQuery, input, playVars, replyVars, history
<1>1. /\ pc[c] = "idle" /\ chan[c] # <<>> /\ HeadOp(c).kind = "query"
      /\ chan' = [chan EXCEPT ![c] = Tail(@)]
      /\ phase # "preprocess" /\ HeadOp(c) = recording[Head(chan[c]).pos]
  BY <1>0, ReceiveFacts
<1>2. /\ chan' \in [Conns -> Seq(Items)] /\ (\A d \in Conns : Len(chan'[d]) <= QueueCap)
      /\ pc' \in [Conns -> Pcs] /\ current' \in [Conns -> Items \cup {NoItem}]
      /\ ConnInv'
  BY <1>0, <1>1, ConnTake
<1>t. TypeInv'
  BY <1>0, <1>2, SameCase DEF IInv, TypeInv
<1>r. RecordingInv' /\ QuietInv'
  BY <1>0, <1>1, LateFrame
<1>o. OnceInv'
  BY <1>0, <1>1, OnceTake DEF Pcs
<1>i. RightInv'
  <2>1. \A d \in Conns : d # c => (Busy(d)' <=> Busy(d)) /\ current'[d] = current[d]
    BY <1>0 DEF Busy, IInv, TypeInv
  <2>2. recording[current'[c].pos].kind = "query"
    BY <1>0, <1>1 DEF IInv, TypeInv
  <2> QED BY <1>0, <2>1, <2>2, SameCase, SameRecording DEF IInv, RightInv
<1> QED BY <1>2, <1>t, <1>r, <1>o, <1>i DEF IInv

LEMMA ReceiveUseKeeps == ASSUME IInv, NEW c \in Conns, ReceiveUse(c) PROVE IInv'
<1>0. /\ Receives(c, "use")
      /\ current' = [current EXCEPT ![c] = Head(chan[c])]
      /\ todo' = [todo EXCEPT ![c] = HeadOp(c).curs]
      /\ got' = [got EXCEPT ![c] = <<>>]
      /\ pc' = [pc EXCEPT ![c] = "lookup"]
      /\ UNCHANGED <<case, recording, phase, filePos, generation, cursorsSeen, info, chanState,
                     connected, incomplete, complete, crashed, sent, skips>>
  BY DEF ReceiveUse, input, playVars, replyVars, history
<1>1. /\ pc[c] = "idle" /\ chan[c] # <<>> /\ HeadOp(c).kind = "use"
      /\ chan' = [chan EXCEPT ![c] = Tail(@)]
      /\ phase # "preprocess" /\ HeadOp(c) = recording[Head(chan[c]).pos]
      /\ HeadOp(c).curs \in Seq(Cursors)
  BY <1>0, ReceiveFacts
<1>2. /\ chan' \in [Conns -> Seq(Items)] /\ (\A d \in Conns : Len(chan'[d]) <= QueueCap)
      /\ pc' \in [Conns -> Pcs] /\ current' \in [Conns -> Items \cup {NoItem}]
      /\ ConnInv'
  <2>1. \A d \in Conns : d # c => got'[d] = got[d] /\ todo'[d] = todo[d]
    BY <1>0 DEF IInv, TypeInv
  <2> QED BY <1>0, <1>1, <2>1, ConnTake
<1>3. todo' \in [Conns -> Seq(Cursors)] /\ got' \in [Conns -> Seq(Lives)]
      /\ todo'[c] = HeadOp(c).curs /\ DOMAIN got'[c] = {}
      /\ \A d \in Conns : d # c => got'[d] = got[d] /\ todo'[d] = todo[d]
  BY <1>0, <1>1 DEF IInv, TypeInv
<1>t. TypeInv'
  BY <1>0, <1>2, <1>3, SameCase DEF IInv, TypeInv
<1>r. RecordingInv' /\ QuietInv'
  BY <1>0, <1>1, LateFrame
<1>o. OnceInv'
  BY <1>0, <1>1, OnceTake DEF Pcs
<1>i. RightInv'
  <2>1. \A d \in Conns : d # c => (Busy(d)' <=> Busy(d)) /\ current'[d] = current[d]
    BY <1>0 DEF Busy, IInv, TypeInv
  <2>2. todo'[c] = recording[current'[c].pos].curs
    BY <1>0, <1>1, <1>3 DEF IInv, TypeInv
  <2>3. ASSUME NEW d \in Conns, Busy(d)', recording[current'[d].pos].kind = "use"
        PROVE  /\ \A i \in DOMAIN got'[d] : StandsFor(got'[d][i][1], current'[d].pos)
               /\ \A i \in DOMAIN todo'[d] :
                    \E j \in DOMAIN recording[current'[d].pos].curs :
                      todo'[d][i] = recording[current'[d].pos].curs[j]
    <3>1. CASE d = c
      BY <1>3, <2>2, <3>1
    <3>2. CASE d # c
      <4>1. Busy(d) /\ current'[d] = current[d] /\ got'[d] = got[d] /\ todo'[d] = todo[d]
        BY <1>3, <2>1, <2>3, <3>2
      <4>2. /\ \A i \in DOMAIN got[d] : StandsFor(got[d][i][1], current[d].pos)
            /\ \A i \in DOMAIN todo[d] :
                 \E j \in DOMAIN recording[current[d].pos].curs :
                   todo[d][i] = recording[current[d].pos].curs[j]
        BY <2>3, <4>1 DEF IInv, RightInv
      <4> QED BY <4>1, <4>2
    <3> QED BY <3>1, <3>2
  <2>4. SentCursorsAreRight'
    BY <1>0, SameRecording DEF IInv, RightInv
  <2> QED BY <1>0, <2>3, <2>4, RightStep DEF IInv, RightInv
<1> QED BY <1>2, <1>t, <1>r, <1>o, <1>i DEF IInv

(* The goroutine stays with its op: what it looks up, or what it has, may  *)
(* change.                                                                 *)
LEMMA StayFacts ==
    ASSUME IInv, NEW c \in Conns, pc[c] \in {"lookup", "await"}
    PROVE  /\ Busy(c) /\ phase # "preprocess" /\ phase # "done"
           /\ current[c].pos \in DOMAIN recording /\ recording[current[c].pos].kind = "use"
           /\ recording[current[c].pos].conn = c
           /\ todo[c] \in Seq(Cursors) /\ got[c] \in Seq(Lives)
           /\ pc[c] = "await" => todo[c] # <<>>
           /\ \A i \in DOMAIN got[c] : StandsFor(got[c][i][1], current[c].pos)
           /\ \A i \in DOMAIN todo[c] :
                \E j \in DOMAIN recording[current[c].pos].curs : todo[c][i] = recording[current[c].pos].curs[j]
<1>1. Busy(c)
  BY DEF Busy
<1>2. current[c].pos \in DOMAIN recording /\ recording[current[c].pos].kind = "use"
      /\ recording[current[c].pos].conn = c
  BY <1>1 DEF IInv, ConnInv
<1>3. phase # "preprocess" /\ phase # "done"
  BY <1>1, Running
<1>4. todo[c] \in Seq(Cursors) /\ got[c] \in Seq(Lives)
  BY DEF IInv, TypeInv
<1>5. pc[c] = "await" => todo[c] # <<>>
  BY DEF IInv, ConnInv
<1>6. \A i \in DOMAIN got[c] : StandsFor(got[c][i][1], current[c].pos)
  BY <1>1, <1>2 DEF IInv, RightInv
<1>7. \A i \in DOMAIN todo[c] :
        \E j \in DOMAIN recording[current[c].pos].curs : todo[c][i] = recording[current[c].pos].curs[j]
  BY <1>1, <1>2 DEF IInv, RightInv
<1> QED BY <1>1, <1>2, <1>3, <1>4, <1>5, <1>6, <1>7

(* It goes on with its op, or drops it.                                    *)
LEMMA StayConn ==
    ASSUME IInv, NEW c \in Conns, NEW q \in {"idle", "lookup", "await", "execute"},
           pc[c] \in {"lookup", "await"},
           UNCHANGED <<case, recording, phase, chan, chanState, current>>,
           pc' = [pc EXCEPT ![c] = q],
           \A d \in Conns : d # c => got'[d] = got[d] /\ todo'[d] = todo[d],
           q = "await" => todo'[c] # <<>>,
           q = "execute" => got'[c] # <<>>
    PROVE  ConnInv' /\ pc' \in [Conns -> Pcs] /\ phase' # "preprocess"
<1>1. /\ pc'[c] = q /\ \A d \in Conns : d # c => pc'[d] = pc[d]
      /\ pc' \in [Conns -> Pcs]
  BY DEF IInv, TypeInv, Pcs
<1>2. /\ phase # "preprocess" /\ phase # "done"
      /\ current[c].pos \in DOMAIN recording /\ recording[current[c].pos].kind = "use"
      /\ recording[current[c].pos].conn = c
  BY StayFacts
<1>3. ConnInv'
  <2> SUFFICES ASSUME NEW d \in Conns
               PROVE  (/\ chanState[d] = "open" => pc[d] # "none"
                       /\ pc[d] \in {"none", "done"} => chan[d] = <<>>
                       /\ pc[d] = "done" => chanState[d] = "closed"
                       /\ phase = "done" => pc[d] \in {"none", "done"}
                       /\ \A i \in DOMAIN chan[d] :
                            chan[d][i].pos \in DOMAIN recording /\ recording[chan[d][i].pos].conn = d
                       /\ Busy(d) =>
                            LET op == recording[current[d].pos] IN
                              /\ current[d].pos \in DOMAIN recording /\ op.conn = d
                              /\ pc[d] # "execute" => op.kind = "use"
                              /\ op.kind \in {"query", "use"}
                       /\ pc[d] = "await" => todo[d] # <<>>
                       /\ pc[d] = "execute" /\ recording[current[d].pos].kind = "use" => got[d] # <<>>)'
    BY DEF ConnInv
  <2>1. CASE d # c
    BY <1>1, <2>1 DEF IInv, ConnInv, Busy
  <2>2. CASE d = c
    BY <1>1, <1>2, <2>2 DEF IInv, ConnInv, Busy
  <2> QED BY <2>1, <2>2
<1> QED BY <1>1, <1>2, <1>3

(* Its live cursors are right if the new one is.                           *)
LEMMA StayRight ==
    ASSUME IInv, NEW c \in Conns,
           pc[c] \in {"lookup", "await"},
           UNCHANGED <<case, recording, current, incomplete, complete, sent>>,
           \A d \in Conns : d # c => pc'[d] = pc[d] /\ got'[d] = got[d] /\ todo'[d] = todo[d],
           got'[c] = got[c] \/ \E live \in Lives : /\ got'[c] = Append(got[c], live)
                                                   /\ StandsFor(live[1], current[c].pos),
           todo'[c] = todo[c] \/ (todo[c] # <<>> /\ todo'[c] = Tail(todo[c])),
           \A k \in Cursors : info'[k].live = info[k].live /\ info'[k].success = info[k].success
                                /\ (~preprocess => info'[k].mapped = info[k].mapped)
    PROVE  RightInv'
<1>0. /\ todo[c] \in Seq(Cursors) /\ got[c] \in Seq(Lives)
      /\ \A i \in DOMAIN got[c] : StandsFor(got[c][i][1], current[c].pos)
      /\ \A i \in DOMAIN todo[c] :
           \E j \in DOMAIN recording[current[c].pos].curs : todo[c][i] = recording[current[c].pos].curs[j]
  BY StayFacts
<1>1. \A i \in DOMAIN got'[c] : StandsFor(got'[c][i][1], current[c].pos)
  <2>1. CASE got'[c] = got[c]
    BY <1>0, <2>1
  <2>2. ASSUME NEW live \in Lives, got'[c] = Append(got[c], live), StandsFor(live[1], current[c].pos)
        PROVE  \A i \in DOMAIN got'[c] : StandsFor(got'[c][i][1], current[c].pos)
    <3>1. /\ DOMAIN got'[c] = DOMAIN got[c] \cup {Len(got[c]) + 1}
          /\ \A i \in DOMAIN got[c] : got'[c][i] = got[c][i]
          /\ got'[c][Len(got[c]) + 1] = live
      BY <1>0, <2>2, Appended
    <3> QED BY <1>0, <2>2, <3>1
  <2> QED BY <2>1, <2>2
<1>2. \A i \in DOMAIN todo'[c] :
        \E j \in DOMAIN recording[current[c].pos].curs : todo'[c][i] = recording[current[c].pos].curs[j]
  <2>1. CASE todo'[c] = todo[c]
    BY <1>0, <2>1
  <2>2. CASE todo[c] # <<>> /\ todo'[c] = Tail(todo[c])
    <3>1. \A i \in DOMAIN Tail(todo[c]) : i + 1 \in DOMAIN todo[c] /\ Tail(todo[c])[i] = todo[c][i + 1]
      BY <1>0, <2>2, HeadAndTail
    <3> QED BY <1>0, <2>2, <3>1
  <2> QED BY <2>1, <2>2
<1>3. ASSUME NEW d \in Conns, Busy(d)', recording[current'[d].pos].kind = "use"
      PROVE  /\ \A i \in DOMAIN got'[d] : StandsFor(got'[d][i][1], current'[d].pos)
             /\ \A i \in DOMAIN todo'[d] :
                  \E j \in DOMAIN recording[current'[d].pos].curs :
                    todo'[d][i] = recording[current'[d].pos].curs[j]
  <2>1. CASE d = c
    BY <1>1, <1>2, <2>1
  <2>2. CASE d # c
    <3>1. Busy(d) /\ current'[d] = current[d] /\ got'[d] = got[d] /\ todo'[d] = todo[d]
      BY <1>3, <2>2 DEF Busy
    <3>2. /\ \A i \in DOMAIN got[d] : StandsFor(got[d][i][1], current[d].pos)
          /\ \A i \in DOMAIN todo[d] :
               \E j \in DOMAIN recording[current[d].pos].curs :
                 todo[d][i] = recording[current[d].pos].curs[j]
      BY <1>3, <3>1 DEF IInv, RightInv
    <3> QED BY <3>1, <3>2
  <2> QED BY <2>1, <2>2
<1>4. SentCursorsAreRight'
  BY SameRecording DEF IInv, RightInv
<1>5. \A k \in Cursors :
        info'[k].success \/ (~preprocess /\ info'[k].mapped) => info'[k].live[1] \in OriginOf(k)
  BY DEF IInv, RightInv
<1> QED BY <1>3, <1>4, <1>5, RightStep DEF IInv, RightInv

(* A cursor is dropped from the op.                                        *)
LEMMA DropCursorKeeps ==
    ASSUME IInv, NEW c \in Conns, NEW k, NEW why, pc[c] \in {"lookup", "await"}, todo[c] # <<>>,
           DropCursor(c, k, why)
    PROVE  IInv'
<1>0. /\ todo' = [todo EXCEPT ![c] = Tail(todo[c])]
      /\ pc' = [pc EXCEPT ![c] = "lookup"]
      /\ UNCHANGED <<case, recording, phase, filePos, generation, cursorsSeen, info, chan, chanState, current,
                     got, connected, incomplete, complete, crashed, sent>>
  BY DEF DropCursor, input, playVars, replyVars
<1>1. Busy(c) /\ Tail(todo[c]) \in Seq(Cursors)
  BY StayFacts, HeadAndTail
<1>2. /\ todo' \in [Conns -> Seq(Cursors)] /\ todo'[c] = Tail(todo[c])
      /\ \A d \in Conns : d # c => pc'[d] = pc[d] /\ got'[d] = got[d] /\ todo'[d] = todo[d]
  BY <1>0, <1>1 DEF IInv, TypeInv
<1>c. ConnInv' /\ pc' \in [Conns -> Pcs] /\ phase' # "preprocess"
  BY <1>0, <1>2, StayConn
<1>t. TypeInv'
  BY <1>0, <1>2, <1>c, SameCase DEF IInv, TypeInv
<1>r. RecordingInv' /\ QuietInv'
  BY <1>0, <1>c, LateFrame
<1>o. OnceInv'
  BY <1>0, <1>1, OnceStep DEF Pcs
<1>i. RightInv'
  BY <1>0, <1>2, StayRight
<1> QED BY <1>c, <1>t, <1>r, <1>o, <1>i DEF IInv

LEMMA GetCursorMissingKeeps == ASSUME IInv, NEW c \in Conns, GetCursorMissing(c) PROVE IInv'
<1>1. PICK k \in Cursors : Looked(c, k) /\ DropCursor(c, k, "unknown")
  BY DEF GetCursorMissing
<1> QED BY <1>1, DropCursorKeeps DEF Looked

LEMMA GetCursorSameConnKeeps == ASSUME IInv, NEW c \in Conns, GetCursorSameConn(c) PROVE IInv'
<1>1. PICK k \in Cursors : Looked(c, k) /\ DropCursor(c, k, "sameConn")
  BY DEF GetCursorSameConn
<1> QED BY <1>1, DropCursorKeeps DEF Looked

LEMMA GetCursorFailedKeeps == ASSUME IInv, NEW c \in Conns, GetCursorFailed(c) PROVE IInv'
<1>1. pc[c] = "await" /\ DropCursor(c, Head(todo[c]), "failed")
  BY DEF GetCursorFailed
<1>2. todo[c] # <<>>
  BY <1>1, StayFacts
<1> QED BY <1>1, <1>2, DropCursorKeeps

LEMMA GetCursorBlockKeeps == ASSUME IInv, NEW c \in Conns, GetCursorBlock(c) PROVE IInv'
<1>0. /\ pc[c] = "lookup" /\ todo[c] # <<>>
      /\ pc' = [pc EXCEPT ![c] = "await"]
      /\ UNCHANGED <<case, recording, phase, filePos, generation, cursorsSeen, info, chan, chanState, current,
                     todo, got, connected, incomplete, complete, crashed, sent, skips>>
  BY DEF GetCursorBlock, Looked, input, playVars, replyVars, history
<1>1. Busy(c)
  BY <1>0, StayFacts
<1>2. \A d \in Conns : d # c => pc'[d] = pc[d] /\ got'[d] = got[d] /\ todo'[d] = todo[d]
  BY <1>0 DEF IInv, TypeInv
<1>c. ConnInv' /\ pc' \in [Conns -> Pcs] /\ phase' # "preprocess"
  BY <1>0, <1>2, StayConn
<1>t. TypeInv'
  BY <1>0, <1>c, SameCase DEF IInv, TypeInv
<1>r. RecordingInv' /\ QuietInv'
  BY <1>0, <1>c, LateFrame
<1>o. OnceInv'
  BY <1>0, <1>1, OnceStep DEF Pcs
<1>i. RightInv'
  BY <1>0, <1>2, StayRight
<1> QED BY <1>c, <1>t, <1>r, <1>o, <1>i DEF IInv

(* The live cursor of a recorded one was obtained by the request that      *)
(* created the recorded one.                                               *)
LEMMA LookedUpIsRight ==
    ASSUME IInv, NEW c \in Conns, pc[c] \in {"lookup", "await"}, todo[c] # <<>>,
           info[Head(todo[c])].success \/ (~preprocess /\ info[Head(todo[c])].mapped)
    PROVE  /\ Head(todo[c]) \in Cursors /\ info[Head(todo[c])].live \in Lives
           /\ StandsFor(info[Head(todo[c])].live[1], current[c].pos)
<1> DEFINE k == Head(todo[c])
<1>1. /\ todo[c] \in Seq(Cursors)
      /\ \A i \in DOMAIN todo[c] :
           \E j \in DOMAIN recording[current[c].pos].curs : todo[c][i] = recording[current[c].pos].curs[j]
  BY StayFacts
<1>2. k = todo[c][1] /\ 1 \in DOMAIN todo[c] /\ k \in Cursors
  BY <1>1
<1>3. info[k].live[1] \in OriginOf(k) /\ info[k].live \in Lives
  BY <1>2 DEF IInv, TypeInv, RightInv, Infos
<1> QED BY <1>1, <1>2, <1>3 DEF StandsFor

LEMMA GetCursorCachedKeeps == ASSUME IInv, NEW c \in Conns, GetCursorCached(c) PROVE IInv'
<1> DEFINE k == Head(todo[c])
<1>0. /\ pc[c] = "lookup" /\ todo[c] # <<>> /\ ~preprocess /\ info[k].mapped
      /\ got' = [got EXCEPT ![c] = Append(got[c], info[k].live)]
      /\ todo' = [todo EXCEPT ![c] = Tail(todo[c])]
      /\ UNCHANGED <<case, recording, phase, filePos, generation, cursorsSeen, info, chan, chanState, pc,
                     current, connected, incomplete, complete, crashed, sent, skips>>
  BY DEF GetCursorCached, Looked, input, playVars, replyVars, history
<1>1. info[k].live \in Lives /\ StandsFor(info[k].live[1], current[c].pos)
  BY <1>0, LookedUpIsRight
<1>2. Busy(c) /\ Tail(todo[c]) \in Seq(Cursors) /\ Append(got[c], info[k].live) \in Seq(Lives)
  BY <1>0, <1>1, StayFacts, HeadAndTail
<1> HIDE DEF k
<1>3. /\ todo' \in [Conns -> Seq(Cursors)] /\ todo'[c] = Tail(todo[c])
      /\ got' \in [Conns -> Seq(Lives)] /\ got'[c] = Append(got[c], info[k].live)
      /\ \A d \in Conns : d # c => pc'[d] = pc[d] /\ got'[d] = got[d] /\ todo'[d] = todo[d]
      /\ pc' = [pc EXCEPT ![c] = "lookup"]
  BY <1>0, <1>2 DEF IInv, TypeInv
<1>c. ConnInv' /\ pc' \in [Conns -> Pcs] /\ phase' # "preprocess"
  BY <1>0, <1>3, StayConn
<1>t. TypeInv'
  BY <1>0, <1>3, <1>c, SameCase DEF IInv, TypeInv
<1>r. RecordingInv' /\ QuietInv'
  BY <1>0, <1>c, LateFrame
<1>o. OnceInv'
  BY <1>0, <1>2, <1>3, OnceStep DEF Pcs
<1>i. RightInv'
  <2>1. \E live \in Lives : got'[c] = Append(got[c], live) /\ StandsFor(live[1], current[c].pos)
    BY <1>1, <1>3
  <2> QED BY <1>0, <1>3, <2>1, StayRight
<1> QED BY <1>c, <1>t, <1>r, <1>o, <1>i DEF IInv

(* A use is counted; the live cursor stays what it is.                     *)
LEMMA GetCursorSuccessKeeps == ASSUME IInv, NEW c \in Conns, GetCursorSuccess(c) PROVE IInv'
<1> DEFINE k == Head(todo[c])
<1>0. /\ pc[c] = "await" /\ info[k].success
      /\ info' = [info EXCEPT ![k].uses = @ - 1, ![k].mapped = info[k].uses - 1 > 0]
      /\ got' = [got EXCEPT ![c] = Append(got[c], info[k].live)]
      /\ todo' = [todo EXCEPT ![c] = Tail(todo[c])]
      /\ pc' = [pc EXCEPT ![c] = "lookup"]
      /\ UNCHANGED <<case, recording, phase, filePos, generation, cursorsSeen, chan, chanState,
                     current, connected, incomplete, complete, crashed, sent, skips>>
  BY DEF GetCursorSuccess, input, playVars, replyVars, history
<1>1. todo[c] # <<>>
  BY <1>0, StayFacts
<1>2. k \in Cursors /\ info[k].live \in Lives /\ StandsFor(info[k].live[1], current[c].pos)
  BY <1>0, <1>1, LookedUpIsRight
<1>3. Busy(c) /\ Tail(todo[c]) \in Seq(Cursors) /\ Append(got[c], info[k].live) \in Seq(Lives)
  BY <1>0, <1>1, <1>2, StayFacts, HeadAndTail
<1> HIDE DEF k
<1>4. /\ info' \in [Cursors -> Infos]
      /\ \A x \in Cursors : /\ info'[x].live = info[x].live /\ info'[x].success = info[x].success
                            /\ info'[x].fail = info[x].fail /\ info'[x].origin = info[x].origin
                            /\ x # k => info'[x] = info[x]
  <2>1. (info[k].uses - 1 > 0) \in BOOLEAN /\ info[k].uses - 1 \in Int
    BY <1>2 DEF IInv, TypeInv, Infos
  <2> DEFINE left == info[k].uses - 1
             more == left > 0
  <2>2. info' = [info EXCEPT ![k].uses = left, ![k].mapped = more]
    BY <1>0
  <2>3. left \in Int /\ more \in BOOLEAN
    BY <2>1
  <2> HIDE DEF left, more
  <2>4. info \in [Cursors -> Infos]
    BY DEF IInv, TypeInv
  <2> DEFINE h == [info[k] EXCEPT !.uses = left, !.mapped = more]
  <2>5. info' = [info EXCEPT ![k] = h]
    BY <1>2, <2>2, <2>4
  <2>6. info[k] \in Infos
    BY <1>2, <2>4
  <2>7. /\ h \in Infos /\ h.live = info[k].live /\ h.success = info[k].success
        /\ h.fail = info[k].fail /\ h.origin = info[k].origin
    BY <2>3, <2>6 DEF Infos
  <2> HIDE DEF h
  <2> QED BY <1>2, <2>4, <2>5, <2>7
<1>5. /\ todo' \in [Conns -> Seq(Cursors)] /\ todo'[c] = Tail(todo[c])
      /\ got' \in [Conns -> Seq(Lives)] /\ got'[c] = Append(got[c], info[k].live)
      /\ \A d \in Conns : d # c => pc'[d] = pc[d] /\ got'[d] = got[d] /\ todo'[d] = todo[d]
  BY <1>0, <1>3 DEF IInv, TypeInv
<1>c. ConnInv' /\ pc' \in [Conns -> Pcs] /\ phase' # "preprocess"
  BY <1>0, <1>5, StayConn
<1>t. TypeInv'
  BY <1>0, <1>4, <1>5, <1>c, SameCase DEF IInv, TypeInv
<1>r. RecordingInv' /\ QuietInv'
  BY <1>0, <1>c, LateFrame
<1>o. OnceInv'
  BY <1>0, <1>3, <1>4, OnceStep DEF Pcs
<1>i. RightInv'
  <2>1. \A d \in Conns : Busy(d)' => Busy(d)
    BY <1>0, <1>3 DEF Busy, IInv, TypeInv
  <2>2. ASSUME NEW d \in Conns, Busy(d)', recording[current'[d].pos].kind = "use"
        PROVE  /\ \A i \in DOMAIN got'[d] : StandsFor(got'[d][i][1], current'[d].pos)
               /\ \A i \in DOMAIN todo'[d] :
                    \E j \in DOMAIN recording[current'[d].pos].curs :
                      todo'[d][i] = recording[current'[d].pos].curs[j]
    <3>1. CASE d = c
      <4>1. /\ todo[c] \in Seq(Cursors) /\ got[c] \in Seq(Lives)
            /\ \A i \in DOMAIN got[c] : StandsFor(got[c][i][1], current[c].pos)
            /\ \A i \in DOMAIN todo[c] :
                 \E j \in DOMAIN recording[current[c].pos].curs : todo[c][i] = recording[current[c].pos].curs[j]
        BY <1>0, StayFacts
      <4>2. /\ DOMAIN got'[c] = DOMAIN got[c] \cup {Len(got[c]) + 1}
            /\ \A i \in DOMAIN got[c] : got'[c][i] = got[c][i]
            /\ got'[c][Len(got[c]) + 1] = info[k].live
        BY <1>2, <1>5, <4>1, Appended
      <4>3. \A i \in DOMAIN todo'[c] : i + 1 \in DOMAIN todo[c] /\ todo'[c][i] = todo[c][i + 1]
        BY <1>1, <1>5, <4>1, HeadAndTail
      <4>4. current'[c] = current[c]
        BY <1>0
      <4> QED BY <1>2, <3>1, <4>1, <4>2, <4>3, <4>4
    <3>2. CASE d # c
      <4>1. Busy(d) /\ current'[d] = current[d] /\ got'[d] = got[d] /\ todo'[d] = todo[d]
        BY <1>0, <1>5, <2>1, <2>2, <3>2
      <4>2. /\ \A i \in DOMAIN got[d] : StandsFor(got[d][i][1], current[d].pos)
            /\ \A i \in DOMAIN todo[d] :
                 \E j \in DOMAIN recording[current[d].pos].curs :
                   todo[d][i] = recording[current[d].pos].curs[j]
        BY <2>2, <4>1 DEF IInv, RightInv
      <4> QED BY <4>1, <4>2
    <3> QED BY <3>1, <3>2
  <2>3. SentCursorsAreRight'
    BY <1>0, SameRecording DEF IInv, RightInv
  <2>4. \A x \in Cursors :
          info'[x].success \/ (~preprocess /\ info'[x].mapped) => info'[x].live[1] \in OriginOf(x)
    BY <1>0, <1>4 DEF IInv, RightInv
  <2> QED BY <1>0, <2>2, <2>3, <2>4, RightStep DEF IInv, RightInv
<1> QED BY <1>c, <1>t, <1>r, <1>o, <1>i DEF IInv

(* The op is sent with the cursors that were found, if any.                *)
LEMMA rewriteCursorsKeeps == ASSUME IInv, NEW c \in Conns, rewriteCursors(c) PROVE IInv'
<1> DEFINE q == IF got[c] = <<>> THEN "idle" ELSE "execute"
<1>0. /\ pc[c] = "lookup"
      /\ pc' = [pc EXCEPT ![c] = q]
      /\ sent' = sent \cup {[pos |-> current[c].pos, gen |-> current[c].gen, live |-> got[c][i]] :
                            i \in DOMAIN got[c]}
      /\ UNCHANGED <<case, recording, phase, filePos, generation, cursorsSeen, info, chan, chanState, current,
                     todo, got, connected, incomplete, complete, crashed, skips>>
  BY DEF rewriteCursors, input, playVars, replyVars
<1>1. /\ Busy(c) /\ \A i \in DOMAIN got[c] : StandsFor(got[c][i][1], current[c].pos)
  BY <1>0, StayFacts
<1>2. q \in {"idle", "execute"} /\ (q = "execute" => got[c] # <<>>)
  OBVIOUS
<1> HIDE DEF q
<1>3. \A d \in Conns : d # c => pc'[d] = pc[d] /\ got'[d] = got[d] /\ todo'[d] = todo[d]
  BY <1>0 DEF IInv, TypeInv
<1>c. ConnInv' /\ pc' \in [Conns -> Pcs] /\ phase' # "preprocess"
  BY <1>0, <1>2, <1>3, StayConn
<1>t. TypeInv'
  BY <1>0, <1>c, SameCase DEF IInv, TypeInv
<1>r. RecordingInv' /\ QuietInv'
  BY <1>0, <1>c, LateFrame
<1>o. OnceInv'
  BY <1>0, <1>1, <1>2, OnceStep DEF Pcs
<1>i. RightInv'
  <2>1. \A d \in Conns : Busy(d)' => Busy(d)
    BY <1>0, <1>1 DEF Busy, IInv, TypeInv
  <2>2. \A s \in sent' : StandsFor(s.live[1], s.pos)
    <3>1. \A s \in sent : StandsFor(s.live[1], s.pos)
      BY DEF IInv, RightInv, SentCursorsAreRight, StandsFor
    <3> QED BY <1>0, <1>1, <3>1
  <2>3. SentCursorsAreRight'
    <3>1. \A s \in sent' : StandsFor(s.live[1], s.pos)'
      BY <1>0, <2>2, SameRecording
    <3> QED BY <3>1 DEF SentCursorsAreRight, StandsFor
  <2>4. ASSUME NEW d \in Conns, Busy(d)', recording[current'[d].pos].kind = "use"
        PROVE  /\ \A i \in DOMAIN got'[d] : StandsFor(got'[d][i][1], current'[d].pos)
               /\ \A i \in DOMAIN todo'[d] :
                    \E j \in DOMAIN recording[current'[d].pos].curs :
                      todo'[d][i] = recording[current'[d].pos].curs[j]
    BY <1>0, <2>1, <2>4 DEF IInv, RightInv
  <2> QED BY <1>0, <2>3, <2>4, RightStep DEF IInv, RightInv
<1> QED BY <1>c, <1>t, <1>r, <1>o, <1>i DEF IInv

-----------------------------------------------------------------------------
(* Replies.                                                                *)

(* A recorded reply answers a request, and carries one cursor if any: one  *)
(* that it creates or that was asked for.                                  *)
LEMMA ReplyFacts ==
    ASSUME IInv, NEW i \in DOMAIN recording, recording[i].kind = "reply"
    PROVE  /\ recording[i].to \in DOMAIN recording
           /\ recording[i].curs # <<>> =>
                \E k \in Cursors :
                  /\ recording[i].curs = <<k>>
                  /\ recording[recording[i].to].kind = "query" \/ recording[recording[i].to].curs = <<k>>
BY DEF IInv, RecordingInv

(* The halves of one request belong together: the live cursor was obtained *)
(* by the request that created the recorded one.                           *)
LEMMA PairIsRight ==
    ASSUME IInv, NEW f, NEW w, f.from = "file", w.from = "wire", f.key = w.key,
           HalfIsRight(f), HalfIsRight(w)
    PROVE  f.file \in Cursors /\ w.live[1] \in OriginOf(f.file)
<1> DEFINE q == f.key.pos
<1>1. PICK r \in DOMAIN recording :
        recording[r].kind = "reply" /\ recording[r].to = q /\ recording[r].curs = <<f.file>>
  BY DEF HalfIsRight
<1>2. PICK k \in Cursors :
        /\ recording[r].curs = <<k>>
        /\ recording[q].kind = "query" \/ recording[q].curs = <<k>>
  <2>1. recording[r].curs # <<>>
    BY <1>1
  <2>2. \E k \in Cursors :
          /\ recording[r].curs = <<k>>
          /\ recording[recording[r].to].kind = "query" \/ recording[recording[r].to].curs = <<k>>
    BY <1>1, <2>1, ReplyFacts
  <2> HIDE DEF q
  <2> QED BY <1>1, <2>2
<1>3. f.file = k
  BY <1>1, <1>2
<1>4. CASE recording[q].kind = "query"
  <2>1. w.live[1] = q
    BY <1>4 DEF HalfIsRight
  <2>2. Creates(r, k)
    BY <1>1, <1>2, <1>4 DEF Creates
  <2> QED BY <1>1, <1>3, <2>1, <2>2 DEF OriginOf
<1>5. CASE recording[q].kind # "query"
  <2>1. recording[q].curs = <<k>> /\ StandsFor(w.live[1], q)
    BY <1>2, <1>5 DEF HalfIsRight
  <2>2. PICK j \in DOMAIN recording[q].curs : w.live[1] \in OriginOf(recording[q].curs[j])
    BY <2>1 DEF StandsFor
  <2>3. recording[q].curs[j] = k
    BY <2>1, <2>2
  <2> QED BY <1>3, <2>2, <2>3
<1> QED BY <1>4, <1>5

(* A right half makes a right pair, or waits.                              *)
LEMMA completeReplyKeeps ==
    ASSUME IInv, NEW key \in Items, NEW from \in {"file", "wire"}, NEW file \in Cursors \cup {0},
           NEW live \in Lives,
           HalfIsRight([key |-> key, from |-> from, file |-> file, live |-> live]),
           completeReply(key, from, file, live)
    PROVE  /\ incomplete' \subseteq Halves /\ complete' \subseteq Pairs
           /\ \A h \in incomplete' : HalfIsRight(h)
           /\ \A p \in complete' : p.live[1] \in OriginOf(p.file)
<1> DEFINE half == [key |-> key, from |-> from, file |-> file, live |-> live]
           pair(h) == IF from = "file" THEN [file |-> file, live |-> h.live]
                                       ELSE [file |-> h.file, live |-> live]
<1>0. /\ incomplete \subseteq Halves /\ complete \subseteq Pairs
      /\ \A h \in incomplete : HalfIsRight(h)
      /\ \A p \in complete : p.live[1] \in OriginOf(p.file)
  BY DEF IInv, TypeInv, RightInv
<1>1. half \in Halves
  BY DEF Halves
<1>2. CASE /\ incomplete' = (incomplete \ {h \in incomplete : h.key = key /\ h.from = from}) \cup {half}
           /\ complete' = complete
  BY <1>0, <1>1, <1>2
<1>3. ASSUME NEW h \in incomplete, h.key = key, h.from # from,
             complete' = complete \cup {pair(h)}, incomplete' = incomplete \ {h}
      PROVE  /\ incomplete' \subseteq Halves /\ complete' \subseteq Pairs
             /\ \A x \in incomplete' : HalfIsRight(x)
             /\ \A p \in complete' : p.live[1] \in OriginOf(p.file)
  <2>0. h.from \in {"file", "wire"} /\ h.live \in Lives /\ HalfIsRight(h)
    BY <1>0 DEF Halves
  <2>1. CASE from = "file"
    <3>1. half.file \in Cursors /\ h.live[1] \in OriginOf(half.file)
      BY <1>3, <2>0, <2>1, PairIsRight
    <3>2. pair(h) \in Pairs /\ pair(h).live[1] \in OriginOf(pair(h).file)
      BY <2>0, <2>1, <3>1 DEF Pairs
    <3> QED BY <1>0, <1>3, <3>2
  <2>2. CASE from = "wire"
    <3>1. h.file \in Cursors /\ half.live[1] \in OriginOf(h.file)
      BY <1>3, <2>0, <2>2, PairIsRight
    <3>2. pair(h) \in Pairs /\ pair(h).live[1] \in OriginOf(pair(h).file)
      BY <2>0, <2>2, <3>1 DEF Pairs
    <3> QED BY <1>0, <1>3, <3>2
  <2> QED BY <2>1, <2>2
<1> QED BY <1>2, <1>3 DEF completeReply

(* A goroutine is done with its op.                                        *)
LEMMA LeaveConn ==
    ASSUME IInv, NEW c \in Conns, NEW q \in {"idle", "handle"},
           pc[c] \notin {"none", "done"},
           UNCHANGED <<case, recording, phase, chan, chanState, current, got, todo>>,
           pc' = [pc EXCEPT ![c] = q]
    PROVE  ConnInv' /\ pc' \in [Conns -> Pcs] /\ phase' # "preprocess"
<1>1. /\ pc'[c] = q /\ \A d \in Conns : d # c => pc'[d] = pc[d]
      /\ pc' \in [Conns -> Pcs]
  BY DEF IInv, TypeInv, Pcs
<1>2. phase # "preprocess" /\ phase # "done"
  BY Running
<1>3. ConnInv'
  BY <1>1, <1>2 DEF IInv, ConnInv, Busy
<1> QED BY <1>1, <1>2, <1>3

(* And has nothing to say of cursors any more.                             *)
LEMMA LeaveRight ==
    ASSUME IInv, NEW c \in Conns, NEW q \in {"idle", "handle"},
           UNCHANGED <<case, recording, got, todo, sent>>,
           \A d \in Conns : d # c => current'[d] = current[d],
           pc' = [pc EXCEPT ![c] = q],
           \A h \in incomplete' : HalfIsRight(h),
           \A p \in complete' : p.live[1] \in OriginOf(p.file),
           \A k \in Cursors :
             info'[k].success \/ (~preprocess /\ info'[k].mapped) => info'[k].live[1] \in OriginOf(k)
    PROVE  RightInv'
<1>1. \A d \in Conns : Busy(d)' => Busy(d) /\ current'[d] = current[d]
  BY DEF Busy, IInv, TypeInv
<1>2. ASSUME NEW d \in Conns, Busy(d)', recording[current'[d].pos].kind = "use"
      PROVE  /\ \A i \in DOMAIN got'[d] : StandsFor(got'[d][i][1], current'[d].pos)
             /\ \A i \in DOMAIN todo'[d] :
                  \E j \in DOMAIN recording[current'[d].pos].curs :
                    todo'[d][i] = recording[current'[d].pos].curs[j]
  BY <1>1, <1>2 DEF IInv, RightInv
<1>3. SentCursorsAreRight'
  BY SameRecording DEF IInv, RightInv
<1> QED BY <1>2, <1>3, RightStep

(* A recorded reply.                                                       *)
LEMMA AddFromFileKeeps == ASSUME IInv, NEW c \in Conns, AddFromFile(c) PROVE IInv'
<1> DEFINE op == HeadOp(c)
           key == [pos |-> op.to, gen |-> Head(chan[c]).gen]
<1>0. /\ Receives(c, "reply")
      /\ IF op.curs = <<>> THEN UNCHANGED <<incomplete, complete>>
         ELSE completeReply(key, "file", op.curs[1], NoLive)
      /\ pc' = [pc EXCEPT ![c] = "handle"]
      /\ UNCHANGED <<case, recording, phase, filePos, generation, cursorsSeen, info, chanState, current,
                     todo, got, connected, crashed, sent, skips>>
  BY DEF AddFromFile, input, playVars, replyVars, history
<1>1. /\ pc[c] = "idle" /\ chan[c] # <<>> /\ op.kind = "reply"
      /\ chan' = [chan EXCEPT ![c] = Tail(@)]
      /\ phase # "preprocess" /\ op = recording[Head(chan[c]).pos]
      /\ op.curs \in Seq(Cursors)
      /\ Head(chan[c]) \in Items /\ Head(chan[c]).pos \in DOMAIN recording
  BY <1>0, ReceiveFacts
<1>2. /\ chan' \in [Conns -> Seq(Items)] /\ (\A d \in Conns : Len(chan'[d]) <= QueueCap)
      /\ pc' \in [Conns -> Pcs] /\ current' \in [Conns -> Items \cup {NoItem}]
      /\ ConnInv'
  BY <1>0, <1>1, ConnTake
<1>3. /\ incomplete' \subseteq Halves /\ complete' \subseteq Pairs
      /\ \A h \in incomplete' : HalfIsRight(h)
      /\ \A p \in complete' : p.live[1] \in OriginOf(p.file)
  <2>1. CASE op.curs = <<>>
    BY <1>0, <2>1 DEF IInv, TypeInv, RightInv
  <2>2. CASE op.curs # <<>>
    <3>1. PICK k \in Cursors : op.curs = <<k>>
      <4>1. recording[Head(chan[c]).pos].kind = "reply" /\ recording[Head(chan[c]).pos].curs # <<>>
        BY <1>1, <2>2
      <4>2. \E k \in Cursors : recording[Head(chan[c]).pos].curs = <<k>>
        BY <1>1, <4>1, ReplyFacts
      <4> HIDE DEF op
      <4> QED BY <1>1, <4>2
    <3>2. op.to \in DOMAIN recording /\ op.to \in Positions
      <4>1. op.to \in DOMAIN recording
        BY <1>1, ReplyFacts
      <4>2. MaxOps \in Nat
        BY CaseFacts DEF IInv, TypeInv
      <4> QED BY <4>1, <4>2 DEF IInv, TypeInv, Positions
    <3>3. key \in Items /\ key.pos = op.to
      BY <1>1, <3>2 DEF Items
    <3>4. NoLive \in Lives
      BY DEF Lives
    <3>5. op.curs[1] = k
      BY <3>1
    <3> HIDE DEF op, key
    <3>6. HalfIsRight([key |-> key, from |-> "file", file |-> k, live |-> NoLive])
      BY <1>1, <3>1, <3>2, <3>3 DEF HalfIsRight
    <3>7. completeReply(key, "file", k, NoLive)
      BY <1>0, <2>2, <3>5
    <3> QED BY <3>3, <3>4, <3>6, <3>7, completeReplyKeeps
  <2> QED BY <2>1, <2>2
<1>t. TypeInv'
  BY <1>0, <1>2, <1>3, SameCase DEF IInv, TypeInv
<1>r. RecordingInv' /\ QuietInv'
  BY <1>0, <1>1, LateFrame
<1>o. OnceInv'
  BY <1>0, <1>1, OnceTake DEF Pcs
<1>i. RightInv'
  BY <1>0, <1>3, LeaveRight DEF IInv, RightInv
<1> QED BY <1>2, <1>t, <1>r, <1>o, <1>i DEF IInv

(* The live reply.                                                         *)
LEMMA ExecuteRepliesKeeps == ASSUME IInv, NEW c \in Conns, ExecuteReplies(c) PROVE IInv'
<1> DEFINE pos == current[c].pos
<1>0. /\ pc[c] = "execute"
      /\ pc' = [pc EXCEPT ![c] = "handle"]
      /\ UNCHANGED <<case, recording, phase, filePos, generation, cursorsSeen, info, chan, chanState, current,
                     todo, got, connected, crashed, sent, skips>>
  BY DEF ExecuteReplies, input, playVars, history
<1>1. PICK live \in LiveCursors(c) :
        IF live = NoLive THEN UNCHANGED <<incomplete, complete>>
        ELSE completeReply(current[c], "wire", 0, live)
  BY DEF ExecuteReplies, replyVars
<1>2. Busy(c) /\ pos \in DOMAIN recording /\ recording[pos].kind \in {"query", "use"}
      /\ (recording[pos].kind = "use" => got[c] # <<>>)
  BY <1>0 DEF IInv, ConnInv, Busy
<1>3. current[c] \in Items
  BY <1>2 DEF IInv, TypeInv, NoItem
<1>4. \/ live = NoLive
      \/ recording[pos].kind = "query" /\ live = <<pos, current[c].gen>>
      \/ recording[pos].kind = "use" /\ live = Head(got[c])
  BY <1>2 DEF LiveCursors
<1>5. /\ incomplete' \subseteq Halves /\ complete' \subseteq Pairs
      /\ \A h \in incomplete' : HalfIsRight(h)
      /\ \A p \in complete' : p.live[1] \in OriginOf(p.file)
  <2>1. CASE live = NoLive
    BY <1>1, <2>1 DEF IInv, TypeInv, RightInv
  <2>2. CASE live # NoLive
    <3>1. live \in Lives /\ IF recording[pos].kind = "query" THEN live[1] = pos ELSE StandsFor(live[1], pos)
      <4>1. CASE recording[pos].kind = "query" /\ live = <<pos, current[c].gen>>
        BY <1>3, <4>1 DEF Items, Lives
      <4>2. CASE recording[pos].kind = "use" /\ live = Head(got[c])
        <5>1. got[c] \in Seq(Lives) /\ got[c] # <<>>
          BY <1>2, <4>2 DEF IInv, TypeInv
        <5>2. live = got[c][1] /\ 1 \in DOMAIN got[c] /\ live \in Lives
          BY <4>2, <5>1
        <5>3. StandsFor(got[c][1][1], pos)
          BY <1>2, <4>2, <5>2 DEF IInv, RightInv
        <5> QED BY <4>2, <5>2, <5>3
      <4> QED BY <1>4, <2>2, <4>1, <4>2
    <3>2. HalfIsRight([key |-> current[c], from |-> "wire", file |-> 0, live |-> live])
      BY <1>2, <3>1 DEF HalfIsRight
    <3>3. completeReply(current[c], "wire", 0, live)
      BY <1>1, <2>2
    <3> QED BY <1>3, <3>1, <3>2, <3>3, completeReplyKeeps
  <2> QED BY <2>1, <2>2
<1>c. ConnInv' /\ pc' \in [Conns -> Pcs] /\ phase' # "preprocess"
  BY <1>0, LeaveConn
<1>t. TypeInv'
  BY <1>0, <1>5, <1>c, SameCase DEF IInv, TypeInv
<1>r. RecordingInv' /\ QuietInv'
  BY <1>0, <1>c, LateFrame
<1>o. OnceInv'
  BY <1>0, OnceStep DEF Pcs
<1>i. RightInv'
  BY <1>0, <1>5, LeaveRight DEF IInv, RightInv
<1> QED BY <1>c, <1>t, <1>r, <1>o, <1>i DEF IInv

-----------------------------------------------------------------------------
(* Failures, what was learnt, and the end.                                 *)

(* Whose goroutine executes an op, and who is gone with it: in a single    *)
(* playback no other goroutine and no channel holds the op.                *)
LEMMA ExecutedIsGone ==
    ASSUME IInv, NEW c \in Conns, Busy(c), Repeat = 1
    PROVE  /\ ~Gone(current[c].pos)
           /\ current[c].pos < filePos
           /\ \A d \in Conns :
                /\ \A i \in DOMAIN chan[d] : chan[d][i].pos # current[c].pos
                /\ Busy(d) /\ d # c => current[d].pos # current[c].pos
<1> DEFINE p == current[c].pos
<1>1. ~Gone(p)
  BY DEF Gone
<1>2. p < filePos /\ \A i \in DOMAIN chan[c] : p < chan[c][i].pos
  BY DEF IInv, OnceInv
<1>3. p \in Int /\ recording[p].conn = c
  BY DEF IInv, TypeInv, ConnInv
<1>4. \A i \in DOMAIN chan[c] : chan[c][i].pos # p
  <2>1. \A i \in DOMAIN chan[c] : p < chan[c][i].pos
    BY <1>2
  <2>2. \A i \in DOMAIN chan[c] : chan[c][i].pos \in Int
    BY DEF IInv, TypeInv, ConnInv
  <2> QED BY <1>3, <2>1, <2>2
<1>5. ASSUME NEW d \in Conns, d # c
      PROVE  /\ \A i \in DOMAIN chan[d] : chan[d][i].pos # p
             /\ Busy(d) => current[d].pos # p
  <2>1. \A i \in DOMAIN chan[d] : recording[chan[d][i].pos].conn = d
    BY DEF IInv, ConnInv
  <2>2. Busy(d) => recording[current[d].pos].conn = d
    BY DEF IInv, ConnInv
  <2> QED BY <1>3, <1>5, <2>1, <2>2
<1> QED BY <1>1, <1>2, <1>4, <1>5

(* An op that fails takes the cursor it would have created with it, and    *)
(* none can fail a second time.                                            *)
LEMMA ExecuteFailsKeeps == ASSUME IInv, NEW c \in Conns, ExecuteFails(c) PROVE IInv'
<1> DEFINE pos == current[c].pos
           failed == {k \in Cursors : preprocess /\ info[k].mapped /\ info[k].origin = pos}
<1>0. /\ pc[c] = "execute" /\ ~crashed
      /\ pc' = [pc EXCEPT ![c] = "idle"]
      /\ info' = [k \in Cursors |-> IF k \in failed THEN [info[k] EXCEPT !.fail = TRUE] ELSE info[k]]
      /\ crashed' = (\E k \in failed : info[k].fail)
      /\ UNCHANGED <<case, recording, phase, filePos, generation, cursorsSeen, chan, chanState, current,
                     todo, got, connected, incomplete, complete, sent, skips>>
  BY DEF ExecuteFails, MarkFailed, input, playVars, replyVars, history
<1>1. failed \subseteq Cursors /\ \A k \in failed : info[k].origin = pos
  OBVIOUS
<1> HIDE DEF failed
<1>2. /\ info' \in [Cursors -> Infos]
      /\ \A k \in Cursors : /\ info'[k].success = info[k].success /\ info'[k].mapped = info[k].mapped
                            /\ info'[k].live = info[k].live /\ info'[k].origin = info[k].origin
                            /\ info'[k].fail => info[k].fail \/ k \in failed
  <2>1. ASSUME NEW k \in Cursors
        PROVE  /\ info'[k] \in Infos
               /\ info'[k].success = info[k].success /\ info'[k].mapped = info[k].mapped
               /\ info'[k].live = info[k].live /\ info'[k].origin = info[k].origin
               /\ info'[k].fail => info[k].fail \/ k \in failed
    <3>1. info[k] \in Infos
      BY DEF IInv, TypeInv
    <3>2. CASE k \in failed
      BY <1>0, <3>1, <3>2 DEF Infos
    <3>3. CASE k \notin failed
      BY <1>0, <3>1, <3>3
    <3> QED BY <3>2, <3>3
  <2> QED BY <1>0, <2>1
<1>3. Busy(c) /\ ~Busy(c)' /\ \A d \in Conns : Busy(d)' => Busy(d) /\ d # c
  BY <1>0 DEF IInv, TypeInv, Busy
<1>c. ConnInv' /\ pc' \in [Conns -> Pcs] /\ phase' # "preprocess"
  BY <1>0, LeaveConn
<1>t. TypeInv'
  BY <1>0, <1>2, <1>c, SameCase DEF IInv, TypeInv
<1>r. RecordingInv' /\ QuietInv'
  BY <1>0, <1>c, LateFrame
<1>o. OnceInv'
  <2>0. Repeat' = Repeat
    BY <1>0, SameCase
  <2> SUFFICES ASSUME Repeat = 1 PROVE OnceInv'
    BY <2>0 DEF OnceInv
  <2>1. \A p : Gone(p) => Gone(p)'
    BY <1>0, <1>3 DEF Gone
  <2>2. /\ ~Gone(pos) /\ pos < filePos
        /\ \A d \in Conns :
             /\ \A i \in DOMAIN chan[d] : chan[d][i].pos # pos
             /\ Busy(d) /\ d # c => current[d].pos # pos
    BY <1>3, ExecutedIsGone
  <2>3. Gone(pos)'
    BY <1>0, <1>3, <2>2 DEF Gone
  <2>4. \A k \in Cursors : (info[k].fail => Gone(info[k].origin))'
    <3> SUFFICES ASSUME NEW k \in Cursors, info'[k].fail PROVE Gone(info[k].origin)'
      OBVIOUS
    <3>1. ASSUME NEW p, Gone(p)', info'[k].origin = p PROVE Gone(info[k].origin)'
      BY <3>1 DEF Gone
    <3>2. CASE info[k].fail
      <4>1. Gone(info[k].origin)
        BY <3>2 DEF IInv, OnceInv
      <4>2. info'[k].origin = info[k].origin
        BY <1>2
      <4> QED BY <2>1, <3>1, <4>1, <4>2
    <3>3. CASE k \in failed
      <4>1. info'[k].origin = pos
        BY <1>1, <1>2, <3>3
      <4> QED BY <1>0, <2>3, <4>1 DEF Gone
    <3> QED BY <1>2, <3>2, <3>3
  <2>5. ~crashed'
    BY <1>0, <1>1, <2>2 DEF IInv, OnceInv
  <2>6. \A d \in Conns :
          /\ \A i \in DOMAIN chan[d] : chan[d][i].pos < filePos
          /\ \A i, j \in DOMAIN chan[d] : i < j => chan[d][i].pos < chan[d][j].pos
          /\ Busy(d) => /\ current[d].pos < filePos
                        /\ \A i \in DOMAIN chan[d] : current[d].pos < chan[d][i].pos
    BY DEF IInv, OnceInv
  <2> QED BY <1>0, <1>3, <2>4, <2>5, <2>6 DEF OnceInv
<1>i. RightInv'
  <2>1. /\ \A h \in incomplete : HalfIsRight(h)
        /\ \A p \in complete : p.live[1] \in OriginOf(p.file)
        /\ \A k \in Cursors :
             info[k].success \/ (~preprocess /\ info[k].mapped) => info[k].live[1] \in OriginOf(k)
    BY DEF IInv, RightInv
  <2>2. \A k \in Cursors :
          info'[k].success \/ (~preprocess /\ info'[k].mapped) => info'[k].live[1] \in OriginOf(k)
    BY <1>2, <2>1
  <2> QED BY <1>0, <2>1, <2>2, LeaveRight
<1> QED BY <1>c, <1>t, <1>r, <1>o, <1>i DEF IInv

(* What the pairs tell the cursor manager is right.                        *)
LEMMA SetCursorIsRight ==
    ASSUME IInv, NEW k \in Cursors, NEW p \in complete, p.file = k
    PROVE  LET i == SetCursor(info[k], p.live) IN
             /\ i \in Infos /\ i.fail = info[k].fail /\ i.origin = info[k].origin
             /\ i.success \/ (~preprocess /\ i.mapped) => i.live[1] \in OriginOf(k)
<1>1. info[k] \in Infos /\ p.live \in Lives
  BY DEF IInv, TypeInv, Pairs
<1>2. p.live[1] \in OriginOf(k)
  BY DEF IInv, RightInv
<1>3. info[k].success \/ (~preprocess /\ info[k].mapped) => info[k].live[1] \in OriginOf(k)
  BY DEF IInv, RightInv
<1>4. CASE ~preprocess
  <2> DEFINE i == [info[k] EXCEPT !.mapped = TRUE, !.live = p.live]
  <2>1. SetCursor(info[k], p.live) = i
    BY <1>4 DEF SetCursor
  <2>2. i \in Infos /\ i.fail = info[k].fail /\ i.origin = info[k].origin /\ i.live = p.live
    BY <1>1 DEF Infos
  <2> QED BY <1>2, <2>1, <2>2
<1>5. CASE preprocess /\ info[k].mapped /\ ~info[k].success
  <2> DEFINE i == [info[k] EXCEPT !.success = TRUE, !.live = p.live]
  <2>1. SetCursor(info[k], p.live) = i
    BY <1>5 DEF SetCursor
  <2>2. i \in Infos /\ i.fail = info[k].fail /\ i.origin = info[k].origin /\ i.live = p.live
    BY <1>1 DEF Infos
  <2> QED BY <1>2, <2>1, <2>2
<1>6. CASE preprocess /\ ~(info[k].mapped /\ ~info[k].success)
  BY <1>1, <1>3, <1>6 DEF SetCursor
<1> QED BY <1>4, <1>5, <1>6

LEMMA handleCompletedRepliesKeeps == ASSUME IInv, NEW c \in Conns, handleCompletedReplies(c) PROVE IInv'
<1>0. /\ pc[c] = "handle"
      /\ pc' = [pc EXCEPT ![c] = "idle"] /\ complete' = {}
      /\ UNCHANGED <<case, recording, phase, filePos, generation, cursorsSeen, chan, chanState, current,
                     todo, got, connected, incomplete, crashed, sent, skips>>
  BY DEF handleCompletedReplies, input, playVars, history
<1>1. PICK pick \in [{p.file : p \in complete} -> complete] :
        /\ \A k \in DOMAIN pick : pick[k].file = k
        /\ info' = [k \in Cursors |-> IF k \in DOMAIN pick THEN SetCursor(info[k], pick[k].live)
                                                          ELSE info[k]]
  BY DEF handleCompletedReplies
<1>2. /\ info' \in [Cursors -> Infos]
      /\ \A k \in Cursors :
           /\ info'[k].fail = info[k].fail /\ info'[k].origin = info[k].origin
           /\ info'[k].success \/ (~preprocess /\ info'[k].mapped) => info'[k].live[1] \in OriginOf(k)
  <2>1. ASSUME NEW k \in Cursors
        PROVE  /\ info'[k] \in Infos
               /\ info'[k].fail = info[k].fail /\ info'[k].origin = info[k].origin
               /\ info'[k].success \/ (~preprocess /\ info'[k].mapped) => info'[k].live[1] \in OriginOf(k)
    <3>1. CASE k \in DOMAIN pick
      <4>1. pick[k] \in complete /\ pick[k].file = k
        BY <1>1, <3>1
      <4>2. info'[k] = SetCursor(info[k], pick[k].live)
        BY <1>1, <3>1
      <4> QED BY <4>1, <4>2, SetCursorIsRight
    <3>2. CASE k \notin DOMAIN pick
      <4>1. info'[k] = info[k]
        BY <1>1, <3>2
      <4> QED BY <4>1 DEF IInv, TypeInv, RightInv
    <3> QED BY <3>1, <3>2
  <2> QED BY <1>1, <2>1
<1>c. ConnInv' /\ pc' \in [Conns -> Pcs] /\ phase' # "preprocess"
  BY <1>0, LeaveConn
<1>t. TypeInv'
  BY <1>0, <1>2, <1>c, SameCase DEF IInv, TypeInv
<1>r. RecordingInv' /\ QuietInv'
  BY <1>0, <1>c, LateFrame
<1>o. OnceInv'
  BY <1>0, <1>2, OnceStep DEF Pcs
<1>i. RightInv'
  <2>1. \A h \in incomplete : HalfIsRight(h)
    BY DEF IInv, RightInv
  <2> QED BY <1>0, <1>2, <2>1, LeaveRight
<1> QED BY <1>c, <1>t, <1>r, <1>o, <1>i DEF IInv

(* A goroutine ends with its channel closed and empty.                     *)
LEMMA ConnectionEndsKeeps == ASSUME IInv, NEW c \in Conns, ConnectionEnds(c) PROVE IInv'
<1>0. /\ pc[c] = "idle" /\ chan[c] = <<>> /\ chanState[c] = "closed"
      /\ pc' = [pc EXCEPT ![c] = "done"]
      /\ UNCHANGED <<case, recording, phase, filePos, generation, cursorsSeen, info, chan, chanState, current,
                     todo, got, connected, incomplete, complete, crashed, sent, skips>>
  BY DEF ConnectionEnds, input, playVars, replyVars, history
<1>1. /\ pc'[c] = "done" /\ \A d \in Conns : d # c => pc'[d] = pc[d]
      /\ pc' \in [Conns -> Pcs]
      /\ \A d \in Conns : Busy(d)' => Busy(d)
  BY <1>0 DEF IInv, TypeInv, Pcs, Busy
<1>2. phase # "preprocess" /\ phase # "done"
  BY <1>0, Running
<1>c. ConnInv'
  <2>1. DOMAIN chan[c] = {}
    BY <1>0
  <2> QED BY <1>0, <1>1, <1>2, <2>1 DEF IInv, ConnInv, Busy
<1>t. TypeInv'
  BY <1>0, <1>1, SameCase DEF IInv, TypeInv
<1>r. RecordingInv' /\ QuietInv'
  BY <1>0, <1>2, LateFrame
<1>o. OnceInv'
  BY <1>0, OnceStep DEF Pcs
<1>i. RightInv'
  <2>1. ASSUME NEW d \in Conns, Busy(d)', recording[current'[d].pos].kind = "use"
        PROVE  /\ \A i \in DOMAIN got'[d] : StandsFor(got'[d][i][1], current'[d].pos)
               /\ \A i \in DOMAIN todo'[d] :
                    \E j \in DOMAIN recording[current'[d].pos].curs :
                      todo'[d][i] = recording[current'[d].pos].curs[j]
    BY <1>0, <1>1, <2>1 DEF IInv, RightInv
  <2>2. SentCursorsAreRight'
    BY <1>0, SameRecording DEF IInv, RightInv
  <2> QED BY <1>0, <2>1, <2>2, RightStep DEF IInv, RightInv
<1> QED BY <1>c, <1>t, <1>r, <1>o, <1>i DEF IInv

(* What a cache forgets was not wrong.                                     *)
LEMMA ExpireKeeps == ASSUME IInv, Expire PROVE IInv'
<1>0. /\ phase \in {"dispatch", "wait"} /\ incomplete' \subseteq incomplete
      /\ UNCHANGED <<case, recording, phase, filePos, generation, cursorsSeen, chan, chanState, pc, current,
                     todo, got, connected, complete, crashed, sent, skips>>
  BY DEF Expire, input, playVars, connVars, history
<1>1. info' = info \/ \E k \in Cursors : info' = [info EXCEPT ![k] = NoInfo]
  BY DEF Expire
<1>2. /\ info' \in [Cursors -> Infos]
      /\ \A k \in Cursors : info'[k] = info[k] \/ info'[k] = NoInfo
  <2>1. NoInfo \in Infos
    BY DefaultsAreTyped DEF IInv, TypeInv
  <2> QED BY <1>1, <2>1 DEF IInv, TypeInv
<1>3. ~NoInfo.fail /\ ~NoInfo.success /\ ~NoInfo.mapped
  BY DEF NoInfo
<1>t. TypeInv'
  BY <1>0, <1>2, SameCase DEF IInv, TypeInv
<1>r. RecordingInv' /\ QuietInv'
  BY <1>0, LateFrame
<1>c. ConnInv'
  BY <1>0 DEF IInv, ConnInv, Busy
<1>o. OnceInv'
  <2>1. Repeat' = Repeat
    BY <1>0, SameCase
  <2>2. \A p : Gone(p) => Gone(p)'
    BY <1>0 DEF Gone, Busy
  <2>3. \A k \in Cursors : info'[k].fail => info[k].fail /\ info'[k] = info[k]
    BY <1>2, <1>3
  <2> QED BY <1>0, <2>1, <2>2, <2>3 DEF IInv, OnceInv, Busy
<1>i. RightInv'
  <2>1. \A k \in Cursors :
          info'[k].success \/ (~preprocess /\ info'[k].mapped) => info'[k].live[1] \in OriginOf(k)
    BY <1>2, <1>3 DEF IInv, RightInv
  <2>2. \A h \in incomplete' : HalfIsRight(h)
    BY <1>0 DEF IInv, RightInv
  <2>3. SentCursorsAreRight'
    BY <1>0, SameRecording DEF IInv, RightInv
  <2>4. ASSUME NEW d \in Conns, Busy(d)', recording[current'[d].pos].kind = "use"
        PROVE  /\ \A i \in DOMAIN got'[d] : StandsFor(got'[d][i][1], current'[d].pos)
               /\ \A i \in DOMAIN todo'[d] :
                    \E j \in DOMAIN recording[current'[d].pos].curs :
                      todo'[d][i] = recording[current'[d].pos].curs[j]
    BY <1>0, <2>4 DEF IInv, RightInv, Busy
  <2> QED BY <1>0, <2>1, <2>2, <2>3, <2>4, RightStep DEF IInv, RightInv
<1> QED BY <1>t, <1>r, <1>c, <1>o, <1>i DEF IInv

(* Nothing happens.                                                        *)
LEMMA StutterKeeps == ASSUME IInv, UNCHANGED vars PROVE IInv'
<1>0. UNCHANGED <<case, recording, phase, filePos, generation, cursorsSeen, info, chan, chanState, pc, current,
                  todo, got, connected, incomplete, complete, crashed, sent, skips>>
  BY DEF vars, input, playVars, connVars, replyVars, history
<1>1. TypeInv'
  BY <1>0, SameCase DEF IInv, TypeInv
<1>2. RecordingInv' /\ QuietInv'
  <2>1. UseLists' = UseLists
    BY <1>0, SameCase
  <2> QED BY <1>0, <2>1 DEF IInv, RecordingInv, QuietInv
<1>3. ConnInv'
  BY <1>0 DEF IInv, ConnInv, Busy
<1>4. OnceInv'
  BY <1>0, OnceFrame DEF IInv, TypeInv
<1>5. RightInv'
  BY <1>0, RightFrame
<1> QED BY <1>1, <1>2, <1>3, <1>4, <1>5 DEF IInv

-----------------------------------------------------------------------------
(* Every step, and the theorems.                                           *)

LEMMA GetCursorKeeps == ASSUME IInv, NEW c \in Conns, GetCursor(c) PROVE IInv'
<1>1. CASE GetCursorMissing(c)
  BY <1>1, GetCursorMissingKeeps
<1>2. CASE GetCursorCached(c)
  BY <1>2, GetCursorCachedKeeps
<1>3. CASE GetCursorSameConn(c)
  BY <1>3, GetCursorSameConnKeeps
<1>4. CASE GetCursorBlock(c)
  BY <1>4, GetCursorBlockKeeps
<1>5. CASE GetCursorSuccess(c)
  BY <1>5, GetCursorSuccessKeeps
<1>6. CASE GetCursorFailed(c)
  BY <1>6, GetCursorFailedKeeps
<1> QED BY <1>1, <1>2, <1>3, <1>4, <1>5, <1>6 DEF GetCursor

LEMMA ConnectionKeeps == ASSUME IInv, NEW c \in Conns, Connection(c) PROVE IInv'
<1>1. CASE SkipNotConnected(c)
  BY <1>1, SkipNotConnectedKeeps
<1>2. CASE AddFromFile(c)
  BY <1>2, AddFromFileKeeps
<1>3. CASE ReceiveQuery(c)
  BY <1>3, ReceiveQueryKeeps
<1>4. CASE ReceiveUse(c)
  BY <1>4, ReceiveUseKeeps
<1>5. CASE GetCursor(c)
  BY <1>5, GetCursorKeeps
<1>6. CASE rewriteCursors(c)
  BY <1>6, rewriteCursorsKeeps
<1>7. CASE ExecuteFails(c)
  BY <1>7, ExecuteFailsKeeps
<1>8. CASE ExecuteReplies(c)
  BY <1>8, ExecuteRepliesKeeps
<1>9. CASE handleCompletedReplies(c)
  BY <1>9, handleCompletedRepliesKeeps
<1>10. CASE ConnectionEnds(c)
  BY <1>10, ConnectionEndsKeeps
<1> QED BY <1>1, <1>2, <1>3, <1>4, <1>5, <1>6, <1>7, <1>8, <1>9, <1>10 DEF Connection

LEMMA NextKeeps == IInv /\ [Next]_vars => IInv'
<1> SUFFICES ASSUME IInv, [Next]_vars PROVE IInv'
  OBVIOUS
<1>1. CASE PreprocessOp
  BY <1>1, PreprocessOpKeeps
<1>2. CASE Play
  BY <1>2, newPreprocessCursorManagerKeeps, NextGenerationKeeps, SuppressEOFKeeps, DispatchOpKeeps,
     DispatchEOFKeeps, CloseChansKeeps, PlayReturnKeeps DEF Play
<1>3. CASE \E c \in Conns : Connection(c)
  BY <1>3, ConnectionKeeps
<1>4. CASE Expire
  BY <1>4, ExpireKeeps
<1>5. CASE Terminating \/ UNCHANGED vars
  BY <1>5, StutterKeeps DEF Terminating
<1> QED BY <1>1, <1>2, <1>3, <1>4, <1>5 DEF Next

(* The state of the playback stays well formed: the connections execute    *)
(* ops of their own, in a single playback in the order of the file, and    *)
(* what was learnt of a live cursor belongs to the recorded one.           *)
THEOREM InvariantHolds == Spec => []IInv
<1>1. Init => IInv
  BY InitEstablishes
<1>2. IInv /\ [Next]_vars => IInv'
  BY NextKeeps
<1> QED BY <1>1, <1>2, PTL DEF Spec

(* The state is well formed, MarkFailed closes no failChan twice in a      *)
(* single playback, and Play returns after the goroutines of all           *)
(* connections have worked off their ops.                                  *)
THEOREM ConsistentHolds == Spec => []Consistent
<1>1. IInv => Consistent
  <2> SUFFICES ASSUME IInv PROVE Consistent
    OBVIOUS
  <2>0. MaxOps \in Nat /\ Repeat \in Nat \ {0}
    BY CaseFacts DEF IInv, TypeInv
  <2>1. NeverCrashes
    BY DEF IInv, OnceInv, NeverCrashes
  <2>2. PlayReturnsLast
    BY DEF IInv, ConnInv, PlayReturnsLast
  <2>3. \A k \in Cursors :
          /\ info[k].mapped \in BOOLEAN /\ info[k].success \in BOOLEAN /\ info[k].fail \in BOOLEAN
          /\ info[k].live \in Lives
          /\ info[k].origin \in 0..MaxOps
          /\ info[k].replyConn \in Conns \cup {NoConn}
    BY DEF IInv, TypeInv, Infos
  <2>4. filePos \in 1..(MaxOps + 1) /\ generation \in 0..Repeat
    BY <2>0 DEF IInv, TypeInv, Generations
  <2>5. \A c \in Conns : chan[c] \in Seq(Items) /\ Len(chan[c]) <= QueueCap
    BY DEF IInv, TypeInv
  <2>6. todo \in [Conns -> UseLists \cup Seq(Cursors)]
    BY DEF IInv, TypeInv
  <2>7. TypeOK
    BY <2>3, <2>4, <2>5, <2>6 DEF IInv, TypeInv, TypeOK, Seens, Pcs
  <2> QED BY <2>1, <2>2, <2>7 DEF Consistent
<1> QED BY <1>1, InvariantHolds, PTL

(* Whatever the order in which the replies of the file and of the server   *)
(* come, on whatever connections and however often the file is played, a   *)
(* getMore or killCursors goes out only with live cursors that the requests *)
(* behind its recorded cursors obtained.                                   *)
THEOREM SentCursorsAreRightHolds == Spec => []SentCursorsAreRight
<1>1. IInv => SentCursorsAreRight
  BY DEF IInv, RightInv
<1> QED BY <1>1, InvariantHolds, PTL

-----------------------------------------------------------------------------
(* The invariant behind CursorNotForgotten.  The uses of cursor k are the  *)
(* places of the recording's requests where it stands; preprocessing       *)
(* counts them all.                                                        *)

UsesIn(p, k) == {i \in DOMAIN recording[p].curs : recording[p].curs[i] = k}
Places(k) == UNION {{p} \X UsesIn(p, k) : p \in {q \in DOMAIN recording : recording[q].kind = "use"}}

(* The goroutine of c looks up the cursors of its op.                      *)
Looking(c) == pc[c] \in {"lookup", "await"}

(* A use that is still to be looked up: its op was not dispatched, is in   *)
(* its channel, or is being rewritten.                                     *)
Ahead(p, i) ==
    \/ p >= filePos
    \/ \E c \in Conns : \E j \in DOMAIN chan[c] : chan[c][j].pos = p
    \/ \E c \in Conns : /\ Looking(c) /\ current[c].pos = p
                        /\ i > Len(recording[p].curs) - Len(todo[c])
PlacesAhead(k) == {s \in Places(k) : Ahead(s[1], s[2])}

SeenInv ==
    \A k \in Cursors : IsFiniteSet(Places(k)) /\ Cardinality(Places(k)) <= cursorsSeen[k].uses

(* What is left to look up is the end of the op's list of cursors.         *)
TodoInv ==
    \A c \in Conns : Looking(c) =>
      LET l == recording[current[c].pos].curs IN
        /\ Len(todo[c]) <= Len(l)
        /\ \A i \in DOMAIN todo[c] : todo[c][i] = l[Len(l) - Len(todo[c]) + i]

(* numUsesLeft of a cursor never falls below the uses ahead, and the       *)
(* cursor is known as long as it is not zero.                              *)
Kept(k) == cursorsSeen[k].replySeen /\ cursorsSeen[k].uses > 0
CountInv ==
    preprocess /\ Repeat = 1 /\ phase # "preprocess" =>
      \A k \in Cursors : Kept(k) =>
        /\ Cardinality(PlacesAhead(k)) <= info[k].uses
        /\ info[k].mapped <=> info[k].uses > 0

CInv == SeenInv /\ TodoInv /\ CountInv /\ CursorNotForgotten

(* Where a cursor is used.                                                 *)
LEMMA PlaceIs ==
    ASSUME NEW k
    PROVE  \A s : s \in Places(k) <=>
             \E p \in DOMAIN recording : /\ recording[p].kind = "use"
                                         /\ \E i \in UsesIn(p, k) : s = <<p, i>>
BY DEF Places

(* The cursors of an op are a list of cursors.                             *)
LEMMA CursorLists ==
    ASSUME TypeInv, NEW p \in DOMAIN recording
    PROVE  /\ recording[p].curs \in Seq(Cursors) /\ p \in Nat
           /\ recording[p].kind \in {"query", "use", "reply", "eof"}
<1>1. recording[p] \in Ops /\ p \in Nat
  BY DEF TypeInv
<1>2. UseLists \subseteq Seq(Cursors)
  BY CaseFacts DEF TypeInv
<1>3. CASE recording[p].curs \in UseLists
  BY <1>1, <1>2, <1>3 DEF Ops
<1>4. CASE recording[p].curs \in {<<k>> : k \in Cursors}
  <2>1. PICK k \in Cursors : recording[p].curs = <<k>>
    BY <1>4
  <2> QED BY <1>1, <2>1 DEF Ops
<1>5. CASE recording[p].curs = <<>>
  BY <1>1, <1>5 DEF Ops
<1> QED BY <1>1, <1>3, <1>4, <1>5 DEF Ops

(* Nobody looks anything up before the file was read.                      *)
LEMMA NobodyLooks == IInv /\ phase = "preprocess" => \A c \in Conns : ~Looking(c)
BY DEF IInv, QuietInv, Looking

(* What is ahead can be counted.                                           *)
LEMMA AheadIsFinite ==
    ASSUME SeenInv, NEW k \in Cursors
    PROVE  /\ PlacesAhead(k) \subseteq Places(k) /\ IsFiniteSet(PlacesAhead(k))
           /\ Cardinality(PlacesAhead(k)) \in Nat
           /\ Cardinality(PlacesAhead(k)) <= Cardinality(Places(k))
           /\ Cardinality(Places(k)) \in Nat
<1>1. PlacesAhead(k) \subseteq Places(k) /\ IsFiniteSet(Places(k))
  BY DEF PlacesAhead, SeenInv
<1> QED BY <1>1, FS_Subset, FS_CardinalityType

(* A step that does not put uses ahead again keeps the count.              *)
LEMMA CountFrame ==
    ASSUME IInv, CInv, phase # "preprocess", UNCHANGED <<case, recording, cursorsSeen>>, TodoInv',
           \A k \in Cursors :
             preprocess => info'[k].uses = info[k].uses /\ info'[k].mapped = info[k].mapped,
           Repeat = 1 => \A p \in DOMAIN recording, i \in Nat : Ahead(p, i)' => Ahead(p, i),
           \A s \in skips' \ skips : preprocess /\ Repeat = 1 /\ s.why = "unknown" => ~Kept(s.cursor)
    PROVE  CInv'
<1>1. /\ preprocess' = preprocess /\ Repeat' = Repeat /\ \A k : Places(k)' = Places(k)
      /\ \A k : Kept(k)' <=> Kept(k)
  BY SameCase DEF Places, UsesIn, Kept
<1>2. SeenInv'
  BY <1>1 DEF CInv, SeenInv
<1>3. CountInv'
  <2> SUFFICES ASSUME preprocess, Repeat = 1, NEW k \in Cursors, Kept(k)
               PROVE  /\ Cardinality(PlacesAhead(k))' <= info'[k].uses
                      /\ info'[k].mapped <=> info'[k].uses > 0
    BY <1>1 DEF CountInv
  <2>1. PlacesAhead(k)' \subseteq PlacesAhead(k)
    <3> SUFFICES ASSUME NEW s \in Places(k), Ahead(s[1], s[2])' PROVE Ahead(s[1], s[2])
      BY <1>1 DEF PlacesAhead
    <3>0. PICK p \in DOMAIN recording : \E i \in UsesIn(p, k) : s = <<p, i>>
      BY PlaceIs
    <3>1. PICK i \in UsesIn(p, k) : s = <<p, i>>
      BY <3>0
    <3>2. i \in Nat
      BY CursorLists DEF UsesIn, IInv
    <3> QED BY <3>1, <3>2
  <2>2. Cardinality(PlacesAhead(k)') <= Cardinality(PlacesAhead(k)) /\ Cardinality(PlacesAhead(k)') \in Nat
    BY <2>1, AheadIsFinite, FS_Subset, FS_CardinalityType DEF CInv
  <2>3. Cardinality(PlacesAhead(k)) <= info[k].uses /\ (info[k].mapped <=> info[k].uses > 0)
    BY DEF CInv, CountInv
  <2>4. info[k].uses \in Int /\ info'[k].uses = info[k].uses /\ info'[k].mapped = info[k].mapped
    BY DEF IInv, TypeInv, Infos
  <2>5. Cardinality(PlacesAhead(k)) \in Nat
    BY AheadIsFinite DEF CInv
  <2> QED BY <2>2, <2>3, <2>4, <2>5
<1>4. CursorNotForgotten'
  BY <1>1 DEF CInv, CursorNotForgotten, Kept
<1> QED BY <1>2, <1>3, <1>4 DEF CInv

(* A step in which nobody starts to look up.                               *)
LEMMA TodoFrame ==
    ASSUME IInv, TodoInv, UNCHANGED <<recording, current>>,
           \A c \in Conns : Looking(c)' => /\ Looking(c)
                                           /\ \/ todo'[c] = todo[c]
                                              \/ todo[c] # <<>> /\ todo'[c] = Tail(todo[c])
    PROVE  /\ TodoInv'
           /\ \A c \in Conns : Looking(c)' => /\ Len(todo'[c]) <= Len(todo[c]) /\ Len(todo'[c]) \in Nat
                                              /\ Len(todo[c]) \in Nat
<1> SUFFICES ASSUME NEW c \in Conns, Looking(c)'
             PROVE  LET l == recording[current[c].pos].curs IN
                      /\ Len(todo'[c]) <= Len(l)
                      /\ \A i \in DOMAIN todo'[c] : todo'[c][i] = l[Len(l) - Len(todo'[c]) + i]
                      /\ Len(todo'[c]) <= Len(todo[c]) /\ Len(todo'[c]) \in Nat
                      /\ Len(todo[c]) \in Nat
  BY DEF TodoInv
<1> DEFINE l == recording[current[c].pos].curs
<1>1. Looking(c) /\ todo[c] \in Seq(Cursors)
  BY DEF IInv, TypeInv
<1>2. current[c].pos \in DOMAIN recording
  BY <1>1 DEF IInv, ConnInv, Busy, Looking
<1>3. l \in Seq(Cursors)
  BY <1>2, CursorLists DEF IInv
<1>4. Len(todo[c]) <= Len(l) /\ \A i \in DOMAIN todo[c] : todo[c][i] = l[Len(l) - Len(todo[c]) + i]
  BY <1>1 DEF TodoInv
<1> HIDE DEF l
<1>5. Len(l) \in Nat /\ Len(todo[c]) \in Nat
  BY <1>1, <1>3
<1>6. CASE todo'[c] = todo[c]
  <2>1. Len(todo'[c]) <= Len(l) /\ \A i \in DOMAIN todo'[c] : todo'[c][i] = l[Len(l) - Len(todo'[c]) + i]
    BY <1>4, <1>6
  <2>2. Len(todo'[c]) <= Len(todo[c]) /\ Len(todo'[c]) \in Nat
    BY <1>5, <1>6
  <2> QED BY <1>5, <2>1, <2>2 DEF l
<1>7. CASE todo[c] # <<>> /\ todo'[c] = Tail(todo[c])
  <2>1. /\ Len(todo'[c]) = Len(todo[c]) - 1 /\ Len(todo[c]) \in Nat \ {0}
        /\ \A i \in DOMAIN todo'[c] : i + 1 \in DOMAIN todo[c] /\ todo'[c][i] = todo[c][i + 1]
    BY <1>1, <1>7, HeadAndTail
  <2>2. \A i \in DOMAIN todo'[c] : i \in Int
    BY <1>1, <1>7
  <2>3. \A i \in DOMAIN todo'[c] : todo'[c][i] = l[Len(l) - Len(todo'[c]) + i]
    <3> SUFFICES ASSUME NEW i \in DOMAIN todo'[c] PROVE todo'[c][i] = l[Len(l) - Len(todo'[c]) + i]
      OBVIOUS
    <3>1. todo'[c][i] = l[Len(l) - Len(todo[c]) + (i + 1)]
      BY <1>4, <2>1
    <3>2. Len(l) - Len(todo[c]) + (i + 1) = Len(l) - Len(todo'[c]) + i
      <4>1. i \in Int
        BY <2>2
      <4> HIDE DEF l
      <4> QED BY <1>5, <2>1, <4>1
    <3> QED BY <3>1, <3>2
  <2>4. Len(todo'[c]) <= Len(l) /\ Len(todo'[c]) <= Len(todo[c]) /\ Len(todo'[c]) \in Nat
    BY <1>4, <1>5, <2>1
  <2> QED BY <1>5, <2>3, <2>4 DEF l
<1> QED BY <1>1, <1>6, <1>7

(* Most steps: no op is taken from a channel, no use is counted.           *)
LEMMA StepFrame ==
    ASSUME IInv, CInv, phase # "preprocess",
           UNCHANGED <<case, recording, cursorsSeen, chan, current>>, filePos' >= filePos, filePos' \in Int,
           \A c \in Conns : Looking(c)' => /\ Looking(c)
                                           /\ \/ todo'[c] = todo[c]
                                              \/ todo[c] # <<>> /\ todo'[c] = Tail(todo[c]),
           \A k \in Cursors :
             preprocess => info'[k].uses = info[k].uses /\ info'[k].mapped = info[k].mapped,
           \A s \in skips' \ skips : preprocess /\ Repeat = 1 /\ s.why = "unknown" => ~Kept(s.cursor)
    PROVE  CInv'
<1>1. /\ TodoInv'
      /\ \A c \in Conns : Looking(c)' => /\ Len(todo'[c]) <= Len(todo[c]) /\ Len(todo'[c]) \in Nat
                                         /\ Len(todo[c]) \in Nat
  BY TodoFrame DEF CInv
<1>2. ASSUME NEW p \in DOMAIN recording, NEW i \in Nat, Ahead(p, i)' PROVE Ahead(p, i)
  <2>1. p \in Nat /\ filePos \in Int /\ Len(recording[p].curs) \in Nat
    BY CursorLists DEF IInv, TypeInv
  <2>2. CASE p >= filePos'
    <3>1. p >= filePos
      BY <2>1, <2>2
    <3> QED BY <3>1 DEF Ahead
  <2>3. CASE \E c \in Conns : \E j \in DOMAIN chan[c] : chan[c][j].pos = p
    BY <2>3 DEF Ahead
  <2>4. ASSUME NEW c \in Conns, Looking(c)', current[c].pos = p, i > Len(recording[p].curs) - Len(todo'[c])
        PROVE  Ahead(p, i)
    <3>1. Len(todo'[c]) <= Len(todo[c]) /\ Len(todo'[c]) \in Nat /\ Len(todo[c]) \in Nat
      BY <1>1, <2>4
    <3>2. i > Len(recording[p].curs) - Len(todo[c])
      <4> DEFINE n == Len(recording[p].curs)
                 a == Len(todo'[c])
                 b == Len(todo[c])
      <4>1. n \in Nat /\ a \in Nat /\ b \in Nat /\ a <= b /\ i \in Nat /\ i > n - a
        BY <2>1, <2>4, <3>1
      <4> HIDE DEF n, a, b
      <4>2. i > n - b
        BY <4>1
      <4> QED BY <4>2 DEF n, b
    <3> QED BY <2>4, <3>2 DEF Ahead
  <2> QED BY <1>2, <2>2, <2>3, <2>4 DEF Ahead
<1> QED BY <1>1, <1>2, CountFrame

(* A new op of the recording: the places in its list are counted.          *)
LEMMA PreprocessOpCounts == ASSUME IInv, IInv', CInv, PreprocessOp PROVE CInv'
<1>0. /\ phase = "preprocess" /\ phase' = "preprocess" /\ skips' = skips
  BY DEF PreprocessOp, playVars, history
<1>1. PICK op \in NextOps :
        /\ recording' = Append(recording, op)
        /\ cursorsSeen' =
              [k \in Cursors |->
                 IF op.kind = "use" THEN trackSeen(cursorsSeen[k], k, op)
                 ELSE IF op.kind = "reply" /\ op.curs = <<k>>
                   THEN trackReplied(cursorsSeen[k], op)
                   ELSE cursorsSeen[k]]
  BY DEF PreprocessOp
<1>2. op \in Ops /\ op.curs \in Seq(Cursors)
  BY NextOpFacts DEF IInv
<1> DEFINE n == Len(recording) + 1
<1>3. /\ DOMAIN recording' = DOMAIN recording \cup {n}
      /\ \A p \in DOMAIN recording : recording'[p] = recording[p]
      /\ recording'[n] = op /\ n \notin DOMAIN recording
  <2>1. recording \in Seq(Ops)
    BY DEF IInv, TypeInv
  <2>2. Len(recording) \in Nat /\ DOMAIN recording = 1..Len(recording)
    BY <2>1
  <2> QED BY <1>1, <1>2, <2>1, <2>2, Appended
<1> HIDE DEF n
<1>4. SeenInv'
  <2> SUFFICES ASSUME NEW k \in Cursors
               PROVE  IsFiniteSet(Places(k)') /\ Cardinality(Places(k)') <= cursorsSeen'[k].uses
    BY DEF SeenInv
  <2>1. /\ IsFiniteSet(Places(k)) /\ Cardinality(Places(k)) <= cursorsSeen[k].uses
        /\ cursorsSeen[k] \in Seens
    BY DEF CInv, SeenInv, IInv, TypeInv
  <2>2. CASE op.kind = "use"
    <3> DEFINE new == {i \in DOMAIN op.curs : op.curs[i] = k}
               uses(p) == {i \in DOMAIN recording'[p].curs : recording'[p].curs[i] = k}
    <3>1. Places(k)' = Places(k) \cup ({n} \X new)
      <4>1. uses(n) = new /\ \A p \in DOMAIN recording : uses(p) = UsesIn(p, k)
        BY <1>3 DEF UsesIn
      <4> DEFINE old == {q \in DOMAIN recording : recording[q].kind = "use"}
      <4>2. {q \in DOMAIN recording' : recording'[q].kind = "use"} = old \cup {n}
        BY <1>3, <2>2
      <4>3. Places(k)' = UNION {{p} \X uses(p) : p \in {q \in DOMAIN recording' : recording'[q].kind = "use"}}
        BY DEF Places, UsesIn
      <4>4. Places(k)' = UNION {{p} \X uses(p) : p \in old \cup {n}}
        BY <4>2, <4>3
      <4>5. Places(k) = UNION {{p} \X UsesIn(p, k) : p \in old}
        BY DEF Places
      <4>6. \A p \in old : uses(p) = UsesIn(p, k)
        BY <4>1
      <4> HIDE DEF old, uses, new
      <4>7. \A s : s \in Places(k)' <=> s \in Places(k) \/ s \in {n} \X new
        BY <4>1, <4>4, <4>5, <4>6
      <4> QED BY <4>7
    <3>2. IsFiniteSet(new) /\ Cardinality(new) = Occurrences(op.curs, k)
      BY <1>2, OccurrencesType DEF Occurrences
    <3> HIDE DEF new
    <3>3. IsFiniteSet({n} \X new) /\ Cardinality({n} \X new) = Cardinality(new)
      <4> DEFINE f == [i \in new |-> <<n, i>>]
      <4>0. f \in [new -> {n} \X new] /\ \A i \in new : f[i] = <<n, i>>
        OBVIOUS
      <4> HIDE DEF f
      <4>a. \A i, j \in new : f[i] = f[j] => i = j
        BY <4>0
      <4>b. \A t \in {n} \X new : \E i \in new : f[i] = t
        BY <4>0
      <4>1. f \in Bijection(new, {n} \X new)
        BY <4>0, <4>a, <4>b DEF Bijection, Injection, Surjection, IsInjective
      <4>2. ExistsBijection(new, {n} \X new)
        BY <4>1 DEF ExistsBijection
      <4> QED BY <3>2, <4>2, FS_Bijection
    <3>4. cursorsSeen'[k].uses = cursorsSeen[k].uses + Occurrences(op.curs, k)
      BY <1>1, <2>1, <2>2 DEF trackSeen, Seens
    <3>5. /\ IsFiniteSet(Places(k) \cup ({n} \X new))
          /\ Cardinality(Places(k) \cup ({n} \X new))
               = Cardinality(Places(k)) + Cardinality({n} \X new) - Cardinality(Places(k) \cap ({n} \X new))
      BY <2>1, <3>3, FS_Union
    <3>6. IsFiniteSet(Places(k) \cap ({n} \X new))
      BY <2>1, FS_Intersection
    <3>7. /\ Cardinality(Places(k)) \in Nat /\ Cardinality(new) \in Nat
          /\ Cardinality(Places(k) \cap ({n} \X new)) \in Nat
      BY <2>1, <3>2, <3>6, FS_CardinalityType
    <3>8. cursorsSeen[k].uses \in Nat
      BY <2>1 DEF Seens
    <3> QED BY <2>1, <3>1, <3>2, <3>3, <3>4, <3>5, <3>7, <3>8
  <2>3. CASE op.kind # "use"
    <3>1. Places(k)' = Places(k)
      <4>1. \A p \in DOMAIN recording : UsesIn(p, k)' = UsesIn(p, k)
        BY <1>3 DEF UsesIn
      <4>2. {q \in DOMAIN recording' : recording'[q].kind = "use"}
              = {q \in DOMAIN recording : recording[q].kind = "use"}
        BY <1>3, <2>3
      <4>3. Places(k)' = UNION {{p} \X UsesIn(p, k)' : p \in {q \in DOMAIN recording' : recording'[q].kind = "use"}}
        BY DEF Places
      <4> QED BY <4>1, <4>2, <4>3 DEF Places
    <3>2. cursorsSeen'[k].uses = cursorsSeen[k].uses
      BY <1>1, <2>1, <2>3 DEF trackReplied, Seens
    <3> QED BY <2>1, <3>1, <3>2
  <2> QED BY <2>2, <2>3
<1>5. TodoInv'
  <2>1. (phase = "preprocess")'
    BY <1>0
  <2>3. (\A c \in Conns : ~Looking(c))'
    BY <2>1, NobodyLooks, PTL
  <2> QED BY <2>1, <2>3 DEF TodoInv
<1>6. CountInv'
  BY <1>0 DEF CountInv
<1>7. CursorNotForgotten'
  BY <1>0 DEF IInv, QuietInv, CursorNotForgotten
<1> QED BY <1>4, <1>5, <1>6, <1>7 DEF CInv

(* Cursors that are kept start with all their uses.                        *)
LEMMA newPreprocessCursorManagerCounts ==
    ASSUME IInv, CInv, newPreprocessCursorManager PROVE CInv'
<1>0. /\ phase = "preprocess"
      /\ info' = [k \in Cursors |->
           IF preprocess /\ cursorsSeen[k].replySeen /\ cursorsSeen[k].uses > 0
           THEN [NoInfo EXCEPT !.mapped = TRUE,
                               !.uses = cursorsSeen[k].uses,
                               !.replyConn = cursorsSeen[k].replyConn,
                               !.origin = cursorsSeen[k].origin]
           ELSE NoInfo]
      /\ UNCHANGED <<case, recording, cursorsSeen, pc, skips>>
  BY DEF newPreprocessCursorManager, input, connVars, history
<1>1. /\ preprocess' = preprocess
      /\ \A k : Places(k)' = Places(k)
      /\ \A k : Kept(k)' <=> Kept(k)
  <2>1. \A k : Places(k)' = Places(k)
    <3>1. recording' = recording
      BY <1>0
    <3> QED BY <3>1 DEF Places, UsesIn
  <2>2. case' = case /\ cursorsSeen' = cursorsSeen
    BY <1>0
  <2> QED BY <2>1, <2>2, SameCase DEF Kept
<1>2. SeenInv'
  BY <1>0, <1>1 DEF CInv, SeenInv
<1>3. TodoInv'
  BY <1>0, NobodyLooks DEF TodoInv, Looking
<1>4. CursorNotForgotten'
  BY <1>0 DEF IInv, QuietInv, CursorNotForgotten
<1>5. CountInv'
  <2> SUFFICES ASSUME preprocess, NEW k \in Cursors, Kept(k)
               PROVE  /\ Cardinality(PlacesAhead(k)') <= info'[k].uses
                      /\ info'[k].mapped <=> info'[k].uses > 0
    BY <1>1 DEF CountInv
  <2>1. info'[k].uses = cursorsSeen[k].uses /\ info'[k].mapped = TRUE /\ cursorsSeen[k].uses > 0
    BY <1>0 DEF Kept, NoInfo
  <2>2. SeenInv' => Cardinality(PlacesAhead(k)') <= Cardinality(Places(k)')
                    /\ Cardinality(PlacesAhead(k)') \in Nat /\ Cardinality(Places(k)') \in Nat
    <3>1. SUFFICES ASSUME SeenInv'
                   PROVE  Cardinality(PlacesAhead(k)') <= Cardinality(Places(k)')
                          /\ Cardinality(PlacesAhead(k)') \in Nat /\ Cardinality(Places(k)') \in Nat
      OBVIOUS
    <3>2. PlacesAhead(k)' \subseteq Places(k)' /\ IsFiniteSet(Places(k)')
      BY <3>1 DEF PlacesAhead, SeenInv
    <3> QED BY <3>2, FS_Subset, FS_CardinalityType
  <2>3. Cardinality(Places(k)) <= cursorsSeen[k].uses /\ cursorsSeen[k].uses \in Nat
    BY DEF CInv, SeenInv, IInv, TypeInv, Seens
  <2> QED BY <1>1, <1>2, <2>1, <2>2, <2>3
<1> QED BY <1>2, <1>3, <1>4, <1>5 DEF CInv

(* A dispatched op is in its channel instead of the file.                  *)
LEMMA DispatchOpCounts == ASSUME IInv, CInv, DispatchOp PROVE CInv'
<1> DEFINE d == recording[filePos].conn
           item == [pos |-> filePos, gen |-> generation]
<1>0. /\ phase = "dispatch" /\ ~AtEnd
      /\ filePos' = filePos + 1
      /\ chan' = [chan EXCEPT ![d] = Append(chan[d], item)]
      /\ newExecutionConnection(d) \/ (chanState[d] = "open" /\ UNCHANGED <<chanState, pc, connected>>)
      /\ UNCHANGED <<case, recording, cursorsSeen, info, current, todo, skips>>
  BY DEF DispatchOp, input, history
<1>1. filePos \in DOMAIN recording /\ filePos \in Int /\ filePos \in 1..MaxOps
  BY <1>0, CaseFacts DEF IInv, TypeInv, AtEnd
<1>2. item \in Items /\ item.pos = filePos
  BY <1>1 DEF IInv, TypeInv, Items, Positions
<1>3. d \in Conns
  <2>1. recording[filePos] \in Ops
    BY <1>1 DEF IInv, TypeInv
  <2> QED BY <2>1 DEF Ops
<1> HIDE DEF d, item
<1>4. \A c \in Conns : Looking(c)' => Looking(c) /\ todo'[c] = todo[c] /\ current'[c] = current[c]
  BY <1>0, <1>3 DEF IInv, TypeInv, Looking, newExecutionConnection
<1>5. TodoInv'
  BY <1>0, <1>4 DEF CInv, TodoInv
<1>6. ASSUME NEW p \in DOMAIN recording, NEW i \in Nat, Ahead(p, i)' PROVE Ahead(p, i)
  <2>1. p \in Nat
    BY CursorLists DEF IInv
  <2>2. CASE p >= filePos'
    <3>1. p >= filePos
      BY <1>0, <1>1, <2>1, <2>2
    <3> QED BY <3>1 DEF Ahead
  <2>3. ASSUME NEW c \in Conns, NEW j \in DOMAIN chan'[c], chan'[c][j].pos = p PROVE Ahead(p, i)
    <3>1. CASE c = d
      <4>1. chan[d] \in Seq(Items) /\ chan'[d] = Append(chan[d], item)
        BY <1>0, <1>3 DEF IInv, TypeInv
      <4>2. /\ DOMAIN chan'[d] = DOMAIN chan[d] \cup {Len(chan[d]) + 1}
            /\ \A x \in DOMAIN chan[d] : chan'[d][x] = chan[d][x]
            /\ chan'[d][Len(chan[d]) + 1] = item
        BY <1>2, <4>1, Appended
      <4>3. CASE j \in DOMAIN chan[d]
        BY <1>3, <2>3, <3>1, <4>2, <4>3 DEF Ahead
      <4>4. CASE j = Len(chan[d]) + 1
        <5>1. p = filePos
          BY <1>2, <2>3, <3>1, <4>2, <4>4
        <5>2. p >= filePos
          BY <1>1, <5>1
        <5> QED BY <5>2 DEF Ahead
      <4> QED BY <2>3, <3>1, <4>2, <4>3, <4>4
    <3>2. CASE c # d
      <4>1. chan'[c] = chan[c]
        BY <1>0, <3>2 DEF IInv, TypeInv
      <4> QED BY <2>3, <4>1 DEF Ahead
    <3> QED BY <3>1, <3>2
  <2>4. ASSUME NEW c \in Conns, Looking(c)', current'[c].pos = p, i > Len(recording[p].curs) - Len(todo'[c])
        PROVE  Ahead(p, i)
    <3>1. Looking(c) /\ todo'[c] = todo[c] /\ current'[c] = current[c]
      BY <1>4, <2>4
    <3>2. current[c].pos = p /\ i > Len(recording[p].curs) - Len(todo[c])
      BY <2>4, <3>1
    <3> QED BY <3>1, <3>2 DEF Ahead
  <2>5. recording' = recording
    BY <1>0
  <2> QED BY <1>6, <2>2, <2>3, <2>4, <2>5 DEF Ahead
<1> QED BY <1>0, <1>5, <1>6, CountFrame

(* An op is taken from its channel, to be looked up or not.                *)
LEMMA TakeCounts ==
    ASSUME IInv, CInv, NEW c \in Conns, pc[c] = "idle", chan[c] # <<>>,
           UNCHANGED <<case, recording, cursorsSeen, info, filePos, skips>>,
           chan' = [chan EXCEPT ![c] = Tail(@)],
           \A d \in Conns : d # c => pc'[d] = pc[d] /\ current'[d] = current[d] /\ todo'[d] = todo[d],
           \/ ~Looking(c)'
           \/ current'[c] = Head(chan[c]) /\ todo'[c] = HeadOp(c).curs
    PROVE  CInv'
<1>0. phase # "preprocess"
  BY Running
<1>1. /\ Head(chan[c]) = chan[c][1] /\ 1 \in DOMAIN chan[c]
      /\ chan'[c] = Tail(chan[c])
      /\ \A j \in DOMAIN chan'[c] : j + 1 \in DOMAIN chan[c] /\ chan'[c][j] = chan[c][j + 1]
      /\ \A d \in Conns : d # c => chan'[d] = chan[d]
  <2>1. chan[c] \in Seq(Items) /\ chan'[c] = Tail(chan[c]) /\ \A d \in Conns : d # c => chan'[d] = chan[d]
    BY DEF IInv, TypeInv
  <2>2. 1 \in DOMAIN chan[c]
    BY <2>1
  <2>3. /\ Head(chan[c]) = chan[c][1]
        /\ \A i \in DOMAIN Tail(chan[c]) : i + 1 \in DOMAIN chan[c] /\ Tail(chan[c])[i] = chan[c][i + 1]
    BY <2>1, HeadAndTail
  <2> QED BY <2>1, <2>2, <2>3
<1>2. Looking(c)' => /\ current'[c] = chan[c][1] /\ todo'[c] = recording[current'[c].pos].curs
                     /\ current'[c].pos \in DOMAIN recording
  <2>1. chan[c][1].pos \in DOMAIN recording
    BY <1>1 DEF IInv, ConnInv
  <2> QED BY <1>1, <2>1 DEF HeadOp
<1>3. \A d \in Conns : d # c => (Looking(d)' <=> Looking(d))
  BY DEF Looking
<1>4. TodoInv'
  <2> SUFFICES ASSUME NEW d \in Conns, Looking(d)'
               PROVE  LET l == recording'[current'[d].pos].curs IN
                        /\ Len(todo'[d]) <= Len(l)
                        /\ \A i \in DOMAIN todo'[d] : todo'[d][i] = l[Len(l) - Len(todo'[d]) + i]
    BY DEF TodoInv
  <2>1. CASE d = c
    <3> DEFINE l == recording[current'[c].pos].curs
    <3>1. l \in Seq(Cursors) /\ todo'[c] = l
      BY <1>2, <2>1, CursorLists DEF IInv
    <3> HIDE DEF l
    <3>2. Len(l) <= Len(l) /\ \A i \in DOMAIN l : l[i] = l[Len(l) - Len(l) + i]
      <4>1. Len(l) \in Nat /\ \A i \in DOMAIN l : i \in Nat
        BY <3>1
      <4>2. \A i \in DOMAIN l : Len(l) - Len(l) + i = i
        BY <4>1
      <4> QED BY <4>1, <4>2
    <3> QED BY <2>1, <3>1, <3>2 DEF l
  <2>2. CASE d # c
    <3>1. Looking(d) /\ current'[d] = current[d] /\ todo'[d] = todo[d] /\ recording' = recording
      BY <1>3, <2>2
    <3>2. LET l == recording[current[d].pos].curs IN
            /\ Len(todo[d]) <= Len(l)
            /\ \A i \in DOMAIN todo[d] : todo[d][i] = l[Len(l) - Len(todo[d]) + i]
      BY <3>1 DEF CInv, TodoInv
    <3> QED BY <3>1, <3>2
  <2> QED BY <2>1, <2>2
<1>5. ASSUME NEW p \in DOMAIN recording, NEW i \in Nat, Ahead(p, i)' PROVE Ahead(p, i)
  <2>1. CASE p >= filePos
    BY <2>1 DEF Ahead
  <2>2. ASSUME NEW d \in Conns, NEW j \in DOMAIN chan'[d], chan'[d][j].pos = p PROVE Ahead(p, i)
    <3>1. \E x \in DOMAIN chan[d] : chan[d][x].pos = p
      <4>1. CASE d = c
        BY <1>1, <2>2, <4>1
      <4>2. CASE d # c
        BY <1>1, <2>2, <4>2
      <4> QED BY <4>1, <4>2
    <3> QED BY <3>1 DEF Ahead
  <2>3. ASSUME NEW d \in Conns, Looking(d)', current'[d].pos = p, i > Len(recording[p].curs) - Len(todo'[d])
        PROVE  Ahead(p, i)
    <3>1. CASE d = c
      <4>1. chan[c][1].pos = p
        BY <1>2, <2>3, <3>1
      <4> QED BY <1>1, <4>1 DEF Ahead
    <3>2. CASE d # c
      <4>1. Looking(d) /\ current[d].pos = p /\ i > Len(recording[p].curs) - Len(todo[d])
        BY <1>3, <2>3, <3>2
      <4> QED BY <4>1 DEF Ahead
    <3> QED BY <3>1, <3>2
  <2> QED BY <1>5, <2>1, <2>2, <2>3 DEF Ahead
<1> QED BY <1>0, <1>4, <1>5, CountFrame

(* The use that is looked up is one of those ahead, so its cursor is known *)
(* if it is kept.                                                          *)
LEMMA LookedUpIsAhead ==
    ASSUME IInv, CInv, NEW c \in Conns, Looking(c), todo[c] # <<>>
    PROVE  LET k == Head(todo[c])
               p == current[c].pos
               i == Len(recording[p].curs) - Len(todo[c]) + 1 IN
             /\ k \in Cursors /\ <<p, i>> \in PlacesAhead(k) /\ i \in Nat /\ p \in DOMAIN recording
             /\ preprocess /\ Repeat = 1 /\ Kept(k) => info[k].mapped /\ info[k].uses > 0
<1> DEFINE k == Head(todo[c])
           p == current[c].pos
           l == recording[p].curs
           i == Len(l) - Len(todo[c]) + 1
<1>1. /\ todo[c] \in Seq(Cursors) /\ p \in DOMAIN recording /\ recording[p].kind = "use"
      /\ phase # "preprocess"
  BY StayFacts DEF Looking
<1>2. l \in Seq(Cursors)
  BY <1>1, CursorLists DEF IInv
<1>3. Len(todo[c]) \in Nat \ {0} /\ 1 \in DOMAIN todo[c] /\ k = todo[c][1] /\ k \in Cursors
  BY <1>1, HeadAndTail
<1>4. Len(todo[c]) <= Len(l) /\ \A x \in DOMAIN todo[c] : todo[c][x] = l[Len(l) - Len(todo[c]) + x]
  BY DEF CInv, TodoInv
<1> HIDE DEF k, l
<1>5. i \in DOMAIN l /\ l[i] = k /\ i \in Nat /\ i > Len(l) - Len(todo[c])
  <2>1. Len(l) \in Nat /\ DOMAIN l = 1..Len(l)
    BY <1>2
  <2>2. i \in DOMAIN l /\ i \in Nat /\ i > Len(l) - Len(todo[c])
    <3> DEFINE m == Len(todo[c])
               n == Len(l)
    <3>1. m \in Nat \ {0} /\ n \in Nat /\ m <= n
      BY <1>3, <1>4, <2>1
    <3>2. i = n - m + 1
      OBVIOUS
    <3> HIDE DEF m, n, i
    <3>3. i \in 1..n /\ i \in Nat /\ i > n - m
      BY <3>1, <3>2
    <3> QED BY <2>1, <3>3 DEF m, n
  <2> QED BY <1>3, <1>4, <2>2
<1> HIDE DEF i, p
<1>6. <<p, i>> \in Places(k)
  <2>1. i \in UsesIn(p, k)
    BY <1>5 DEF UsesIn, l
  <2> QED BY <1>1, <2>1, PlaceIs
<1>7. Ahead(p, i)
  <2>1. current[c].pos = p /\ i > Len(recording[p].curs) - Len(todo[c])
    BY <1>5 DEF l, p
  <2> QED BY <2>1 DEF Ahead
<1>8. <<p, i>> \in PlacesAhead(k)
  BY <1>6, <1>7 DEF PlacesAhead
<1>9. ASSUME preprocess, Repeat = 1, Kept(k) PROVE info[k].mapped /\ info[k].uses > 0
  <2>1. Cardinality(PlacesAhead(k)) <= info[k].uses /\ (info[k].mapped <=> info[k].uses > 0)
    BY <1>1, <1>3, <1>9 DEF CInv, CountInv
  <2>2. IsFiniteSet(PlacesAhead(k)) /\ Cardinality(PlacesAhead(k)) \in Nat
    BY <1>3, AheadIsFinite DEF CInv
  <2>3. Cardinality(PlacesAhead(k)) # 0
    BY <1>8, <2>2, FS_EmptySet
  <2>4. info[k].uses \in Int
    BY <1>3 DEF IInv, TypeInv, Infos
  <2> QED BY <2>1, <2>2, <2>3, <2>4
<1> QED BY <1>1, <1>3, <1>5, <1>8, <1>9 DEF i, k, l, p

(* Looking a cursor up without counting it.                                *)
LEMMA DropCursorCounts ==
    ASSUME IInv, CInv, NEW c \in Conns, NEW k \in Cursors, NEW why, Looking(c), todo[c] # <<>>,
           DropCursor(c, k, why), why = "unknown" => k = Head(todo[c]) /\ ~info[k].mapped
    PROVE  CInv'
<1>0. /\ skips' = skips \cup {[cursor |-> k, conn |-> c, why |-> why]}
      /\ todo' = [todo EXCEPT ![c] = Tail(@)]
      /\ pc' = [pc EXCEPT ![c] = "lookup"]
      /\ UNCHANGED <<case, recording, cursorsSeen, chan, current, filePos, info>>
  BY DEF DropCursor, input, playVars
<1>1. phase # "preprocess" /\ filePos \in Int
  BY StayFacts DEF Looking, IInv, TypeInv
<1>2. todo'[c] = Tail(todo[c]) /\ \A d \in Conns : d # c => todo'[d] = todo[d] /\ pc'[d] = pc[d]
  BY <1>0 DEF IInv, TypeInv
<1>3. \A d \in Conns : Looking(d)' => /\ Looking(d)
                                      /\ \/ todo'[d] = todo[d]
                                         \/ todo[d] # <<>> /\ todo'[d] = Tail(todo[d])
  BY <1>2 DEF Looking
<1>4. \A s \in skips' \ skips : preprocess /\ Repeat = 1 /\ s.why = "unknown" => ~Kept(s.cursor)
  <2> SUFFICES ASSUME preprocess, Repeat = 1, why = "unknown" PROVE ~Kept(k)
    BY <1>0
  <2>1. k = Head(todo[c]) /\ ~info[k].mapped
    OBVIOUS
  <2>2. Kept(Head(todo[c])) => info[Head(todo[c])].mapped
    BY LookedUpIsAhead
  <2> QED BY <2>1, <2>2
<1> QED BY <1>0, <1>1, <1>3, <1>4, StepFrame

(* A use that is counted is not ahead any more.                            *)
LEMMA GetCursorSuccessCounts ==
    ASSUME IInv, CInv, NEW c \in Conns, GetCursorSuccess(c) PROVE CInv'
<1> DEFINE k == Head(todo[c])
           pos == current[c].pos
           place == <<pos, Len(recording[pos].curs) - Len(todo[c]) + 1>>
<1>0. /\ pc[c] = "await" /\ info[k].success
      /\ info' = [info EXCEPT ![k].uses = @ - 1, ![k].mapped = info[k].uses - 1 > 0]
      /\ todo' = [todo EXCEPT ![c] = Tail(todo[c])]
      /\ pc' = [pc EXCEPT ![c] = "lookup"]
      /\ UNCHANGED <<case, recording, filePos, cursorsSeen, chan, current, skips>>
  BY DEF GetCursorSuccess, input, playVars, history
<1>1. /\ todo[c] # <<>> /\ Looking(c) /\ Busy(c) /\ phase # "preprocess"
      /\ todo[c] \in Seq(Cursors) /\ pos \in DOMAIN recording
  BY <1>0, StayFacts DEF Looking
<1>2. k \in Cursors /\ place \in PlacesAhead(k)
  BY <1>1, LookedUpIsAhead
<1>3. /\ \A x \in Cursors : x # k => info'[x] = info[x]
      /\ info'[k].uses = info[k].uses - 1
      /\ info'[k].mapped <=> info[k].uses - 1 > 0
      /\ \A x \in Cursors : info[x].uses \in Int
  BY <1>0, <1>2 DEF IInv, TypeInv, Infos
<1>4. todo'[c] = Tail(todo[c]) /\ \A d \in Conns : d # c => todo'[d] = todo[d] /\ pc'[d] = pc[d]
  BY <1>0 DEF IInv, TypeInv
<1>5. /\ TodoInv'
      /\ \A d \in Conns : Looking(d)' => /\ Looking(d)
                                         /\ Len(todo'[d]) <= Len(todo[d]) /\ Len(todo'[d]) \in Nat
                                         /\ Len(todo[d]) \in Nat
  <2>1. \A d \in Conns : Looking(d)' => /\ Looking(d)
                                        /\ \/ todo'[d] = todo[d]
                                           \/ todo[d] # <<>> /\ todo'[d] = Tail(todo[d])
    BY <1>1, <1>4 DEF Looking
  <2> QED BY <1>0, <2>1, TodoFrame DEF CInv
<1>6. /\ preprocess' = preprocess /\ Repeat' = Repeat
      /\ \A x : Places(x)' = Places(x)
      /\ \A x : Kept(x)' <=> Kept(x)
  <2>1. case' = case /\ recording' = recording /\ cursorsSeen' = cursorsSeen
    BY <1>0
  <2> QED BY <2>1, SameCase DEF Places, UsesIn, Kept
<1>7. SeenInv'
  BY <1>0, <1>6 DEF CInv, SeenInv
<1>8. CursorNotForgotten'
  BY <1>0, <1>6 DEF CInv, CursorNotForgotten, Kept
<1>9. ASSUME NEW p \in DOMAIN recording, NEW i \in Nat, Ahead(p, i)' PROVE Ahead(p, i)
  <2>1. CASE p >= filePos
    BY <2>1 DEF Ahead
  <2>2. ASSUME NEW d \in Conns, NEW j \in DOMAIN chan[d], chan[d][j].pos = p PROVE Ahead(p, i)
    BY <2>2 DEF Ahead
  <2>3. ASSUME NEW d \in Conns, Looking(d)', current[d].pos = p, i > Len(recording[p].curs) - Len(todo'[d])
        PROVE  Ahead(p, i)
    <3> DEFINE n == Len(recording[p].curs)
               a == Len(todo'[d])
               b == Len(todo[d])
    <3>0. recording[p].curs \in Seq(Cursors)
      BY CursorLists DEF IInv
    <3>1. n \in Nat /\ a \in Nat /\ b \in Nat /\ a <= b /\ i \in Nat /\ i > n - a
      <4>1. n \in Nat
        BY <3>0
      <4>2. a \in Nat /\ b \in Nat /\ a <= b
        BY <1>5, <2>3
      <4>3. i > n - a
        BY <2>3
      <4> QED BY <4>1, <4>2, <4>3
    <3> HIDE DEF n, a, b
    <3>2. i > n - b
      BY <3>1
    <3> QED BY <1>5, <2>3, <3>2 DEF Ahead, n, b
  <2> QED BY <1>0, <1>9, <2>1, <2>2, <2>3 DEF Ahead
<1>10. ASSUME Repeat = 1, NEW s, s = place PROVE ~Ahead(s[1], s[2])'
  <2> DEFINE i == Len(recording[pos].curs) - Len(todo[c]) + 1
  <2>1. /\ pos < filePos
        /\ \A d \in Conns :
             /\ \A j \in DOMAIN chan[d] : chan[d][j].pos # pos
             /\ Busy(d) /\ d # c => current[d].pos # pos
    BY <1>1, <1>10, ExecutedIsGone
  <2>2. ~(pos >= filePos)
    <3>1. pos \in Int /\ filePos \in Int
      BY <1>1 DEF IInv, TypeInv
    <3> QED BY <2>1, <3>1
  <2>3. \A d \in Conns : Looking(d)' /\ current[d].pos = pos => d = c
    BY <1>5, <2>1 DEF Looking, Busy
  <2>4. ~(i > Len(recording[pos].curs) - Len(todo'[c]))
    <3>1. Len(todo'[c]) = Len(todo[c]) - 1 /\ Len(todo[c]) \in Nat \ {0}
      BY <1>1, <1>4, HeadAndTail
    <3>2. Len(recording[pos].curs) \in Nat
      BY <1>1, CursorLists DEF IInv
    <3> DEFINE n == Len(recording[pos].curs)
               m == Len(todo[c])
               a == Len(todo'[c])
    <3>3. n \in Nat /\ m \in Nat \ {0} /\ a = m - 1 /\ i = n - m + 1
      BY <3>1, <3>2
    <3> HIDE DEF n, m, a, i
    <3>4. ~(i > n - a)
      BY <3>3
    <3> QED BY <3>4 DEF n, a
  <2>5. s[1] = pos /\ s[2] = i
    BY <1>10
  <2>6. recording' = recording /\ current' = current /\ chan' = chan /\ filePos' = filePos
    BY <1>0
  <2> HIDE DEF place, i, pos
  <2>7. ASSUME NEW d \in Conns, Looking(d)', current[d].pos = s[1],
               s[2] > Len(recording[s[1]].curs) - Len(todo'[d])
        PROVE  FALSE
    <3>1. d = c
      BY <2>3, <2>5, <2>7
    <3> QED BY <2>4, <2>5, <2>7, <3>1
  <2> QED BY <2>1, <2>2, <2>5, <2>6, <2>7 DEF Ahead
<1>11. CountInv'
  <2> SUFFICES ASSUME preprocess, Repeat = 1, NEW x \in Cursors, Kept(x)
               PROVE  /\ Cardinality(PlacesAhead(x)') <= info'[x].uses
                      /\ info'[x].mapped <=> info'[x].uses > 0
    BY <1>6 DEF CountInv
  <2>1. PlacesAhead(x)' \subseteq PlacesAhead(x)
    <3> SUFFICES ASSUME NEW s \in Places(x), Ahead(s[1], s[2])' PROVE Ahead(s[1], s[2])
      BY <1>6 DEF PlacesAhead
    <3>0. PICK p \in DOMAIN recording : \E i \in UsesIn(p, x) : s = <<p, i>>
      BY PlaceIs
    <3>1. PICK i \in UsesIn(p, x) : s = <<p, i>>
      BY <3>0
    <3>2. i \in Nat
      BY CursorLists DEF UsesIn, IInv
    <3> QED BY <1>9, <3>1, <3>2
  <2>2. /\ IsFiniteSet(PlacesAhead(x)) /\ Cardinality(PlacesAhead(x)) \in Nat
        /\ Cardinality(PlacesAhead(x)) <= info[x].uses /\ (info[x].mapped <=> info[x].uses > 0)
    BY <1>1, AheadIsFinite DEF CInv, CountInv
  <2>3. CASE x # k
    <3>1. Cardinality(PlacesAhead(x)') <= Cardinality(PlacesAhead(x)) /\ Cardinality(PlacesAhead(x)') \in Nat
      BY <2>1, <2>2, FS_Subset, FS_CardinalityType
    <3>2. info'[x] = info[x] /\ info[x].uses \in Int
      BY <1>3, <2>3
    <3> QED BY <2>2, <3>1, <3>2
  <2>4. CASE x = k
    <3>1. place \notin PlacesAhead(x)'
      <4>1. ASSUME NEW s, s \in PlacesAhead(x)' PROVE s # place
        BY <1>10, <4>1 DEF PlacesAhead
      <4> QED BY <4>1
    <3>2. place \in PlacesAhead(x)
      BY <1>2, <2>4
    <3> HIDE DEF place
    <3>3. PlacesAhead(x)' \subseteq PlacesAhead(x) \ {place}
      BY <2>1, <3>1
    <3>4. /\ IsFiniteSet(PlacesAhead(x) \ {place})
          /\ Cardinality(PlacesAhead(x) \ {place}) = Cardinality(PlacesAhead(x)) - 1
      BY <2>2, <3>2, FS_RemoveElement
    <3>5. /\ Cardinality(PlacesAhead(x)') <= Cardinality(PlacesAhead(x) \ {place})
          /\ Cardinality(PlacesAhead(x)') \in Nat
      BY <3>3, <3>4, FS_Subset, FS_CardinalityType
    <3>6. info'[x].uses = info[x].uses - 1 /\ (info'[x].mapped <=> info[x].uses - 1 > 0) /\ info[x].uses \in Int
      BY <1>3, <2>4
    <3> QED BY <2>2, <3>4, <3>5, <3>6
  <2> QED BY <2>3, <2>4
<1> QED BY <1>5, <1>7, <1>8, <1>11 DEF CInv

(* The steps of Play that leave the channels alone.                        *)
LEMMA PlayCounts == ASSUME IInv, CInv, Play PROVE CInv'
<1>1. CASE newPreprocessCursorManager
  BY <1>1, newPreprocessCursorManagerCounts
<1>2. CASE NextGeneration
  <2>1. /\ phase = "dispatch" /\ generation < Repeat - 1
        /\ UNCHANGED <<case, recording, cursorsSeen, info, chan, pc, current, todo, skips>>
    BY <1>2 DEF NextGeneration, input, connVars, history
  <2>2. Repeat # 1
    BY <2>1, CaseFacts DEF IInv, TypeInv, Generations
  <2>3. TodoInv'
    BY <2>1 DEF CInv, TodoInv, Looking
  <2> QED BY <2>1, <2>2, <2>3, CountFrame
<1>3. CASE DispatchOp
  BY <1>3, DispatchOpCounts
<1>4. CASE SuppressEOF \/ DispatchEOF \/ CloseChans \/ PlayReturn
  <2>1. /\ phase # "preprocess"
        /\ filePos' = filePos \/ filePos' = filePos + 1
        /\ UNCHANGED <<case, recording, cursorsSeen, info, chan, pc, current, todo, skips>>
    BY <1>4 DEF SuppressEOF, DispatchEOF, CloseChans, PlayReturn, input, connVars, history
  <2>2. filePos' >= filePos /\ filePos' \in Int
    BY <2>1 DEF IInv, TypeInv
  <2>3. \A c \in Conns : Looking(c)' => Looking(c) /\ todo'[c] = todo[c]
    BY <2>1 DEF Looking
  <2> QED BY <2>1, <2>2, <2>3, StepFrame
<1> QED BY <1>1, <1>2, <1>3, <1>4 DEF Play

(* GetCursor.                                                              *)
LEMMA GetCursorCounts == ASSUME IInv, CInv, NEW c \in Conns, GetCursor(c) PROVE CInv'
<1>0. Looking(c) /\ phase # "preprocess" /\ filePos \in Int
  <2>1. Looking(c)
    BY DEF GetCursor, GetCursorMissing, GetCursorCached, GetCursorSameConn, GetCursorBlock,
           GetCursorSuccess, GetCursorFailed, Looked, Looking
  <2> QED BY <2>1, StayFacts DEF Looking, IInv, TypeInv
<1>1. CASE GetCursorMissing(c)
  BY SMTT(40), <1>0, <1>1, DropCursorCounts DEF GetCursorMissing, Looked
<1>2. CASE GetCursorSameConn(c)
  BY <1>0, <1>2, DropCursorCounts DEF GetCursorSameConn, Looked
<1>3. CASE GetCursorFailed(c)
  <2>1. todo[c] # <<>> /\ todo[c] \in Seq(Cursors)
    BY <1>3, StayFacts DEF GetCursorFailed
  <2>2. Head(todo[c]) \in Cursors
    BY <2>1, HeadAndTail
  <2> QED BY <1>0, <1>3, <2>1, <2>2, DropCursorCounts DEF GetCursorFailed
<1>4. CASE GetCursorSuccess(c)
  BY <1>4, GetCursorSuccessCounts
<1>5. CASE GetCursorCached(c)
  <2>1. /\ pc[c] = "lookup" /\ todo[c] # <<>>
        /\ todo' = [todo EXCEPT ![c] = Tail(@)]
        /\ UNCHANGED <<case, recording, cursorsSeen, info, filePos, chan, pc, current, skips>>
    BY <1>5 DEF GetCursorCached, Looked, input, playVars, history
  <2>2. todo'[c] = Tail(todo[c]) /\ \A d \in Conns : d # c => todo'[d] = todo[d]
    BY <2>1 DEF IInv, TypeInv
  <2>3. \A d \in Conns : Looking(d)' => /\ Looking(d)
                                        /\ \/ todo'[d] = todo[d]
                                           \/ todo[d] # <<>> /\ todo'[d] = Tail(todo[d])
    BY <2>1, <2>2 DEF Looking
  <2> QED BY <1>0, <2>1, <2>3, StepFrame
<1>6. CASE GetCursorBlock(c)
  <2>1. /\ pc' = [pc EXCEPT ![c] = "await"]
        /\ UNCHANGED <<case, recording, cursorsSeen, info, filePos, chan, current, todo, skips>>
    BY <1>6 DEF GetCursorBlock, input, playVars, history
  <2>2. \A d \in Conns : Looking(d)' => Looking(d) /\ todo'[d] = todo[d]
    BY <1>0, <2>1 DEF IInv, TypeInv, Looking
  <2> QED BY <1>0, <2>1, <2>2, StepFrame
<1> QED BY <1>1, <1>2, <1>3, <1>4, <1>5, <1>6 DEF GetCursor

(* An op is taken.                                                         *)
LEMMA ReceiveCounts ==
    ASSUME IInv, CInv, NEW c \in Conns,
           SkipNotConnected(c) \/ AddFromFile(c) \/ ReceiveQuery(c) \/ ReceiveUse(c)
    PROVE  CInv'
<1>1. /\ pc[c] = "idle" /\ chan[c] # <<>>
      /\ chan' = [chan EXCEPT ![c] = Tail(@)]
      /\ UNCHANGED <<case, recording, cursorsSeen, info, filePos, skips>>
  BY DEF SkipNotConnected, AddFromFile, ReceiveQuery, ReceiveUse, Receives, input, playVars, history
<1>2. CASE SkipNotConnected(c) \/ AddFromFile(c) \/ ReceiveQuery(c)
  <2>1. /\ \A d \in Conns : d # c => pc'[d] = pc[d] /\ current'[d] = current[d]
        /\ pc'[c] \in {"idle", "handle", "execute"} /\ todo' = todo
    BY <1>1, <1>2 DEF SkipNotConnected, AddFromFile, ReceiveQuery, IInv, TypeInv
  <2>2. ~Looking(c)'
    BY <2>1 DEF Looking
  <2> QED BY <1>1, <2>1, <2>2, TakeCounts
<1>3. CASE ReceiveUse(c)
  <2>1. /\ current' = [current EXCEPT ![c] = Head(chan[c])]
        /\ todo' = [todo EXCEPT ![c] = HeadOp(c).curs]
        /\ pc' = [pc EXCEPT ![c] = "lookup"]
    BY <1>3 DEF ReceiveUse
  <2>2. /\ \A d \in Conns : d # c => pc'[d] = pc[d] /\ current'[d] = current[d] /\ todo'[d] = todo[d]
        /\ current'[c] = Head(chan[c]) /\ todo'[c] = HeadOp(c).curs
    BY <2>1 DEF IInv, TypeInv
  <2> QED BY <1>1, <2>2, TakeCounts
<1> QED BY <1>2, <1>3

(* The other steps of a goroutine.                                         *)
LEMMA RestCounts ==
    ASSUME IInv, CInv, NEW c \in Conns,
           rewriteCursors(c) \/ ExecuteFails(c) \/ ExecuteReplies(c) \/ handleCompletedReplies(c)
             \/ ConnectionEnds(c)
    PROVE  CInv'
<1>1. /\ pc[c] \in {"lookup", "execute", "handle", "idle"}
      /\ \E q \in {"idle", "execute", "handle", "done"} : pc' = [pc EXCEPT ![c] = q]
      /\ UNCHANGED <<case, recording, cursorsSeen, filePos, chan, current, todo, skips>>
  BY DEF rewriteCursors, ExecuteFails, ExecuteReplies, handleCompletedReplies, ConnectionEnds,
         input, playVars, history
<1>2. phase # "preprocess" /\ filePos \in Int
  <2>1. pc[c] \notin {"none", "done"}
    BY <1>1
  <2> QED BY <2>1, Running DEF IInv, TypeInv
<1>3. \A d \in Conns : Looking(d)' => Looking(d) /\ todo'[d] = todo[d]
  BY <1>1 DEF IInv, TypeInv, Looking
<1>4. \A k \in Cursors : preprocess => info'[k].uses = info[k].uses /\ info'[k].mapped = info[k].mapped
  <2>1. CASE rewriteCursors(c) \/ ExecuteReplies(c) \/ ConnectionEnds(c)
    BY <2>1 DEF rewriteCursors, ExecuteReplies, ConnectionEnds
  <2>2. ASSUME NEW k \in Cursors, preprocess, ExecuteFails(c)
        PROVE  info'[k].uses = info[k].uses /\ info'[k].mapped = info[k].mapped
    <3>1. info'[k] = info[k] \/ info'[k] = [info[k] EXCEPT !.fail = TRUE]
      BY <2>2 DEF ExecuteFails, MarkFailed
    <3>2. info[k] \in Infos
      BY DEF IInv, TypeInv
    <3> QED BY <3>1, <3>2 DEF Infos
  <2>3. ASSUME NEW k \in Cursors, preprocess, handleCompletedReplies(c)
        PROVE  info'[k].uses = info[k].uses /\ info'[k].mapped = info[k].mapped
    <3>1. info'[k] = info[k] \/ \E live : info'[k] = [info[k] EXCEPT !.success = TRUE, !.live = live]
      <4>1. PICK pick \in [{p.file : p \in complete} -> complete] :
              info' = [x \in Cursors |-> IF x \in DOMAIN pick THEN SetCursor(info[x], pick[x].live)
                                                             ELSE info[x]]
        BY <2>3 DEF handleCompletedReplies
      <4>2. info'[k] = info[k] \/ info'[k] = SetCursor(info[k], pick[k].live)
        BY <4>1
      <4> QED BY <2>3, <4>2 DEF SetCursor
    <3>2. info[k] \in Infos
      BY DEF IInv, TypeInv
    <3> QED BY <3>1, <3>2 DEF Infos
  <2> QED BY <2>1, <2>2, <2>3
<1> QED BY <1>1, <1>2, <1>3, <1>4, StepFrame

LEMMA InitCounts == Init => CInv
<1> SUFFICES ASSUME Init PROVE CInv
  OBVIOUS
<1>1. \A k \in Cursors : Places(k) = {} /\ cursorsSeen[k].uses = 0
  BY DEF Init, Places, NotSeen
<1>2. SeenInv
  BY <1>1, FS_EmptySet DEF SeenInv
<1>3. TodoInv /\ CountInv /\ CursorNotForgotten
  BY DEF Init, TodoInv, Looking, CountInv, CursorNotForgotten
<1> QED BY <1>2, <1>3 DEF CInv

LEMMA NextCounts == IInv /\ IInv' /\ CInv /\ [Next]_vars => CInv'
<1> SUFFICES ASSUME IInv, IInv', CInv, [Next]_vars PROVE CInv'
  OBVIOUS
<1>1. CASE PreprocessOp
  BY <1>1, PreprocessOpCounts
<1>2. CASE Play
  BY <1>2, PlayCounts
<1>3. ASSUME NEW c \in Conns, Connection(c) PROVE CInv'
  BY <1>3, ReceiveCounts, GetCursorCounts, RestCounts DEF Connection
<1>4. CASE Expire
  <2>1. /\ phase # "preprocess"
        /\ UNCHANGED <<case, recording, cursorsSeen, filePos, chan, pc, current, todo, skips>>
        /\ preprocess => info' = info
    BY <1>4 DEF Expire, input, playVars, connVars, history
  <2>2. \A c \in Conns : Looking(c)' => Looking(c) /\ todo'[c] = todo[c]
    BY <2>1 DEF Looking
  <2>3. filePos \in Int
    BY DEF IInv, TypeInv
  <2> QED BY <2>1, <2>2, <2>3, StepFrame
<1>5. CASE Terminating \/ UNCHANGED vars
  <2>1. UNCHANGED <<case, recording, phase, cursorsSeen, info, filePos, chan, pc, current, todo, skips>>
    BY <1>5 DEF Terminating, vars, input, playVars, connVars, history
  <2>2. \A k : Places(k)' = Places(k) /\ PlacesAhead(k)' = PlacesAhead(k)
    BY <2>1 DEF Places, UsesIn, PlacesAhead, Ahead, Looking
  <2>3. preprocess' = preprocess /\ Repeat' = Repeat /\ \A k : Kept(k)' <=> Kept(k)
    BY <2>1, SameCase DEF Kept
  <2>4. SeenInv'
    BY <2>1, <2>2 DEF CInv, SeenInv
  <2>5. TodoInv'
    BY <2>1 DEF CInv, TodoInv, Looking
  <2>6. CountInv'
    BY <2>1, <2>2, <2>3 DEF CInv, CountInv
  <2>7. CursorNotForgotten'
    BY <2>1, <2>3 DEF CInv, CursorNotForgotten, Kept
  <2> QED BY <2>4, <2>5, <2>6, <2>7 DEF CInv
<1> QED BY <1>1, <1>2, <1>3, <1>4, <1>5 DEF Next

(* In a single playback a cursor that the file both creates and uses is    *)
(* never forgotten while an op still has to look it up: numUsesLeft counts *)
(* every use, in whatever order the connections come to theirs.            *)
THEOREM CursorNotForgottenHolds == Spec => []CursorNotForgotten
<1>1. Init => CInv
  BY InitCounts
<1>2. IInv /\ IInv' /\ CInv /\ [Next]_vars => CInv'
  BY NextCounts
<1>3. CInv => CursorNotForgotten
  BY DEF CInv
<1> QED BY <1>1, <1>2, <1>3, InvariantHolds, PTL DEF Spec
=============================================================================
