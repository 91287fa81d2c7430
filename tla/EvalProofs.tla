----------------------------- MODULE EvalProofs -----------------------------
(***************************************************************************)
(* Proofs about Eval: its state is well typed, an exception that is        *)
(* unwinding always finds the frames below it prepared, the value stacks   *)
(* are as deep as the code takes them to be, exceptions do not overtake    *)
(* one another, the exception stacks and the disposable stacks follow the  *)
(* statements, and an exception is caught at the innermost try, for any    *)
(* number of frames, any nest of statements and any size of the stacks.    *)
(***************************************************************************)
EXTENDS Eval, SequenceFacts, TLAPS

(***************************************************************************)
(* The inductive invariant, as a predicate of a stack of frames fs and of  *)
(* the flag u, so that it can be stated of the frames in the middle of an  *)
(* instruction as well.                                                    *)
(***************************************************************************)
\* What holds of every frame.
FrameInv(f) ==
    /\ f \in Frame
    /\ Len(f.handlers) <= HandlerMax
    /\ Len(f.pending) <= 1
    \* A handler is pending only in a frame an exception has interrupted.
    /\ f.pending # <<>> => f.interrupt = "raise"
    \* Only a frame that is between two instructions returns or panics.
    /\ f.doing # "run" => f.interrupt \in {"no", "raise"}
    \* Only an exception makes an unguarded fetch overlook the flag.
    /\ f.fast => f.interrupt = "raise"

Unwinds(f) == f.interrupt = "raise" /\ f.pending = <<>>

StackInv(fs, u) ==
    /\ fs \in Seq(Frame)
    /\ \A i \in DOMAIN fs : FrameInv(fs[i])
    \* Only the top frame is between two instructions.
    /\ \A i \in DOMAIN fs : i < Len(fs) => fs[i].doing # "run"
    /\ \A i \in DOMAIN fs :
        Unwinds(fs[i]) => IF i = 1 THEN u ELSE fs[i - 1].interrupt = "raise"

IInv ==
    /\ StackInv(frames, unhandled)
    /\ unhandled \in BOOLEAN
    /\ faults \subseteq Faults

-----------------------------------------------------------------------------
\* Setting the interrupt flag of a frame touches nothing else.
LEMMA InterruptedFrame ==
    ASSUME NEW f \in Frame, NEW why \in {"no", "raise", "return", "panic"}
    PROVE  /\ Interrupted(f, why) \in Frame
           /\ Interrupted(f, why).interrupt =
                IF f.interrupt = "no" THEN why ELSE f.interrupt
           /\ Interrupted(f, why).handlers = f.handlers
           /\ Interrupted(f, why).pending = f.pending
           /\ Interrupted(f, why).doing = f.doing
           /\ Interrupted(f, why).fast = f.fast
  <1> DEFINE flag == IF f.interrupt = "no" THEN why ELSE f.interrupt
  <1>1. flag \in {"no", "raise", "return", "panic"}
    BY DEF Frame
  <1>2. Interrupted(f, why) = [f EXCEPT !.interrupt = flag]
    BY DEF Interrupted
  <1> HIDE DEF flag
  <1>3. /\ Interrupted(f, why) \in Frame
        /\ Interrupted(f, why).interrupt = flag
        /\ Interrupted(f, why).handlers = f.handlers
        /\ Interrupted(f, why).pending = f.pending
        /\ Interrupted(f, why).doing = f.doing
        /\ Interrupted(f, why).fast = f.fast
    BY <1>1, <1>2 DEF Frame
  <1> QED
    BY <1>3 DEF flag

\* The stack of frames with its top frame replaced.
LEMMA ReplaceTop ==
    ASSUME NEW fs, NEW u, StackInv(fs, u), fs # <<>>,
           NEW f, FrameInv(f), Unwinds(f) => Unwinds(fs[Len(fs)])
    PROVE  StackInv([fs EXCEPT ![Len(fs)] = f], u)
  <1> DEFINE gs == [fs EXCEPT ![Len(fs)] = f]
  <1>1. fs \in Seq(Frame) /\ f \in Frame
    BY DEF StackInv, FrameInv
  <1>2. /\ gs \in Seq(Frame) /\ Len(gs) = Len(fs) /\ DOMAIN gs = DOMAIN fs
        /\ gs[Len(fs)] = f /\ Len(fs) \in Nat \ {0}
        /\ \A i \in DOMAIN fs : i # Len(fs) => gs[i] = fs[i]
    BY <1>1, EmptySeq, LenProperties, ExceptSeq
  <1>3. \A i \in DOMAIN gs : FrameInv(gs[i])
    BY <1>2 DEF StackInv
  <1>4. \A i \in DOMAIN gs : i < Len(gs) => gs[i].doing # "run"
    BY <1>2 DEF StackInv
  <1>5. ASSUME NEW i \in DOMAIN gs, Unwinds(gs[i])
        PROVE  IF i = 1 THEN u ELSE gs[i - 1].interrupt = "raise"
    <2>1. Unwinds(fs[i])
      BY <1>2, <1>5
    <2>2. i = 1 \/ (i - 1 \in DOMAIN fs /\ i - 1 # Len(fs))
      BY <1>1, <1>2
    <2> QED
      BY <1>2, <2>1, <2>2 DEF StackInv
  <1> QED
    BY <1>2, <1>3, <1>4, <1>5 DEF StackInv

\* Raising from the top frame, whatever instruction it is in the middle of.
LEMMA RaiseInv ==
    ASSUME NEW fs, unhandled \in BOOLEAN, StackInv(fs, unhandled), fs # <<>>,
           fs[Len(fs)].interrupt \in {"no", "raise"}, Raise(fs)
    PROVE  StackInv(frames', unhandled') /\ unhandled' \in BOOLEAN
  <1>1. PICK j \in 0..Len(fs) :
            /\ IsCatcher(fs, j)
            /\ frames' = [i \in DOMAIN fs |->
                            IF i > j THEN Passed(fs[i])
                            ELSE IF i = j THEN Catching(fs[i])
                            ELSE fs[i]]
            /\ unhandled' = (unhandled \/ j = 0)
    BY DEF Raise
  <1>2. /\ fs \in Seq(Frame) /\ Len(fs) \in Nat \ {0}
        /\ DOMAIN fs = 1..Len(fs)
    BY EmptySeq, LenProperties DEF StackInv
  <1>3. \A i \in 1..Len(fs) : FrameInv(fs[i])
    BY <1>2 DEF StackInv
  <1>4. \A i \in 1..Len(fs) : fs[i].interrupt \in {"no", "raise"}
    <2> SUFFICES ASSUME NEW i \in 1..Len(fs), i < Len(fs)
                 PROVE  fs[i].interrupt \in {"no", "raise"}
      BY <1>2
    <2> QED
      BY <1>2, <1>3 DEF StackInv, FrameInv
  <1>5. ASSUME NEW i \in 1..Len(fs)
        PROVE  /\ FrameInv(Passed(fs[i]))
               /\ Passed(fs[i]).interrupt = "raise"
               /\ Passed(fs[i]).doing = fs[i].doing
               /\ Passed(fs[i]).handlers = fs[i].handlers
    BY <1>3, <1>4, InterruptedFrame DEF FrameInv, Passed
  <1>6. ASSUME NEW i \in 1..Len(fs), fs[i].handlers # <<>>
        PROVE  /\ FrameInv(Catching(fs[i]))
               /\ Catching(fs[i]).interrupt = "raise"
               /\ Catching(fs[i]).pending # <<>>
               /\ Catching(fs[i]).doing = fs[i].doing
    <2>1. fs[i].handlers \in Seq(Nests)
      BY <1>3 DEF FrameInv, Frame
    <2>2. /\ Front(fs[i].handlers) \in Seq(Nests)
          /\ Len(Front(fs[i].handlers)) <= HandlerMax
          /\ Last(fs[i].handlers) \in Nests
      <3>1. Len(fs[i].handlers) <= HandlerMax /\ HandlerMax \in Nat
        BY <1>3, EvalAssumption DEF FrameInv
      <3>2. /\ Front(fs[i].handlers) \in Seq(Nests)
            /\ Len(Front(fs[i].handlers)) = Len(fs[i].handlers) - 1
            /\ Last(fs[i].handlers) \in Nests
            /\ Len(fs[i].handlers) \in Nat
        BY <1>6, <2>1, FrontLast
      <3> QED
        BY <3>1, <3>2
    <2>3. /\ <<Last(fs[i].handlers)>> \in Seq(Nests)
          /\ Len(<<Last(fs[i].handlers)>>) = 1
          /\ <<Last(fs[i].handlers)>> # <<>>
      BY <2>2
    <2> DEFINE p == Passed(fs[i])
    <2>4. /\ FrameInv(p) /\ p.interrupt = "raise" /\ p.doing = fs[i].doing
          /\ p.handlers = fs[i].handlers
      BY <1>5
    <2>5. Catching(fs[i]) = [p EXCEPT !.pending = <<Last(fs[i].handlers)>>,
                                      !.handlers = Front(fs[i].handlers)]
      BY DEF Catching, Passed
    <2> DEFINE c == Catching(fs[i])
    <2> HIDE DEF p, c
    <2>6. /\ c \in Frame /\ c.interrupt = "raise" /\ c.doing = p.doing
          /\ c.pending = <<Last(fs[i].handlers)>>
          /\ c.handlers = Front(fs[i].handlers) /\ c.fast = p.fast
      BY <2>2, <2>3, <2>4, <2>5 DEF FrameInv, Frame, c
    <2>7. FrameInv(c) /\ c.pending # <<>>
      BY <2>2, <2>3, <2>6 DEF FrameInv
    <2> QED
      BY <2>4, <2>6, <2>7 DEF c
  <1>7. \A i \in 1..Len(fs) :
            /\ FrameInv(frames'[i])
            /\ frames'[i].doing = fs[i].doing
            /\ i > j => frames'[i].interrupt = "raise"
            /\ i = j => /\ frames'[i].interrupt = "raise"
                       /\ frames'[i].pending # <<>>
            /\ i < j => frames'[i] = fs[i]
    BY <1>1, <1>2, <1>3, <1>5, <1>6 DEF IsCatcher
  <1>8. frames' \in Seq(Frame) /\ Len(frames') = Len(fs)
        /\ DOMAIN frames' = 1..Len(fs)
    <2>1. frames' \in [1..Len(fs) -> Frame]
      <3>1. frames' = [i \in 1..Len(fs) |-> frames'[i]]
        BY <1>1, <1>2
      <3>2. \A i \in 1..Len(fs) : frames'[i] \in Frame
        BY <1>7 DEF FrameInv
      <3> HIDE DEF Frame
      <3> QED
        BY ONLY <3>1, <3>2
    <2>2. frames' \in Seq(Frame)
      BY <1>2, <2>1, SeqDef
    <2> QED
      BY <1>2, <2>1, <2>2, LenProperties
  <1>9. ASSUME NEW i \in 1..Len(fs), Unwinds(frames'[i])
        PROVE  IF i = 1 THEN unhandled' ELSE frames'[i - 1].interrupt = "raise"
    <2>1. CASE i > j
      <3>1. CASE i = 1
        <4>1. j = 0
          BY <2>1, <3>1
        <4> QED
          BY <1>1, <3>1, <4>1
      <3>2. CASE i # 1
        <4>1. i - 1 \in 1..Len(fs) /\ i - 1 >= j
          BY <2>1, <3>2
        <4> QED
          BY <1>7, <3>2, <4>1
      <3> QED
        BY <3>1, <3>2
    <2>2. CASE i = j
      BY <1>7, <1>9, <2>2 DEF Unwinds
    <2>3. CASE i < j
      <3>1. Unwinds(fs[i])
        BY <1>7, <1>9, <2>3
      <3>2. IF i = 1 THEN unhandled ELSE fs[i - 1].interrupt = "raise"
        BY <1>2, <3>1 DEF StackInv
      <3>3. i # 1 => i - 1 \in 1..Len(fs) /\ i - 1 < j
        BY <2>3
      <3> QED
        BY <1>1, <1>7, <3>2, <3>3
    <2> QED
      BY <2>1, <2>2, <2>3
  <1>10. \A i \in 1..Len(fs) : i < Len(fs) => frames'[i].doing # "run"
    BY <1>2, <1>7 DEF StackInv
  <1> QED
    BY <1>1, <1>7, <1>8, <1>9, <1>10 DEF StackInv

-----------------------------------------------------------------------------
(***************************************************************************)
(* The top frame, and steps that replace it.                               *)
(***************************************************************************)
LEMMA TopFrame ==
    ASSUME IInv, frames # <<>>
    PROVE  /\ FrameInv(Top)
           /\ Top \in Frame
           /\ Len(frames) \in Nat \ {0}
           /\ Fetches => Top.interrupt \in {"no", "raise"}
  <1>1. Len(frames) \in Nat \ {0} /\ DOMAIN frames = 1..Len(frames)
    BY EmptySeq, LenProperties DEF IInv, StackInv
  <1>2. FrameInv(Top)
    BY <1>1 DEF IInv, StackInv, Top
  <1> QED
    BY <1>1, <1>2 DEF FrameInv, Fetches

\* A step of the top frame that keeps what holds of frames.
LEMMA SetTopInv ==
    ASSUME IInv, frames # <<>>,
           NEW f, FrameInv(f), Unwinds(f) => Unwinds(Top), SetTop(f),
           unhandled' = unhandled, faults' \subseteq Faults
    PROVE  IInv'
  <1>1. StackInv(WithTop(f), unhandled)
    BY ReplaceTop DEF IInv, Top, WithTop
  <1>2. frames' = WithTop(f)
    BY DEF SetTop
  <1>3. StackInv(frames', unhandled')
    BY <1>1, <1>2
  <1>4. unhandled' \in BOOLEAN /\ faults' \subseteq Faults
    BY DEF IInv
  <1> QED
    BY <1>3, <1>4 DEF IInv, StackInv, FrameInv, Unwinds

\* The record of a missed interrupt is one of Faults.
LEMMA MissedIsFault ==
    ASSUME IInv, NoteMissed
    PROVE  faults' \subseteq Faults
  <1> QED
    BY DEF IInv, NoteMissed, Faults

\* A new top frame that keeps the interrupt flag and the pending handler.
LEMMA SameFlags ==
    ASSUME IInv, frames # <<>>, NEW f \in Frame,
           f.interrupt = Top.interrupt, f.pending = Top.pending,
           Len(f.handlers) <= HandlerMax,
           f.doing # "run" => f.interrupt \in {"no", "raise"},
           f.fast => f.interrupt = "raise"
    PROVE  FrameInv(f) /\ (Unwinds(f) => Unwinds(Top))
  <1> QED
    BY TopFrame DEF FrameInv, Unwinds

-----------------------------------------------------------------------------
(***************************************************************************)
(* Instructions that only move values, and the ends of those that run      *)
(* other code.                                                             *)
(***************************************************************************)
LEMMA LoadInv == ASSUME IInv, Load PROVE IInv'
  <1> DEFINE t == Top
             g == [t EXCEPT !.stack = Append(t.stack, "val"),
                            !.depth = t.depth + 1]
  <1>1. /\ frames # <<>> /\ t \in Frame /\ FrameInv(t) /\ t.doing = "run"
        /\ SetTop(g) /\ NoteMissed /\ unhandled' = unhandled
    BY TopFrame DEF Load, Fetches
  <1>2. Append(t.stack, "val") \in Seq(Values) /\ t.depth + 1 \in Nat
    BY <1>1 DEF Frame, Values
  <1> HIDE DEF t
  <1>3. /\ g \in Frame
        /\ g.interrupt = t.interrupt /\ g.pending = t.pending
        /\ g.handlers = t.handlers /\ g.doing = t.doing /\ g.fast = t.fast
    BY <1>1, <1>2 DEF Frame
  <1> HIDE DEF g
  <1>4. FrameInv(g) /\ (Unwinds(g) => Unwinds(t))
    BY <1>1, <1>3, SameFlags DEF FrameInv, t
  <1> QED
    BY <1>1, <1>4, MissedIsFault, SetTopInv DEF t

\* POP, STORE_FAST and STORE_GLOBAL.
LEMMA PopValueInv ==
    ASSUME IInv, NEW keep \in BOOLEAN, PopValue(keep)
    PROVE  IInv'
  <1> DEFINE t == Top
             v == IF keep THEN Last(t.stack) ELSE t.retval
             g == [t EXCEPT !.stack = Front(t.stack), !.depth = 0, !.retval = v]
  <1>1. /\ frames # <<>> /\ t \in Frame /\ FrameInv(t) /\ t.doing = "run"
        /\ SetTop(g) /\ NoteMissed /\ unhandled' = unhandled
        /\ t.depth = 1 /\ Len(t.stack) >= 1
    BY TopFrame DEF PopValue, Fetches, Sound
  <1>2. t.stack \in Seq(Values) /\ t.stack # <<>>
    BY <1>1, EmptySeq DEF Frame
  <1>3. /\ Front(t.stack) \in Seq(Values)
        /\ v \in {"none", "val", "null"}
    <2>1. Last(t.stack) \in Values /\ Front(t.stack) \in Seq(Values)
      BY <1>2, FrontLast
    <2> QED
      BY <1>1, <2>1 DEF Frame, Values
  <1> HIDE DEF t, v
  <1>4. /\ g \in Frame
        /\ g.interrupt = t.interrupt /\ g.pending = t.pending
        /\ g.handlers = t.handlers /\ g.doing = t.doing /\ g.fast = t.fast
    BY <1>1, <1>3 DEF Frame
  <1> HIDE DEF g
  <1>5. FrameInv(g) /\ (Unwinds(g) => Unwinds(t))
    BY <1>1, <1>4, SameFlags DEF FrameInv, t
  <1> QED
    BY <1>1, <1>5, MissedIsFault, SetTopInv DEF t

\* An instruction takes its operands and runs other code.
LEMMA BeginInv ==
    ASSUME IInv, NEW kind \in Kinds, Begin(kind)
    PROVE  IInv'
  <1> DEFINE t == Top
             n == Operands(kind)
             g == [t EXCEPT !.stack = Pop(t.stack, n), !.depth = t.depth - n,
                            !.doing = kind, !.got = "nothing", !.fast = FALSE]
  <1>1. /\ frames # <<>> /\ t \in Frame /\ FrameInv(t)
        /\ t.interrupt \in {"no", "raise"}
        /\ SetTop(g) /\ NoteMissed /\ unhandled' = unhandled
        /\ t.depth >= n /\ Len(t.stack) >= t.depth
    BY TopFrame DEF Begin, Fetches, Sound
  <1>2. n \in Nat /\ kind \in AllKinds
    BY EvalAssumption DEF Operands
  <1>3. t.stack \in Seq(Values) /\ t.depth \in Nat /\ Len(t.stack) \in Nat
    BY <1>1 DEF Frame
  <1> HIDE DEF t, n
  <1>4. Pop(t.stack, n) \in Seq(Values)
    <2>1. Len(t.stack) - n \in 0..Len(t.stack)
      BY <1>1, <1>2, <1>3
    <2> QED
      BY <1>3, <2>1, SubSeqTyped DEF Pop
  <1>5. t.depth - n \in Nat
    BY <1>1, <1>2, <1>3
  <1>6. /\ g \in Frame
        /\ g.interrupt = t.interrupt /\ g.pending = t.pending
        /\ g.handlers = t.handlers /\ ~g.fast
    BY <1>1, <1>2, <1>4, <1>5 DEF Frame
  <1> HIDE DEF g
  <1>7. FrameInv(g) /\ (Unwinds(g) => Unwinds(t))
    BY <1>1, <1>6, SameFlags DEF FrameInv, t
  <1> QED
    BY <1>1, <1>7, MissedIsFault, SetTopInv DEF t

\* It uses the result.
LEMMA FinishInv ==
    ASSUME IInv, NEW res \in Values, Finish(res)
    PROVE  IInv'
  <1> DEFINE t == Top
             s == t.stack \o Pushed(t.doing, res)
             d == t.depth + Yields(t.doing)
             q == t.doing = "build" /\ t.interrupt # "no"
             g == [t EXCEPT !.stack = s, !.depth = d, !.doing = "run",
                            !.got = "nothing", !.fast = q]
  <1>1. /\ frames # <<>> /\ t \in Frame /\ FrameInv(t)
        /\ t.doing # "run" /\ t.interrupt \in {"no", "raise"}
        /\ SetTop(g) /\ unhandled' = unhandled
    BY TopFrame DEF Finish, FrameInv
  <1>2. faults' \subseteq Faults
    BY DEF Finish, IInv, Faults
  <1>3. Pushed(t.doing, res) \in Seq(Values)
    <2> HIDE DEF t, s, d, q, g
    <2>1. Pushed(t.doing, res) \in {<<>>, <<"val">>, <<res>>}
      BY DEF Pushed
    <2>2. "val" \in Values
      BY DEF Values
    <2>3. \A v \in Values : <<v>> \in Seq(Values)
      OBVIOUS
    <2>4. <<>> \in Seq(Values)
      OBVIOUS
    <2> QED
      BY ONLY <2>1, <2>2, <2>3, <2>4, res \in Values
  <1>4. s \in Seq(Values)
    BY <1>1, <1>3 DEF Frame
  <1>5. d \in Nat /\ q \in BOOLEAN
    BY <1>1 DEF Frame, Yields
  <1>6. q => t.interrupt = "raise"
    BY <1>1
  <1> HIDE DEF t, s, d, q
  <1>7. /\ g \in Frame
        /\ g.interrupt = t.interrupt /\ g.pending = t.pending
        /\ g.handlers = t.handlers /\ g.doing = "run" /\ g.fast = q
    BY <1>1, <1>4, <1>5 DEF Frame
  <1> HIDE DEF g
  <1>8. FrameInv(g) /\ (Unwinds(g) => Unwinds(t))
    BY <1>1, <1>6, <1>7, SameFlags DEF FrameInv, t
  <1> QED
    BY <1>1, <1>2, <1>8, SetTopInv DEF t

-----------------------------------------------------------------------------
(***************************************************************************)
(* Statements.                                                             *)
(***************************************************************************)
\* The facts about the top frame that the actions below have in common.
LEMMA AtStatementFacts ==
    ASSUME IInv, AtStatement
    PROVE  /\ frames # <<>> /\ Top \in Frame /\ FrameInv(Top)
           /\ Top.doing = "run" /\ Top.interrupt \in {"no", "raise"}
           /\ Top.nest \in Nests /\ Top.handlers \in Seq(Nests)
           /\ Top.disposable \in Seq(Nests)
  <1> QED
    BY TopFrame DEF AtStatement, Fetches, Frame

\* A nest with statements added or left is a nest.
LEMMA NestTyped ==
    ASSUME NEW nest \in Nests
    PROVE  /\ \A block \in AllBlocks : Append(nest, block) \in Nests
           /\ nest # <<>> => Front(nest) \in Nests
           /\ \A k \in 0..Len(nest) : SubSeq(nest, 1, k) \in Nests
  <1>1. \A block \in AllBlocks : Append(nest, block) \in Nests
    BY DEF Nests
  <1>2. nest # <<>> => Front(nest) \in Nests
    BY FrontLast DEF Nests
  <1>3. \A k \in 0..Len(nest) : SubSeq(nest, 1, k) \in Nests
    BY SubSeqTyped DEF Nests
  <1> QED
    BY <1>1, <1>2, <1>3

\* PUSH_EXCEPTION_HANDLER.
LEMMA EnterTryInv == ASSUME IInv, EnterTry PROVE IInv'
  <1> DEFINE t == Top
             g == [t EXCEPT !.handlers = Append(t.handlers, t.nest),
                            !.nest = Append(t.nest, "try"), !.fast = FALSE]
  <1>1. /\ frames # <<>> /\ t \in Frame /\ FrameInv(t) /\ t.doing = "run"
        /\ t.nest \in Nests /\ t.handlers \in Seq(Nests)
        /\ SetTop(g) /\ NoteMissed /\ unhandled' = unhandled
        /\ Len(t.handlers) < HandlerMax 
    BY AtStatementFacts DEF EnterTry, HandlerRoom
  <1> HIDE DEF t
  <1>2. /\ Append(t.handlers, t.nest) \in Seq(Nests)
        /\ Len(Append(t.handlers, t.nest)) <= HandlerMax
        /\ Append(t.nest, "try") \in Nests
    <2>1. Append(t.nest, "try") \in Nests
      BY <1>1, NestTyped DEF AllBlocks
    <2>2. /\ Append(t.handlers, t.nest) \in Seq(Nests)
          /\ Len(Append(t.handlers, t.nest)) = Len(t.handlers) + 1
      BY <1>1, AppendProperties
    <2>3. Len(t.handlers) \in Nat
      BY <1>1
    <2> QED
      BY <1>1, <2>1, <2>2, <2>3, EvalAssumption
  <1>3. /\ g \in Frame
        /\ g.interrupt = t.interrupt /\ g.pending = t.pending
        /\ g.handlers = Append(t.handlers, t.nest)
        /\ g.doing = t.doing /\ ~g.fast
    BY <1>1, <1>2 DEF Frame
  <1> HIDE DEF g
  <1>4. FrameInv(g) /\ (Unwinds(g) => Unwinds(t))
    BY <1>1, <1>2, <1>3, SameFlags DEF FrameInv, t
  <1> QED
    BY <1>1, <1>4, MissedIsFault, SetTopInv DEF t

\* PUSH_EXCEPTION_HANDLER on a full stack.
LEMMA EnterTryPanicsInv == ASSUME IInv, EnterTryPanics PROVE IInv'
  <1> DEFINE t == Top
             p == Interrupted(t, "panic")
             g == [p EXCEPT !.fast = FALSE]
  <1>1. /\ frames # <<>> /\ t \in Frame /\ FrameInv(t) /\ t.doing = "run"
        /\ SetTop(g) /\ unhandled' = unhandled
        /\ faults' \subseteq Faults
    BY AtStatementFacts DEF EnterTryPanics, IInv, Faults
  <1> HIDE DEF t
  <1>2. /\ p \in Frame
        /\ p.interrupt = IF t.interrupt = "no" THEN "panic" ELSE t.interrupt
        /\ p.handlers = t.handlers /\ p.pending = t.pending
        /\ p.doing = t.doing
    BY <1>1, InterruptedFrame
  <1> HIDE DEF p
  <1>3. /\ g \in Frame /\ g.interrupt = p.interrupt /\ g.handlers = p.handlers
        /\ g.pending = p.pending /\ g.doing = p.doing /\ ~g.fast
    BY <1>2 DEF Frame
  <1> HIDE DEF g
  <1>4. FrameInv(g) /\ (Unwinds(g) => Unwinds(t))
    BY <1>1, <1>2, <1>3 DEF FrameInv, Unwinds
  <1> QED
    BY <1>1, <1>4, SetTopInv DEF t

\* POP_EXCEPTION_HANDLER.
LEMMA LeaveTryInv == ASSUME IInv, LeaveTry PROVE IInv'
  <1> DEFINE t == Top
             g == [t EXCEPT !.handlers = Front(t.handlers),
                            !.nest = Front(t.nest), !.fast = FALSE]
  <1>1. /\ frames # <<>> /\ t \in Frame /\ FrameInv(t) /\ t.doing = "run"
        /\ t.nest \in Nests /\ t.handlers \in Seq(Nests)
        /\ SetTop(g) /\ NoteMissed /\ unhandled' = unhandled
        /\ t.handlers # <<>> /\ t.nest # <<>>
    BY AtStatementFacts DEF LeaveTry, Innermost
  <1> HIDE DEF t
  <1>2. /\ Front(t.handlers) \in Seq(Nests)
        /\ Len(Front(t.handlers)) <= HandlerMax
        /\ Front(t.nest) \in Nests
    BY <1>1, FrontLast, NestTyped, EvalAssumption DEF FrameInv
  <1>3. /\ g \in Frame
        /\ g.interrupt = t.interrupt /\ g.pending = t.pending
        /\ g.handlers = Front(t.handlers) /\ g.doing = t.doing /\ ~g.fast
    BY <1>1, <1>2 DEF Frame
  <1> HIDE DEF g
  <1>4. FrameInv(g) /\ (Unwinds(g) => Unwinds(t))
    BY <1>1, <1>2, <1>3, SameFlags DEF FrameInv, t
  <1> QED
    BY <1>1, <1>4, MissedIsFault, SetTopInv DEF t

\* BEGIN_WITH, up to its call.
LEMMA BeginWithInv == ASSUME IInv, BeginWith PROVE IInv'
  <1> DEFINE t == Top
             g == [t EXCEPT !.stack = Front(t.stack), !.depth = 0,
                            !.doing = "enter", !.got = "nothing",
                            !.fast = FALSE]
  <1>1. /\ frames # <<>> /\ t \in Frame /\ FrameInv(t)
        /\ t.interrupt \in {"no", "raise"}
        /\ SetTop(g) /\ NoteMissed /\ unhandled' = unhandled
        /\ Len(t.stack) >= 1
    BY TopFrame DEF BeginWith, Fetches, Sound
  <1> HIDE DEF t
  <1>2. Front(t.stack) \in Seq(Values)
    <2>1. t.stack \in Seq(Values) /\ t.stack # <<>>
      BY <1>1, EmptySeq DEF Frame
    <2> QED
      BY <2>1, FrontLast
  <1>3. /\ g \in Frame
        /\ g.interrupt = t.interrupt /\ g.pending = t.pending
        /\ g.handlers = t.handlers /\ ~g.fast
    BY <1>1, <1>2 DEF Frame, AllKinds
  <1> HIDE DEF g
  <1>4. FrameInv(g) /\ (Unwinds(g) => Unwinds(t))
    BY <1>1, <1>3, SameFlags DEF FrameInv, t
  <1> QED
    BY <1>1, <1>4, MissedIsFault, SetTopInv DEF t

\* BEGIN_WITH, after its call.
LEMMA BeginWithEnteredInv == ASSUME IInv, BeginWithEntered PROVE IInv'
  <1> DEFINE t == Top
             d == IF unhandled THEN t.disposable ELSE Append(t.disposable, t.nest)
             g == [t EXCEPT !.disposable = d, !.nest = Append(t.nest, "with"),
                            !.doing = "run", !.got = "nothing"]
  <1>1. /\ frames # <<>> /\ t \in Frame /\ FrameInv(t) /\ t.doing = "enter"
        /\ SetTop(g) /\ unhandled' = unhandled /\ faults' \subseteq Faults
    BY TopFrame DEF BeginWithEntered, IInv
  <1> HIDE DEF t
  <1>2. d \in Seq(Nests) /\ Append(t.nest, "with") \in Nests
    <2>1. t.disposable \in Seq(Nests) /\ t.nest \in Nests
      BY <1>1 DEF Frame
    <2> QED
      BY <2>1, NestTyped, AppendProperties DEF AllBlocks
  <1> HIDE DEF d
  <1>3. /\ g \in Frame
        /\ g.interrupt = t.interrupt /\ g.pending = t.pending
        /\ g.handlers = t.handlers /\ g.doing = "run" /\ g.fast = t.fast
    BY <1>1, <1>2 DEF Frame
  <1> HIDE DEF g
  <1>4. FrameInv(g) /\ (Unwinds(g) => Unwinds(t))
    BY <1>1, <1>3, SameFlags DEF FrameInv, t
  <1> QED
    BY <1>1, <1>4, SetTopInv DEF t

\* END_WITH, up to its call.
LEMMA EndWithInv == ASSUME IInv, EndWith PROVE IInv'
  <1> DEFINE t == Top
             g == [t EXCEPT !.disposable = Disposed(t.disposable),
                            !.nest = Front(t.nest), !.doing = "exit",
                            !.got = "nothing", !.fast = FALSE]
  <1>1. /\ frames # <<>> /\ t \in Frame /\ FrameInv(t)
        /\ t.interrupt \in {"no", "raise"}
        /\ t.nest \in Nests /\ t.disposable \in Seq(Nests)
        /\ SetTop(g) /\ NoteMissed /\ unhandled' = unhandled
        /\ t.disposable # <<>> /\ t.nest # <<>>
    BY AtStatementFacts DEF EndWith, Innermost
  <1> HIDE DEF t
  <1>2. Disposed(t.disposable) \in Seq(Nests) /\ Front(t.nest) \in Nests
    BY <1>1, FrontLast, NestTyped DEF Disposed
  <1>3. /\ g \in Frame
        /\ g.interrupt = t.interrupt /\ g.pending = t.pending
        /\ g.handlers = t.handlers /\ ~g.fast
    BY <1>1, <1>2 DEF Frame, AllKinds
  <1> HIDE DEF g
  <1>4. FrameInv(g) /\ (Unwinds(g) => Unwinds(t))
    BY <1>1, <1>3, SameFlags DEF FrameInv, t
  <1> QED
    BY <1>1, <1>4, MissedIsFault, SetTopInv DEF t

\* END_WITH, after its call.
LEMMA EndWithExitedInv == ASSUME IInv, EndWithExited PROVE IInv'
  <1> DEFINE t == Top
             g == [t EXCEPT !.doing = "run", !.got = "nothing"]
  <1>1. /\ frames # <<>> /\ t \in Frame /\ FrameInv(t)
        /\ SetTop(g) /\ unhandled' = unhandled /\ faults' \subseteq Faults
    BY TopFrame DEF EndWithExited, IInv
  <1> HIDE DEF t
  <1>2. /\ g \in Frame
        /\ g.interrupt = t.interrupt /\ g.pending = t.pending
        /\ g.handlers = t.handlers /\ g.doing = "run" /\ g.fast = t.fast
    BY <1>1 DEF Frame
  <1> HIDE DEF g
  <1>3. FrameInv(g) /\ (Unwinds(g) => Unwinds(t))
    BY <1>1, <1>2, SameFlags DEF FrameInv, t
  <1> QED
    BY <1>1, <1>3, SetTopInv DEF t

\* A step of a frame between two instructions that changes its nest only.
LEMMA NestStepInv ==
    ASSUME IInv, AtStatement, NEW nest \in Nests,
           SetTop([Top EXCEPT !.nest = nest]), NoteMissed,
           unhandled' = unhandled
    PROVE  IInv'
  <1> DEFINE t == Top
             g == [t EXCEPT !.nest = nest]
  <1>1. frames # <<>> /\ t \in Frame /\ FrameInv(t) /\ SetTop(g)
    BY AtStatementFacts
  <1> HIDE DEF t
  <1>2. /\ g \in Frame
        /\ g.interrupt = t.interrupt /\ g.pending = t.pending
        /\ g.handlers = t.handlers /\ g.doing = t.doing /\ g.fast = t.fast
    BY <1>1 DEF Frame
  <1> HIDE DEF g
  <1>3. FrameInv(g) /\ (Unwinds(g) => Unwinds(t))
    BY <1>1, <1>2, SameFlags DEF FrameInv, t
  <1> QED
    BY <1>1, <1>3, MissedIsFault, SetTopInv DEF t

\* A loop begins.
LEMMA EnterLoopInv == ASSUME IInv, EnterLoop PROVE IInv'
  <1>1. Append(Top.nest, "loop") \in Nests
    BY AtStatementFacts, NestTyped DEF EnterLoop, AllBlocks
  <1> QED
    BY <1>1, NestStepInv DEF EnterLoop

\* A loop is over.
LEMMA LeaveLoopInv == ASSUME IInv, LeaveLoop PROVE IInv'
  <1>1. Front(Top.nest) \in Nests
    BY AtStatementFacts, NestTyped DEF LeaveLoop, Innermost
  <1> QED
    BY <1>1, NestStepInv DEF LeaveLoop

-----------------------------------------------------------------------------
(***************************************************************************)
(* Jumps.                                                                  *)
(***************************************************************************)
LEMMA AbandonTyped ==
    ASSUME NEW f \in Frame, NEW at \in Nests
    PROVE  /\ Abandon(f, at) \in Frame
           /\ Abandon(f, at).interrupt = f.interrupt
           /\ Abandon(f, at).handlers = f.handlers
           /\ Abandon(f, at).pending = f.pending
           /\ Abandon(f, at).doing = f.doing
           /\ Abandon(f, at).fast = f.fast
  <1> DEFINE lt == f.leftTry \/ Open(f.nest, "try") # Open(at, "try")
             lw == f.leftWith \/ Open(f.nest, "with") # Open(at, "with")
  <1>1. lt \in BOOLEAN /\ lw \in BOOLEAN
    BY Zenon
  <1>2. Abandon(f, at) = [f EXCEPT !.nest = at, !.leftTry = lt, !.leftWith = lw]
    BY DEF Abandon
  <1> HIDE DEF lt, lw
  <1> QED
    BY <1>1, <1>2 DEF Frame

\* break and continue.
LEMMA BreakInv ==
    ASSUME IInv, NEW continues \in BOOLEAN, Break(continues)
    PROVE  IInv'
  <1> DEFINE t == Top
  <1>1. /\ frames # <<>> /\ t \in Frame /\ FrameInv(t) /\ t.doing = "run"
        /\ t.nest \in Nests /\ NoteMissed /\ unhandled' = unhandled
    BY AtStatementFacts DEF Break
  <1>2. PICK k \in DOMAIN t.nest :
            SetTop([Abandon(t, SubSeq(t.nest, 1,
                                      IF continues THEN k ELSE k - 1))
                    EXCEPT !.fast = FALSE])
    BY DEF Break
  <1> DEFINE n == IF continues THEN k ELSE k - 1
             at == SubSeq(t.nest, 1, n)
             a == Abandon(t, at)
             g == [a EXCEPT !.fast = FALSE]
  <1> HIDE DEF t
  <1>3. at \in Nests
    <2>1. t.nest \in Seq(AllBlocks)
      BY <1>1 DEF Nests
    <2>2. k \in 1..Len(t.nest) /\ Len(t.nest) \in Nat
      BY <2>1, LenProperties
    <2>3. n \in 0..Len(t.nest)
      BY <2>2
    <2> QED
      BY <2>3, <1>1, NestTyped
  <1>4. SetTop(g)
    BY <1>2
  <1> HIDE DEF n, at
  <1>5. /\ a \in Frame /\ a.interrupt = t.interrupt /\ a.handlers = t.handlers
        /\ a.pending = t.pending /\ a.doing = t.doing
    BY <1>1, <1>3, AbandonTyped
  <1> HIDE DEF a
  <1>6. /\ g \in Frame /\ g.interrupt = t.interrupt /\ g.handlers = t.handlers
        /\ g.pending = t.pending /\ g.doing = t.doing /\ ~g.fast
    BY <1>5 DEF Frame
  <1> HIDE DEF g
  <1>7. FrameInv(g) /\ (Unwinds(g) => Unwinds(t))
    BY <1>1, <1>6, SameFlags DEF FrameInv, t
  <1> QED
    BY <1>1, <1>4, <1>7, MissedIsFault, SetTopInv DEF t

\* A frame jumps to its handler.
LEMMA CatchInv == ASSUME IInv, Catch PROVE IInv'
  <1> DEFINE t == Top
             a == Abandon(t, t.pending[1])
             g == [a EXCEPT !.depth = 0, !.pending = <<>>, !.interrupt = "no",
                            !.leftTry = t.leftTry]
  <1>1. /\ frames # <<>> /\ t \in Frame /\ FrameInv(t) /\ t.doing = "run"
        /\ ~t.fast /\ t.pending # <<>>
        /\ SetTop(g) /\ unhandled' = unhandled /\ faults' \subseteq Faults
    BY TopFrame DEF Catch, Notices, IInv
  <1> HIDE DEF t
  <1>2. t.pending[1] \in Nests /\ t.leftTry \in BOOLEAN /\ <<>> \in Seq(Nests)
    <2>1. t.pending \in Seq(Nests)
      BY <1>1 DEF Frame
    <2>2. Len(t.pending) \in Nat \ {0}
      BY <1>1, <2>1, EmptySeq
    <2>3. t.pending[1] \in Nests
      BY <2>1, <2>2, ElementOfSeq
    <2> QED
      BY <1>1, <2>3 DEF Frame
  <1>3. /\ a \in Frame /\ a.handlers = t.handlers /\ a.doing = t.doing
        /\ a.fast = t.fast
    BY <1>1, <1>2, AbandonTyped
  <1> HIDE DEF a
  <1>4. /\ g \in Frame /\ g.interrupt = "no" /\ g.handlers = t.handlers
        /\ g.pending = <<>> /\ g.doing = "run" /\ ~g.fast
    <2>1. \A lt \in BOOLEAN, none \in Seq(Nests) :
            LET h == [a EXCEPT !.depth = 0, !.pending = none,
                               !.interrupt = "no", !.leftTry = lt]
            IN  /\ h \in Frame /\ h.interrupt = "no" /\ h.pending = none
                /\ h.handlers = a.handlers /\ h.doing = a.doing
                /\ h.fast = a.fast
      BY <1>3 DEF Frame
    <2> QED
      BY <1>1, <1>2, <1>3, <2>1
  <1> HIDE DEF g
  <1>5. FrameInv(g) /\ ~Unwinds(g)
    BY <1>1, <1>4 DEF FrameInv, Unwinds
  <1> QED
    BY <1>1, <1>5, SetTopInv DEF t

-----------------------------------------------------------------------------
(***************************************************************************)
(* Calls, returns and raises.                                              *)
(***************************************************************************)
LEMMA ReturnInv == ASSUME IInv, Return PROVE IInv'
  <1> DEFINE t == Top
             p == Interrupted(t, "return")
             s == IF t.stack = <<>> THEN t.stack ELSE Front(t.stack)
             g == [p EXCEPT !.stack = s, !.depth = 0,
                            !.retval = ReturnValue(t), !.fast = FALSE]
  <1>1. /\ frames # <<>> /\ t \in Frame /\ FrameInv(t) /\ t.doing = "run"
        /\ unhandled' = unhandled
    BY TopFrame DEF Return, Fetches
  <1>2. faults' \subseteq Faults
    BY DEF Return, IInv, Faults
  <1>3. SetTop(g)
    BY DEF Return, Interrupted
  <1> HIDE DEF t
  <1>4. /\ p \in Frame
        /\ p.interrupt = IF t.interrupt = "no" THEN "return" ELSE t.interrupt
        /\ p.handlers = t.handlers /\ p.pending = t.pending
        /\ p.doing = t.doing
    BY <1>1, InterruptedFrame
  <1>5. s \in Seq(Values) /\ ReturnValue(t) \in {"none", "val", "null"}
    <2>1. t.stack \in Seq(Values) /\ t.retval \in {"none", "val", "null"}
      BY <1>1 DEF Frame
    <2>2. t.stack # <<>> => Front(t.stack) \in Seq(Values)
                            /\ Last(t.stack) \in Values
      BY <2>1, FrontLast
    <2> QED
      BY <2>1, <2>2 DEF ReturnValue, Values
  <1> HIDE DEF p, s
  <1>6. /\ g \in Frame /\ g.interrupt = p.interrupt /\ g.handlers = p.handlers
        /\ g.pending = p.pending /\ g.doing = p.doing /\ ~g.fast
    BY <1>4, <1>5 DEF Frame
  <1> HIDE DEF g
  <1>7. FrameInv(g) /\ (Unwinds(g) => Unwinds(t))
    BY <1>1, <1>4, <1>6 DEF FrameInv, Unwinds
  <1> QED
    BY <1>1, <1>2, <1>3, <1>7, SetTopInv DEF t

\* The first frame, or the frame of a call, starts with nothing in hand.
LEMMA NewFrameInv == FrameInv(NewFrame) /\ ~Unwinds(NewFrame)
  <1>1. /\ <<>> \in Seq(Values) /\ <<>> \in Nests /\ <<>> \in Seq(Nests)
        /\ Len(<<>>) = 0
    BY DEF Nests
  <1>2. NewFrame \in Frame
    BY <1>1 DEF NewFrame, Frame
  <1>3. /\ NewFrame.handlers = <<>> /\ NewFrame.pending = <<>>
        /\ NewFrame.interrupt = "no" /\ NewFrame.doing = "run"
        /\ ~NewFrame.fast
    BY DEF NewFrame
  <1> QED
    BY <1>1, <1>2, <1>3, EvalAssumption DEF FrameInv, Unwinds

\* A program starts.
LEMMA StartInv == ASSUME IInv, Start PROVE IInv'
  <1>1. /\ frames' = <<NewFrame>> /\ unhandled' = unhandled
        /\ faults' = faults
    BY DEF Start
  <1>2. /\ frames' \in Seq(Frame) /\ Len(frames') = 1
        /\ DOMAIN frames' = {1} /\ frames'[1] = NewFrame
    BY <1>1, NewFrameInv DEF FrameInv
  <1>3. StackInv(frames', unhandled')
    BY <1>2, NewFrameInv DEF StackInv
  <1> QED
    BY <1>1, <1>3 DEF IInv, StackInv, FrameInv, Unwinds

\* A function is called.
LEMMA CallFunctionInv == ASSUME IInv, CallFunction PROVE IInv'
  <1>1. /\ frames # <<>> /\ Top.doing # "run"
        /\ frames' = Append(frames, NewFrame)
        /\ unhandled' = unhandled /\ faults' = faults
    BY DEF CallFunction
  <1>2. frames \in Seq(Frame) /\ NewFrame \in Frame
    BY NewFrameInv DEF IInv, StackInv, FrameInv
  <1>3. /\ frames' \in Seq(Frame)
        /\ Len(frames') = Len(frames) + 1
        /\ DOMAIN frames = 1..Len(frames) /\ Len(frames) \in Nat \ {0}
        /\ DOMAIN frames' = 1..(Len(frames) + 1)
        /\ frames'[Len(frames) + 1] = NewFrame
        /\ \A i \in DOMAIN frames : frames'[i] = frames[i]
    BY <1>1, <1>2, AppendProperties, LenProperties, EmptySeq
  <1>4. \A i \in DOMAIN frames' : FrameInv(frames'[i])
    BY <1>3, NewFrameInv DEF IInv, StackInv
  <1>5. \A i \in DOMAIN frames' : i < Len(frames') => frames'[i].doing # "run"
    BY <1>1, <1>3 DEF IInv, StackInv, Top
  <1>6. ASSUME NEW i \in DOMAIN frames', Unwinds(frames'[i])
        PROVE  IF i = 1 THEN unhandled ELSE frames'[i - 1].interrupt = "raise"
    <2>1. i \in DOMAIN frames /\ Unwinds(frames[i])
      BY <1>3, <1>6, NewFrameInv
    <2>2. i # 1 => i - 1 \in DOMAIN frames
      BY <1>3, <2>1
    <2> QED
      BY <1>3, <2>1, <2>2 DEF IInv, StackInv
  <1>7. StackInv(frames', unhandled')
    BY <1>1, <1>3, <1>4, <1>5, <1>6 DEF StackInv
  <1> QED
    BY <1>1, <1>7 DEF IInv, StackInv, FrameInv, Unwinds

(***************************************************************************)
(* A frame is left: the ones below it are as they were, but for the result *)
(* the caller is handed.                                                   *)
(***************************************************************************)
LEMMA LeaveInv == ASSUME IInv, Leave PROVE IInv'
  <1>1. /\ frames # <<>> /\ unhandled' = unhandled /\ faults' = faults
        /\ frames \in Seq(Frame) /\ Len(frames) \in Nat \ {0}
        /\ DOMAIN frames = 1..Len(frames)
    BY TopFrame, LenProperties DEF Leave, Notices, IInv, StackInv
  <1>2. CASE Len(frames) = 1
    <2>1. frames' = <<>>
      BY <1>2 DEF Leave
    <2>2. frames' \in Seq(Frame) /\ DOMAIN frames' = {}
      BY <2>1
    <2> QED
      BY <1>1, <2>2 DEF IInv, StackInv, FrameInv, Unwinds
  <1>3. CASE Len(frames) # 1
    <2> DEFINE n == Len(frames) - 1
               b == Front(frames)
               r == Result(Top)
               g == [b[n] EXCEPT !.got = r]
    <2>1. /\ b \in Seq(Frame) /\ Len(b) = n /\ n \in Nat \ {0}
          /\ DOMAIN b = 1..n /\ \A i \in 1..n : b[i] = frames[i]
      <3>1. /\ b \in Seq(Frame) /\ Len(b) = n
            /\ \A i \in 1..n : b[i] = frames[i]
        BY <1>1, FrontLast
      <3>2. n \in Nat \ {0}
        BY <1>1, <1>3
      <3> HIDE DEF b, n
      <3> QED
        BY <3>1, <3>2, LenProperties
    <2>2. frames' = [b EXCEPT ![n] = g] /\ r \in {"val", "null"}
      BY <1>3 DEF Leave, Result
    <2>3. /\ b[n] = frames[n] /\ FrameInv(frames[n])
          /\ frames[n].doing # "run" /\ n \in DOMAIN frames
      BY <1>1, <2>1 DEF IInv, StackInv
    <2> HIDE DEF n, b, r
    <2>4. /\ g \in Frame /\ g.interrupt = b[n].interrupt
          /\ g.handlers = b[n].handlers /\ g.pending = b[n].pending
          /\ g.doing = b[n].doing /\ g.fast = b[n].fast
      BY <2>2, <2>3 DEF Frame, FrameInv
    <2> HIDE DEF g
    <2>5. FrameInv(g) /\ (Unwinds(g) => Unwinds(b[n]))
      BY <2>3, <2>4 DEF FrameInv, Unwinds
    <2>6. StackInv(b, unhandled)
      <3>1. \A i \in 1..n : FrameInv(b[i])
        BY <1>1, <2>1 DEF IInv, StackInv, n
      <3>2. \A i \in 1..n : i < n => b[i].doing # "run"
        BY <1>1, <2>1 DEF IInv, StackInv, n
      <3>3. ASSUME NEW i \in 1..n, Unwinds(b[i])
            PROVE  IF i = 1 THEN unhandled ELSE b[i - 1].interrupt = "raise"
        <4>1. i \in DOMAIN frames /\ Unwinds(frames[i])
          BY <1>1, <2>1, <3>3 DEF n
        <4>2. i # 1 => i - 1 \in 1..n
          BY <2>1
        <4> QED
          BY <2>1, <4>1, <4>2 DEF IInv, StackInv
      <3> QED
        BY <2>1, <3>1, <3>2, <3>3 DEF StackInv
    <2>7. StackInv(frames', unhandled)
      <3>1. b # <<>>
        BY <2>1
      <3> QED
        BY <2>1, <2>2, <2>5, <2>6, <3>1, ReplaceTop
    <2> QED
      BY <1>1, <2>7 DEF IInv, StackInv, FrameInv, Unwinds
  <1> QED
    BY <1>2, <1>3

\* Raising from a top frame that has been brought up to date first.
LEMMA RaiseTopInv ==
    ASSUME IInv, frames # <<>>, NEW f, FrameInv(f),
           f.interrupt = Top.interrupt, f.pending = Top.pending,
           f.interrupt \in {"no", "raise"}, Raise(WithTop(f)),
           faults' \subseteq Faults
    PROVE  IInv'
  <1> DEFINE fs == WithTop(f)
  <1>1. StackInv(fs, unhandled) /\ unhandled \in BOOLEAN
    BY ReplaceTop DEF IInv, Top, WithTop, Unwinds
  <1>2. fs # <<>> /\ fs[Len(fs)] = f
    BY TopFrame, EmptySeq, ExceptSeq, LenProperties DEF WithTop, IInv, StackInv
  <1>3. StackInv(frames', unhandled') /\ unhandled' \in BOOLEAN
    <2> HIDE DEF fs
    <2>1. Raise(fs)
      BY DEF fs
    <2> QED
      BY <1>1, <1>2, <2>1, RaiseInv
  <1> QED
    BY <1>3 DEF IInv, StackInv, FrameInv, Unwinds

\* C code raises.
LEMMA NativeRaisesInv == ASSUME IInv, NativeRaises PROVE IInv'
  <1> DEFINE t == Top
             d == IF t.doing = "native" THEN "invoke" ELSE t.doing
             g == [t EXCEPT !.got = "null", !.doing = d]
  <1>1. /\ frames # <<>> /\ t \in Frame /\ FrameInv(t)
        /\ t.doing # "run" /\ t.interrupt \in {"no", "raise"}
        /\ faults' \subseteq Faults
    BY TopFrame DEF NativeRaises, FrameInv, IInv
  <1>2. Raise(WithTop(g))
    BY DEF NativeRaises
  <1> HIDE DEF t
  <1>3. d \in AllKinds
    BY <1>1 DEF Frame, AllKinds
  <1> HIDE DEF d
  <1>4. /\ g \in Frame /\ g.interrupt = t.interrupt
        /\ g.handlers = t.handlers /\ g.pending = t.pending
        /\ g.fast = t.fast
    BY <1>1, <1>3 DEF Frame
  <1> HIDE DEF g
  <1>5. FrameInv(g)
    BY <1>1, <1>4 DEF FrameInv
  <1> QED
    BY <1>1, <1>2, <1>4, <1>5, RaiseTopInv DEF t

\* RAISE.
LEMMA RaiseStmtInv == ASSUME IInv, RaiseStmt PROVE IInv'
  <1> DEFINE t == Top
             g == [t EXCEPT !.stack = Front(t.stack), !.depth = 0,
                            !.fast = FALSE]
  <1>1. /\ frames # <<>> /\ t \in Frame /\ FrameInv(t) /\ t.doing = "run"
        /\ t.interrupt \in {"no", "raise"}
        /\ NoteMissed /\ Len(t.stack) >= 1
    BY TopFrame DEF RaiseStmt, Fetches, Sound
  <1>2. Raise(WithTop(g))
    BY DEF RaiseStmt
  <1> HIDE DEF t
  <1>3. Front(t.stack) \in Seq(Values)
    <2>1. t.stack \in Seq(Values) /\ t.stack # <<>>
      BY <1>1, EmptySeq DEF Frame
    <2> QED
      BY <2>1, FrontLast
  <1>4. /\ g \in Frame /\ g.interrupt = t.interrupt
        /\ g.handlers = t.handlers /\ g.pending = t.pending
        /\ g.doing = t.doing /\ ~g.fast
    BY <1>1, <1>3 DEF Frame
  <1> HIDE DEF g
  <1>5. FrameInv(g)
    BY <1>1, <1>4 DEF FrameInv
  <1> QED
    BY <1>1, <1>2, <1>4, <1>5, MissedIsFault, RaiseTopInv DEF t

-----------------------------------------------------------------------------
(***************************************************************************)
(* The invariant.                                                          *)
(***************************************************************************)
\* Before the program starts there is no frame.
LEMMA InitInv == Init => IInv
  <1> SUFFICES ASSUME Init PROVE IInv
    OBVIOUS
  <1>1. frames \in Seq(Frame) /\ DOMAIN frames = {}
    BY DEF Init
  <1> QED
    BY <1>1 DEF Init, IInv, StackInv

\* Every step of the interpreter preserves the invariant.
LEMMA NextInv == IInv /\ [Next]_vars => IInv'
  <1> SUFFICES ASSUME IInv, [Next]_vars PROVE IInv'
    OBVIOUS
  <1>1. CASE Start
    BY <1>1, StartInv
  <1>2. CASE Load
    BY <1>2, LoadInv
  <1>3. ASSUME NEW keep \in BOOLEAN, PopValue(keep) PROVE IInv'
    BY <1>3, PopValueInv
  <1>4. ASSUME NEW kind \in Kinds, Begin(kind) PROVE IInv'
    BY <1>4, BeginInv
  <1>5. CASE CallFunction
    BY <1>5, CallFunctionInv
  <1>6. CASE NativeRaises
    BY <1>6, NativeRaisesInv
  <1>7. ASSUME NEW res \in Values, Finish(res) PROVE IInv'
    BY <1>7, FinishInv
  <1>8. CASE EnterTry
    BY <1>8, EnterTryInv
  <1>9. CASE EnterTryPanics
    BY <1>9, EnterTryPanicsInv
  <1>10. CASE LeaveTry
    BY <1>10, LeaveTryInv
  <1>11. CASE RaiseStmt
    BY <1>11, RaiseStmtInv
  <1>12. CASE BeginWith
    BY <1>12, BeginWithInv
  <1>13. CASE BeginWithEntered
    BY <1>13, BeginWithEnteredInv
  <1>14. CASE EndWith
    BY <1>14, EndWithInv
  <1>15. CASE EndWithExited
    BY <1>15, EndWithExitedInv
  <1>16. CASE EnterLoop
    BY <1>16, EnterLoopInv
  <1>17. CASE LeaveLoop
    BY <1>17, LeaveLoopInv
  <1>18. ASSUME NEW continues \in BOOLEAN, Break(continues) PROVE IInv'
    BY <1>18, BreakInv
  <1>19. CASE Catch
    BY <1>19, CatchInv
  <1>20. CASE Return
    BY <1>20, ReturnInv
  <1>21. CASE Leave
    BY <1>21, LeaveInv
  <1>22. CASE Undefined \/ UNCHANGED vars
    BY <1>22 DEF Undefined, vars, IInv, StackInv, FrameInv, Unwinds
  <1> QED
    BY <1>1, <1>2, <1>3, <1>4, <1>5, <1>6, <1>7, <1>8, <1>9, <1>10, <1>11,
       <1>12, <1>13, <1>14, <1>15, <1>16, <1>17, <1>18, <1>19, <1>20, <1>21,
       <1>22 DEF Next

(***************************************************************************)
(* The types of the interpreter's state, and the bounds the code checks:   *)
(* no frame has more than HandlerMax handlers on its exception stack       *)
(* (push_exception_handler) or more than one handler pending.              *)
(***************************************************************************)
THEOREM TypeCorrect == Spec => []TypeOK
  <1>1. IInv => TypeOK
    BY DEF IInv, StackInv, FrameInv, TypeOK
  <1> QED
    BY <1>1, InitInv, NextInv, PTL DEF Spec

(***************************************************************************)
(* A frame that unwinds has a caller that unwinds too or that is about to  *)
(* jump to a handler, and an exception that leaves the first frame has     *)
(* been reported (GaEval_RaiseException), for every depth of calls.        *)
(***************************************************************************)
THEOREM UnwindingReachesItsTarget == Spec => []UnwindHasTarget
  <1>1. IInv => UnwindHasTarget
    BY DEF IInv, StackInv, Unwinds, UnwindHasTarget
  <1> QED
    BY <1>1, InitInv, NextInv, PTL DEF Spec

-----------------------------------------------------------------------------
(***************************************************************************)
(* The value stacks.  What a frame has that nothing has gone wrong with.   *)
(***************************************************************************)
FrameDepth(f) ==
    \* A call that returned NULL has interrupted its caller.
    /\ f.interrupt = "no" => Sound(f) /\ (f.doing # "run" => f.got # "null")
    /\ f.interrupt # "panic"
    \* A function that returns has a value to return.
    /\ f.interrupt = "return" => f.retval = "val"

DepthInv == faults = {} => \A i \in DOMAIN frames : FrameDepth(frames[i])

\* The frames below the top one stay as they are.
LEMMA SetTopFrames ==
    ASSUME IInv, frames # <<>>, NEW f, SetTop(f)
    PROVE  /\ DOMAIN frames' = DOMAIN frames /\ Len(frames') = Len(frames)
           /\ DOMAIN frames = 1..Len(frames) /\ Len(frames) \in Nat \ {0}
           /\ \A i \in DOMAIN frames : frames'[i] = IF i = Len(frames) THEN f ELSE frames[i]
  <1>1. frames \in Seq(Frame) /\ Len(frames) \in Nat \ {0}
    BY EmptySeq DEF IInv, StackInv
  <1>2. frames' = [frames EXCEPT ![Len(frames)] = f]
    BY DEF SetTop, WithTop
  <1> QED
    BY <1>1, <1>2, LenProperties

\* A new top frame with nothing wrong keeps the invariant.
LEMMA SetTopDepth ==
    ASSUME IInv, DepthInv, frames # <<>>, NEW f, SetTop(f),
           faults \subseteq faults', faults' = {} => FrameDepth(f)
    PROVE  DepthInv'
  <1>1. /\ DOMAIN frames' = DOMAIN frames
        /\ \A i \in DOMAIN frames : frames'[i] \in {f, frames[i]}
    BY SetTopFrames
  <1>2. faults' = {} => faults = {}
    OBVIOUS
  <1> QED
    BY <1>1, <1>2 DEF DepthInv

\* What is known of the top frame as long as nothing has gone wrong.
LEMMA TopDepth ==
    ASSUME IInv, DepthInv, frames # <<>>
    PROVE  faults = {} => FrameDepth(Top)
  <1>1. Len(frames) \in DOMAIN frames
    BY TopFrame DEF IInv, StackInv
  <1> QED
    BY <1>1 DEF DepthInv, Top

\* An instruction that is fetched in spite of the flag is a fault.
LEMMA FetchDepth ==
    ASSUME IInv, DepthInv, Fetches, NoteMissed
    PROVE  /\ faults \subseteq faults'
           /\ faults' = {} => Top.interrupt = "no"
  BY DEF NoteMissed

\* A fetched frame keeps its flag and has its stack cut with its depth.
LEMMA FetchedDepth ==
    ASSUME IInv, DepthInv, Fetches, NoteMissed, NEW f \in Frame, SetTop(f),
           f.interrupt = Top.interrupt, Len(f.stack) >= f.depth,
           f.doing # "run" => f.got # "null"
    PROVE  DepthInv'
  <1>1. faults' = {} => FrameDepth(f)
    BY FetchDepth DEF FrameDepth, Sound
  <1> QED
    BY <1>1, FetchDepth, SetTopDepth DEF Fetches

\* A loaded value is on the stack and in the count.
LEMMA LoadDepth == ASSUME IInv, DepthInv, Load PROVE DepthInv'
  <1> DEFINE t == Top
             g == [t EXCEPT !.stack = Append(t.stack, "val"), !.depth = t.depth + 1]
  <1>1. /\ Fetches /\ NoteMissed /\ SetTop(g) /\ t \in Frame /\ Len(t.stack) >= t.depth
        /\ t.doing = "run"
    BY TopFrame DEF Load, Fetches, Sound
  <1> HIDE DEF t
  <1>2. /\ Append(t.stack, "val") \in Seq(Values) /\ t.depth + 1 \in Nat
        /\ Len(Append(t.stack, "val")) >= t.depth + 1
    <2>1. t.stack \in Seq(Values) /\ t.depth \in Nat /\ "val" \in Values
      BY <1>1 DEF Frame, Values
    <2> QED
      BY <1>1, <2>1, AppendTyped
  <1>3. /\ g \in Frame /\ g.interrupt = t.interrupt /\ Len(g.stack) >= g.depth
        /\ g.doing = "run"
    BY <1>1, <1>2 DEF Frame
  <1> HIDE DEF g
  <1> QED
    BY <1>1, <1>3, FetchedDepth DEF t

\* The end of a statement takes its value off.
LEMMA PopValueDepth ==
    ASSUME IInv, DepthInv, NEW keep \in BOOLEAN, PopValue(keep) PROVE DepthInv'
  <1> DEFINE t == Top
             v == IF keep THEN Last(t.stack) ELSE t.retval
             g == [t EXCEPT !.stack = Front(t.stack), !.depth = 0, !.retval = v]
  <1>1. /\ Fetches /\ NoteMissed /\ SetTop(g) /\ t \in Frame /\ Len(t.stack) >= 1
        /\ t.doing = "run"
    BY TopFrame DEF PopValue, Fetches, Sound
  <1> HIDE DEF t
  <1>2. /\ Front(t.stack) \in Seq(Values) /\ Len(Front(t.stack)) >= 0
        /\ v \in {"none", "val", "null"}
    <2>1. t.stack \in Seq(Values) /\ t.stack # <<>>
      BY <1>1, EmptySeq DEF Frame
    <2>2. /\ Last(t.stack) \in Values /\ Front(t.stack) \in Seq(Values)
          /\ Len(Front(t.stack)) = Len(t.stack) - 1 /\ Len(t.stack) \in Nat \ {0}
      BY <2>1, FrontLast
    <2> QED
      BY <1>1, <2>2 DEF Frame, Values
  <1> HIDE DEF v
  <1>3. /\ g \in Frame /\ g.interrupt = t.interrupt /\ Len(g.stack) >= g.depth
        /\ g.doing = "run"
    BY <1>1, <1>2 DEF Frame
  <1> HIDE DEF g
  <1> QED
    BY <1>1, <1>3, FetchedDepth DEF t

\* An instruction takes its operands from the stack and from the count.
LEMMA BeginDepth == ASSUME IInv, DepthInv, NEW kind \in Kinds, Begin(kind) PROVE DepthInv'
  <1> DEFINE t == Top
             n == Operands(kind)
             g == [t EXCEPT !.stack = Pop(t.stack, n), !.depth = t.depth - n,
                            !.doing = kind, !.got = "nothing", !.fast = FALSE]
  <1>1. /\ Fetches /\ NoteMissed /\ SetTop(g) /\ t \in Frame
        /\ t.depth >= n /\ Len(t.stack) >= t.depth
    BY TopFrame DEF Begin, Fetches, Sound
  <1>2. n \in Nat /\ kind \in AllKinds
    BY EvalAssumption DEF Operands
  <1>3. t.stack \in Seq(Values) /\ t.depth \in Nat /\ Len(t.stack) \in Nat
    BY <1>1 DEF Frame
  <1> HIDE DEF t, n
  <1>4. Pop(t.stack, n) \in Seq(Values) /\ Len(Pop(t.stack, n)) = Len(t.stack) - n
    <2>1. Len(t.stack) - n \in 0..Len(t.stack)
      BY <1>1, <1>2, <1>3
    <2>2. /\ SubSeq(t.stack, 1, Len(t.stack) - n) \in Seq(Values)
          /\ Len(SubSeq(t.stack, 1, Len(t.stack) - n)) = Len(t.stack) - n
      BY <1>3, <2>1, SubSeqTyped
    <2> QED
      BY <2>2 DEF Pop
  <1>5. t.depth - n \in Nat /\ Len(Pop(t.stack, n)) >= t.depth - n
    BY <1>1, <1>2, <1>3, <1>4
  <1>6. /\ g \in Frame /\ g.interrupt = t.interrupt /\ Len(g.stack) >= g.depth
        /\ g.got = "nothing"
    BY <1>1, <1>2, <1>4, <1>5 DEF Frame
  <1> HIDE DEF g
  <1> QED
    BY <1>1, <1>6, FetchedDepth DEF t

\* The value a call yields is there, unless the frame is interrupted.
LEMMA FinishDepth == ASSUME IInv, DepthInv, NEW res \in Values, Finish(res) PROVE DepthInv'
  <1> DEFINE t == Top
             s == t.stack \o Pushed(t.doing, res)
             d == t.depth + Yields(t.doing)
             q == t.doing = "build" /\ t.interrupt # "no"
             g == [t EXCEPT !.stack = s, !.depth = d, !.doing = "run",
                            !.got = "nothing", !.fast = q]
  <1>1. /\ frames # <<>> /\ t \in Frame /\ t.doing # "run" /\ SetTop(g)
        /\ faults \subseteq faults' /\ (faults' = {} => res = "val" \/ t.got = "null")
        /\ faults = {} => FrameDepth(t)
    BY TopFrame, TopDepth DEF Finish, Values
  <1> HIDE DEF t
  <1>2. t.stack \in Seq(Values) /\ t.depth \in Nat /\ Len(t.stack) \in Nat
    BY <1>1 DEF Frame
  <1>3. /\ Pushed(t.doing, res) \in Seq(Values)
        /\ res = "val" \/ t.doing \in {"operator", "truth", "build", "store", "enter", "exit"}
             => Len(Pushed(t.doing, res)) = Yields(t.doing)
    <2>1. /\ \A v \in Values : <<v>> \in Seq(Values) /\ Len(<<v>>) = 1
          /\ <<>> \in Seq(Values) /\ Len(<<>>) = 0 /\ "val" \in Values /\ "val" # "null"
      BY DEF Values
    <2> QED
      BY <2>1 DEF Pushed, Yields
  <1>4. s \in Seq(Values) /\ Len(s) = Len(t.stack) + Len(Pushed(t.doing, res))
    BY <1>2, <1>3
  <1>5. d \in Nat /\ q \in BOOLEAN
    BY <1>2 DEF Yields
  <1> HIDE DEF s, d, q
  <1>6. /\ g.interrupt = t.interrupt /\ g.stack = s /\ g.depth = d /\ g.doing = "run"
        /\ g.retval = t.retval
    BY <1>1, <1>4, <1>5 DEF Frame
  <1> HIDE DEF g
  <1>7. ASSUME faults' = {} PROVE FrameDepth(g)
    <2>1. FrameDepth(t)
      BY <1>1, <1>7
    <2>2. t.interrupt = "no" => Len(s) >= d
      <3>1. t.interrupt = "no" => Len(t.stack) >= t.depth /\ res = "val"
        BY <1>1, <1>7, <2>1 DEF FrameDepth, Sound
      <3>2. Yields(t.doing) \in Nat /\ d = t.depth + Yields(t.doing)
        BY DEF Yields, d
      <3>3. res = "val" => Len(s) = Len(t.stack) + Yields(t.doing)
        BY <1>3, <1>4
      <3> QED
        BY <1>2, <3>1, <3>2, <3>3
    <2> QED
      BY <1>6, <2>1, <2>2 DEF FrameDepth, Sound
  <1> QED
    BY <1>1, <1>7, SetTopDepth

\* The facts about the statements below: those between two instructions.
LEMMA StatementDepth ==
    ASSUME IInv, DepthInv, AtStatement, NoteMissed, NEW f \in Frame, SetTop(f),
           f.interrupt = Top.interrupt, f.depth = 0, f.doing # "run" => f.got # "null"
    PROVE  DepthInv'
  <1>1. Len(f.stack) \in Nat
    BY DEF Frame
  <1> QED
    BY <1>1, FetchedDepth DEF AtStatement

\* A try statement leaves the value stack alone.
LEMMA EnterTryDepth == ASSUME IInv, DepthInv, EnterTry PROVE DepthInv'
  <1> DEFINE t == Top
             g == [t EXCEPT !.handlers = Append(t.handlers, t.nest),
                            !.nest = Append(t.nest, "try"), !.fast = FALSE]
  <1>1. /\ AtStatement /\ t \in Frame /\ t.doing = "run" /\ t.depth = 0
        /\ t.nest \in Nests /\ t.handlers \in Seq(Nests) /\ SetTop(g) /\ NoteMissed
    BY AtStatementFacts DEF EnterTry, AtStatement
  <1> HIDE DEF t
  <1>2. Append(t.handlers, t.nest) \in Seq(Nests) /\ Append(t.nest, "try") \in Nests
    BY <1>1, NestTyped, AppendProperties DEF AllBlocks
  <1>3. g \in Frame /\ g.interrupt = t.interrupt /\ g.depth = 0 /\ g.doing = "run"
    BY <1>1, <1>2 DEF Frame
  <1> HIDE DEF g
  <1> QED
    BY <1>1, <1>3, StatementDepth DEF t

\* A panic is one of the faults.
LEMMA EnterTryPanicsDepth == ASSUME IInv, DepthInv, EnterTryPanics PROVE DepthInv'
  <1>1. faults' # {}
    BY DEF EnterTryPanics
  <1> QED
    BY <1>1 DEF DepthInv

\* So does the end of a try statement.
LEMMA LeaveTryDepth == ASSUME IInv, DepthInv, LeaveTry PROVE DepthInv'
  <1> DEFINE t == Top
             g == [t EXCEPT !.handlers = Front(t.handlers),
                            !.nest = Front(t.nest), !.fast = FALSE]
  <1>1. /\ AtStatement /\ t \in Frame /\ t.doing = "run" /\ t.depth = 0
        /\ t.nest \in Nests /\ t.handlers \in Seq(Nests) /\ SetTop(g) /\ NoteMissed
        /\ t.handlers # <<>> /\ t.nest # <<>>
    BY AtStatementFacts DEF LeaveTry, AtStatement, Innermost
  <1> HIDE DEF t
  <1>2. Front(t.handlers) \in Seq(Nests) /\ Front(t.nest) \in Nests
    BY <1>1, NestTyped, FrontLast
  <1>3. g \in Frame /\ g.interrupt = t.interrupt /\ g.depth = 0 /\ g.doing = "run"
    BY <1>1, <1>2 DEF Frame
  <1> HIDE DEF g
  <1> QED
    BY <1>1, <1>3, StatementDepth DEF t

\* BEGIN_WITH takes its object off the stack.
LEMMA BeginWithDepth == ASSUME IInv, DepthInv, BeginWith PROVE DepthInv'
  <1> DEFINE t == Top
             g == [t EXCEPT !.stack = Front(t.stack), !.depth = 0, !.doing = "enter",
                            !.got = "nothing", !.fast = FALSE]
  <1>1. /\ Fetches /\ NoteMissed /\ SetTop(g) /\ t \in Frame /\ Len(t.stack) >= 1
    BY TopFrame DEF BeginWith, Fetches, Sound
  <1> HIDE DEF t
  <1>2. Front(t.stack) \in Seq(Values)
    <2>1. t.stack \in Seq(Values) /\ t.stack # <<>>
      BY <1>1, EmptySeq DEF Frame
    <2> QED
      BY <2>1, FrontLast
  <1>3. g \in Frame /\ g.interrupt = t.interrupt /\ g.got = "nothing" /\ g.depth = 0
    BY <1>1, <1>2 DEF Frame, AllKinds
  <1> HIDE DEF g
  <1>4. Len(g.stack) >= g.depth
    BY <1>3 DEF Frame
  <1> QED
    BY <1>1, <1>3, <1>4, FetchedDepth DEF t

\* The end of BEGIN_WITH or END_WITH leaves flag and stack as they are.
LEMMA EndedDepth ==
    ASSUME IInv, DepthInv, frames # <<>>, Top.doing # "run", faults' = faults,
           NEW f, SetTop(f), f.interrupt = Top.interrupt, f.stack = Top.stack,
           f.depth = Top.depth, f.retval = Top.retval, f.doing = "run"
    PROVE  DepthInv'
  <1>1. faults' = {} => FrameDepth(f)
    BY TopDepth DEF FrameDepth, Sound
  <1> QED
    BY <1>1, SetTopDepth

\* GaObj_ENTER has returned.
LEMMA BeginWithEnteredDepth == ASSUME IInv, DepthInv, BeginWithEntered PROVE DepthInv'
  <1> DEFINE t == Top
             d == IF unhandled THEN t.disposable ELSE Append(t.disposable, t.nest)
             g == [t EXCEPT !.disposable = d, !.nest = Append(t.nest, "with"),
                            !.doing = "run", !.got = "nothing"]
  <1>1. /\ frames # <<>> /\ t \in Frame /\ t.doing = "enter" /\ SetTop(g)
        /\ faults' = faults
    BY TopFrame DEF BeginWithEntered
  <1> HIDE DEF t, d
  <1>2. /\ g.interrupt = t.interrupt /\ g.stack = t.stack /\ g.depth = t.depth
        /\ g.retval = t.retval /\ g.doing = "run"
    BY <1>1 DEF Frame
  <1> HIDE DEF g
  <1> QED
    BY <1>1, <1>2, EndedDepth DEF t

\* END_WITH takes nothing off the value stack.
LEMMA EndWithDepth == ASSUME IInv, DepthInv, EndWith PROVE DepthInv'
  <1> DEFINE t == Top
             g == [t EXCEPT !.disposable = Disposed(t.disposable),
                            !.nest = Front(t.nest), !.doing = "exit",
                            !.got = "nothing", !.fast = FALSE]
  <1>1. /\ AtStatement /\ t \in Frame /\ t.depth = 0 /\ SetTop(g) /\ NoteMissed
        /\ t.nest \in Nests /\ t.disposable \in Seq(Nests)
        /\ t.disposable # <<>> /\ t.nest # <<>>
    BY AtStatementFacts DEF EndWith, AtStatement, Innermost
  <1> HIDE DEF t
  <1>2. Disposed(t.disposable) \in Seq(Nests) /\ Front(t.nest) \in Nests
    BY <1>1, FrontLast, NestTyped DEF Disposed
  <1>3. g \in Frame /\ g.interrupt = t.interrupt /\ g.depth = 0 /\ g.got = "nothing"
    BY <1>1, <1>2 DEF Frame, AllKinds
  <1> HIDE DEF g
  <1> QED
    BY <1>1, <1>3, StatementDepth DEF t

\* GaObj_EXIT has returned.
LEMMA EndWithExitedDepth == ASSUME IInv, DepthInv, EndWithExited PROVE DepthInv'
  <1> DEFINE t == Top
             g == [t EXCEPT !.doing = "run", !.got = "nothing"]
  <1>1. /\ frames # <<>> /\ t \in Frame /\ t.doing = "exit" /\ SetTop(g)
        /\ faults' = faults
    BY TopFrame DEF EndWithExited
  <1> HIDE DEF t
  <1>2. /\ g.interrupt = t.interrupt /\ g.stack = t.stack /\ g.depth = t.depth
        /\ g.retval = t.retval /\ g.doing = "run"
    BY <1>1 DEF Frame
  <1> HIDE DEF g
  <1> QED
    BY <1>1, <1>2, EndedDepth DEF t

\* A step that only enters or leaves a statement.
LEMMA NestStepDepth ==
    ASSUME IInv, DepthInv, AtStatement, NEW nest \in Nests,
           SetTop([Top EXCEPT !.nest = nest]), NoteMissed
    PROVE  DepthInv'
  <1> DEFINE t == Top
             g == [t EXCEPT !.nest = nest]
  <1>1. t \in Frame /\ t.doing = "run" /\ t.depth = 0 /\ SetTop(g)
    BY AtStatementFacts DEF AtStatement
  <1> HIDE DEF t
  <1>2. g \in Frame /\ g.interrupt = t.interrupt /\ g.depth = 0 /\ g.doing = "run"
    BY <1>1 DEF Frame
  <1> HIDE DEF g
  <1> QED
    BY <1>1, <1>2, StatementDepth DEF t

\* The two ends of a loop.
LEMMA LoopDepth == ASSUME IInv, DepthInv, EnterLoop \/ LeaveLoop PROVE DepthInv'
  <1>1. CASE EnterLoop
    <2>1. Append(Top.nest, "loop") \in Nests
      BY <1>1, AtStatementFacts, NestTyped DEF EnterLoop, AllBlocks
    <2> QED
      BY <1>1, <2>1, NestStepDepth DEF EnterLoop
  <1>2. CASE LeaveLoop
    <2>1. Front(Top.nest) \in Nests
      BY <1>2, AtStatementFacts, NestTyped DEF LeaveLoop, Innermost
    <2> QED
      BY <1>2, <2>1, NestStepDepth DEF LeaveLoop
  <1> QED
    BY <1>1, <1>2

\* A jump leaves the value stack alone.
LEMMA BreakDepth ==
    ASSUME IInv, DepthInv, NEW continues \in BOOLEAN, Break(continues) PROVE DepthInv'
  <1> DEFINE t == Top
  <1>1. /\ AtStatement /\ t \in Frame /\ t.doing = "run" /\ t.depth = 0
        /\ t.nest \in Nests /\ NoteMissed
    BY AtStatementFacts DEF Break, AtStatement
  <1>2. PICK k \in DOMAIN t.nest :
            SetTop([Abandon(t, SubSeq(t.nest, 1, IF continues THEN k ELSE k - 1))
                    EXCEPT !.fast = FALSE])
    BY DEF Break
  <1> DEFINE n == IF continues THEN k ELSE k - 1
             at == SubSeq(t.nest, 1, n)
             a == Abandon(t, at)
             g == [a EXCEPT !.fast = FALSE]
  <1> HIDE DEF t
  <1>3. at \in Nests
    <2>1. t.nest \in Seq(AllBlocks)
      BY <1>1 DEF Nests
    <2>2. k \in 1..Len(t.nest) /\ Len(t.nest) \in Nat
      BY <2>1, LenProperties
    <2>3. n \in 0..Len(t.nest)
      BY <2>2
    <2> QED
      BY <2>3, <1>1, NestTyped
  <1>4. SetTop(g)
    BY <1>2
  <1> HIDE DEF n, at
  <1>5. a \in Frame /\ a.interrupt = t.interrupt /\ a.doing = t.doing /\ a.depth = t.depth
    <2>1. a \in Frame /\ a.interrupt = t.interrupt /\ a.doing = t.doing
      BY <1>1, <1>3, AbandonTyped
    <2>2. a.depth = t.depth
      BY <1>1 DEF Abandon, Frame
    <2> QED
      BY <2>1, <2>2
  <1> HIDE DEF a
  <1>6. g \in Frame /\ g.interrupt = t.interrupt /\ g.depth = 0 /\ g.doing = "run"
    BY <1>1, <1>5 DEF Frame
  <1> HIDE DEF g
  <1> QED
    BY <1>1, <1>4, <1>6, StatementDepth DEF t

\* A handler starts between two statements, with any stack.
LEMMA CatchDepth == ASSUME IInv, DepthInv, Catch PROVE DepthInv'
  <1> DEFINE t == Top
             a == Abandon(t, t.pending[1])
             g == [a EXCEPT !.depth = 0, !.pending = <<>>, !.interrupt = "no",
                            !.leftTry = t.leftTry]
  <1>1. /\ frames # <<>> /\ t \in Frame /\ t.doing = "run"
        /\ SetTop(g) /\ faults' = faults
    BY TopFrame DEF Catch, Notices
  <1> HIDE DEF t
  <1>2. /\ g.interrupt = "no" /\ g.depth = 0 /\ g.doing = "run"
        /\ g.stack = t.stack
    BY <1>1 DEF Abandon, Frame
  <1>3. Len(t.stack) \in Nat
    BY <1>1 DEF Frame
  <1> HIDE DEF g
  <1>4. FrameDepth(g)
    BY <1>2, <1>3 DEF FrameDepth, Sound
  <1> QED
    BY <1>1, <1>4, SetTopDepth

\* RET leaves a value, or notes that it is the C NULL.
LEMMA ReturnDepth == ASSUME IInv, DepthInv, Return PROVE DepthInv'
  <1> DEFINE t == Top
             p == Interrupted(t, "return")
             s == IF t.stack = <<>> THEN t.stack ELSE Front(t.stack)
             g == [p EXCEPT !.stack = s, !.depth = 0, !.retval = ReturnValue(t),
                            !.fast = FALSE]
  <1>1. /\ frames # <<>> /\ t \in Frame /\ t.doing = "run" /\ SetTop(g)
        /\ faults \subseteq faults'
        /\ faults' = {} => t.interrupt = "no" /\ ReturnValue(t) # "null"
    <2>1. SetTop(g)
      BY DEF Return, Interrupted
    <2> HIDE DEF g
    <2> QED
      BY <2>1, TopFrame DEF Return, Fetches
  <1>2. faults' = {} => ReturnValue(t) = "val"
    <2>1. t.stack \in Seq(Values) /\ t.retval \in {"none", "val", "null"}
      BY <1>1 DEF Frame
    <2>2. t.stack # <<>> => Last(t.stack) \in Values
      BY <2>1, FrontLast
    <2> QED
      BY <1>1, <2>1, <2>2 DEF ReturnValue, Values
  <1> HIDE DEF t
  <1>3. p \in Frame /\ p.interrupt = IF t.interrupt = "no" THEN "return" ELSE t.interrupt
    BY <1>1, InterruptedFrame
  <1> HIDE DEF p, s
  <1>4. g.interrupt = p.interrupt /\ g.retval = ReturnValue(t)
    BY <1>3 DEF Frame
  <1> HIDE DEF g
  <1>5. faults' = {} => FrameDepth(g)
    BY <1>1, <1>2, <1>3, <1>4 DEF FrameDepth
  <1> QED
    BY <1>1, <1>5, SetTopDepth

\* A new frame has an empty stack.
LEMMA NewFrameDepth == FrameDepth(NewFrame)
  BY DEF NewFrame, FrameDepth, Sound

\* The first frame starts.
LEMMA StartDepth == ASSUME DepthInv, Start PROVE DepthInv'
  <1>1. frames' = <<NewFrame>> /\ DOMAIN frames' = {1}
    BY DEF Start
  <1> QED
    BY <1>1, NewFrameDepth DEF DepthInv

\* A frame is added and the others stay as they are.
LEMMA CallFunctionDepth == ASSUME IInv, DepthInv, CallFunction PROVE DepthInv'
  <1>1. frames' = Append(frames, NewFrame) /\ faults' = faults
    BY DEF CallFunction
  <1>2. frames \in Seq(Frame) /\ NewFrame \in Frame
    BY NewFrameInv DEF IInv, StackInv, FrameInv
  <1>3. /\ DOMAIN frames = 1..Len(frames) /\ Len(frames) \in Nat
        /\ DOMAIN frames' = 1..(Len(frames) + 1)
        /\ frames'[Len(frames) + 1] = NewFrame
        /\ \A i \in 1..Len(frames) : frames'[i] = frames[i]
    BY <1>1, <1>2, AppendTyped
  <1> QED
    BY <1>1, <1>3, NewFrameDepth DEF DepthInv

\* The caller of a frame that is left gets a value, or is interrupted.
LEMMA LeaveDepth == ASSUME IInv, DepthInv, Leave PROVE DepthInv'
  <1>1. /\ frames # <<>> /\ faults' = faults /\ Top.interrupt # "no" /\ Top.pending = <<>>
        /\ frames \in Seq(Frame) /\ Len(frames) \in Nat \ {0}
        /\ DOMAIN frames = 1..Len(frames)
    BY TopFrame, LenProperties DEF Leave, Notices, IInv, StackInv
  <1>2. CASE Len(frames) = 1
    <2>1. DOMAIN frames' = {}
      BY <1>2 DEF Leave
    <2> QED
      BY <2>1 DEF DepthInv
  <1>3. CASE Len(frames) # 1
    <2> DEFINE n == Len(frames) - 1
               b == Front(frames)
               g == [b[n] EXCEPT !.got = Result(Top)]
    <2>1. /\ b \in Seq(Frame) /\ Len(b) = n /\ n \in Nat \ {0} /\ DOMAIN b = 1..n
          /\ \A i \in 1..n : b[i] = frames[i]
      <3>1. /\ b \in Seq(Frame) /\ Len(b) = n
            /\ \A i \in 1..n : b[i] = frames[i]
        BY <1>1, FrontLast
      <3>2. n \in Nat \ {0}
        BY <1>1, <1>3
      <3> HIDE DEF b, n
      <3> QED
        BY <3>1, <3>2, LenProperties
    <2>2. frames' = [b EXCEPT ![n] = g]
      BY <1>3 DEF Leave
    <2>3. n \in DOMAIN frames /\ b[n] = frames[n] /\ b[n] \in Frame
      BY <1>1, <2>1
    <2>4. ASSUME faults = {} PROVE FrameDepth(g)
      <3>1. FrameDepth(b[n]) /\ FrameDepth(Top)
        BY <1>1, <2>3, <2>4, TopDepth DEF DepthInv
      <3>2. b[n].interrupt = "no" => Result(Top) = "val"
        <4>1. Top.interrupt = "raise" => b[n].interrupt = "raise"
          BY <1>1, <1>3, <2>3 DEF IInv, StackInv, Unwinds, Top
        <4>2. Top.interrupt \in {"raise", "return"}
          BY <1>1, <3>1, TopFrame DEF FrameDepth, Frame
        <4> QED
          BY <3>1, <4>1, <4>2 DEF FrameDepth, Result
      <3>3. /\ g.interrupt = b[n].interrupt /\ g.stack = b[n].stack /\ g.depth = b[n].depth
            /\ g.retval = b[n].retval /\ g.doing = b[n].doing /\ g.got = Result(Top)
        <4> HIDE DEF n, b
        <4> QED
          BY <2>3 DEF Frame
      <3> HIDE DEF g, b, n
      <3> QED
        BY <3>1, <3>2, <3>3 DEF FrameDepth, Sound
    <2>5. DOMAIN frames' = 1..n /\ \A i \in 1..n : frames'[i] = IF i = n THEN g ELSE frames[i]
      <3> HIDE DEF g, b, n
      <3> QED
        BY <2>1, <2>2
    <2>6. \A i \in 1..n : i \in DOMAIN frames
      BY <1>1
    <2> HIDE DEF g, n
    <2> QED
      BY <1>1, <2>4, <2>5, <2>6 DEF DepthInv
  <1> QED
    BY <1>2, <1>3

\* Raising interrupts the top frame, and others perhaps.
LEMMA RaiseDepth ==
    ASSUME IInv, DepthInv, frames # <<>>, NEW f \in Frame, Raise(WithTop(f)),
           f.interrupt \in {"no", "raise"}, faults \subseteq faults'
    PROVE  DepthInv'
  <1> DEFINE fs == WithTop(f)
             n == Len(frames)
  <1>1. /\ DOMAIN fs = 1..n /\ Len(fs) = n /\ n \in Nat \ {0} /\ DOMAIN frames = 1..n
        /\ \A i \in 1..n : fs[i] = IF i = n THEN f ELSE frames[i]
    <2>1. frames \in Seq(Frame) /\ n \in Nat \ {0}
      BY EmptySeq DEF IInv, StackInv
    <2> QED
      BY <2>1, LenProperties DEF WithTop
  <1> HIDE DEF fs, n
  <1>2. PICK j \in 0..n :
            frames' = [i \in 1..n |->
                        IF i > j THEN Passed(fs[i])
                        ELSE IF i = j THEN Catching(fs[i]) ELSE fs[i]]
    BY <1>1 DEF Raise, fs
  <1>3. ASSUME NEW i \in 1..n
        PROVE  /\ fs[i] \in Frame
               /\ faults' = {} => fs[i].interrupt \in {"no", "raise"} \/ FrameDepth(fs[i])
               /\ faults' = {} /\ i < n => FrameDepth(fs[i])
    BY <1>1 DEF IInv, StackInv, FrameInv, DepthInv
  <1>4. ASSUME NEW h \in Frame, h.interrupt \in {"no", "raise"} \/ FrameDepth(h)
        PROVE  FrameDepth(Passed(h)) /\ FrameDepth(Catching(h))
    <2>1. /\ Passed(h).interrupt = IF h.interrupt = "no" THEN "raise" ELSE h.interrupt
          /\ Passed(h).retval = h.retval
      BY DEF Passed, Interrupted, Frame
    <2>2. /\ Catching(h).interrupt = IF h.interrupt = "no" THEN "raise" ELSE h.interrupt
          /\ Catching(h).retval = h.retval
      BY DEF Catching, Interrupted, Frame
    <2> QED
      BY <1>4, <2>1, <2>2 DEF FrameDepth
  <1>5. ASSUME NEW i \in 1..n, faults' = {} PROVE FrameDepth(frames'[i])
    <2>1. CASE i >= j
      BY <1>1, <1>2, <1>3, <1>4, <1>5, <2>1
    <2>2. CASE i < j
      BY <1>1, <1>2, <1>3, <1>5, <2>2
    <2> QED
      BY <1>1, <2>1, <2>2
  <1>6. DOMAIN frames' = 1..n
    BY <1>2
  <1> QED
    BY <1>5, <1>6 DEF DepthInv

\* C code raises.
LEMMA NativeRaisesDepth == ASSUME IInv, DepthInv, NativeRaises PROVE DepthInv'
  <1> DEFINE t == Top
             d == IF t.doing = "native" THEN "invoke" ELSE t.doing
             g == [t EXCEPT !.got = "null", !.doing = d]
  <1>1. /\ frames # <<>> /\ t \in Frame /\ t.interrupt \in {"no", "raise"}
        /\ faults' = faults /\ Raise(WithTop(g))
    BY TopFrame DEF NativeRaises, FrameInv
  <1> HIDE DEF t
  <1>2. d \in AllKinds \cup {"run"}
    BY <1>1 DEF Frame, AllKinds
  <1> HIDE DEF d
  <1>3. g \in Frame /\ g.interrupt = t.interrupt
    BY <1>1, <1>2 DEF Frame
  <1> HIDE DEF g
  <1> QED
    BY <1>1, <1>3, RaiseDepth

\* RAISE.
LEMMA RaiseStmtDepth == ASSUME IInv, DepthInv, RaiseStmt PROVE DepthInv'
  <1> DEFINE t == Top
             g == [t EXCEPT !.stack = Front(t.stack), !.depth = 0, !.fast = FALSE]
  <1>1. /\ frames # <<>> /\ t \in Frame /\ t.interrupt \in {"no", "raise"}
        /\ Len(t.stack) >= 1 /\ Raise(WithTop(g)) /\ faults \subseteq faults'
    BY TopFrame DEF RaiseStmt, Fetches, Sound, NoteMissed
  <1> HIDE DEF t
  <1>2. Front(t.stack) \in Seq(Values)
    <2>1. t.stack \in Seq(Values) /\ t.stack # <<>>
      BY <1>1, EmptySeq DEF Frame
    <2> QED
      BY <2>1, FrontLast
  <1>3. g \in Frame /\ g.interrupt = t.interrupt
    BY <1>1, <1>2 DEF Frame
  <1> HIDE DEF g
  <1> QED
    BY <1>1, <1>3, RaiseDepth

\* Every step keeps the stacks as deep as the code takes them to be.
LEMMA NextDepth == IInv /\ DepthInv /\ [Next]_vars => DepthInv'
  <1> SUFFICES ASSUME IInv, DepthInv, [Next]_vars PROVE DepthInv'
    OBVIOUS
  <1>1. ASSUME NEW keep \in BOOLEAN, PopValue(keep) PROVE DepthInv'
    BY <1>1, PopValueDepth
  <1>2. ASSUME NEW kind \in Kinds, Begin(kind) PROVE DepthInv'
    BY <1>2, BeginDepth
  <1>3. ASSUME NEW res \in Values, Finish(res) PROVE DepthInv'
    BY <1>3, FinishDepth
  <1>4. ASSUME NEW continues \in BOOLEAN, Break(continues) PROVE DepthInv'
    BY <1>4, BreakDepth
  <1>5. CASE Undefined \/ UNCHANGED vars
    BY <1>5 DEF Undefined, vars, DepthInv
  <1> QED
    BY <1>1, <1>2, <1>3, <1>4, <1>5, StartDepth, LoadDepth, CallFunctionDepth,
       NativeRaisesDepth, EnterTryDepth, EnterTryPanicsDepth, LeaveTryDepth,
       RaiseStmtDepth, BeginWithDepth, BeginWithEnteredDepth, EndWithDepth,
       EndWithExitedDepth, LoopDepth, CatchDepth, ReturnDepth, LeaveDepth DEF Next

(***************************************************************************)
(* A frame that runs has on its value stack what the compiled code will    *)
(* take from it, unless one of the faults has been met: the NULL of a call *)
(* that raised is never missed by the instruction that waits for a value.  *)
(***************************************************************************)
THEOREM StacksAreDeepEnough == Spec => []StackCoversDepth
  <1>1. Init => IInv /\ DepthInv
    BY InitInv DEF Init, DepthInv
  <1>2. DepthInv => StackCoversDepth
    BY DEF DepthInv, FrameDepth, StackCoversDepth
  <1> QED
    BY <1>1, <1>2, NextInv, NextDepth, PTL DEF Spec

-----------------------------------------------------------------------------
(***************************************************************************)
(* One exception at a time, as long as no C code calls again after a call  *)
(* has failed.  Then nothing runs above a frame that is interrupted, so    *)
(* that an exception begins where no other is on its way.                  *)
(***************************************************************************)
OnceOnly == \A k \in Kinds : ~CallsAgain(k)

\* The inductive invariant: no instruction calls again, the flag is clear where an
\* exception may begin, and an exception has come through all frames above.
OneInv ==
    /\ \A i \in DOMAIN frames : ~frames[i].fast /\ ~CallsAgain(frames[i].doing)
    \* An instruction that has not been handed a result has not failed.
    /\ frames # <<>> /\ Top.doing # "run" /\ Top.got = "nothing" => Top.interrupt = "no"
    \* The exception came through all frames above one it has interrupted.
    /\ \A i, k \in DOMAIN frames : i < k /\ frames[i].interrupt = "raise" =>
            frames[k].interrupt = "raise" /\ frames[k].pending = <<>>

\* What is known of the top frame and of those below it.
LEMMA TopOne ==
    ASSUME IInv, OneInv, frames # <<>>
    PROVE  /\ ~Top.fast /\ ~CallsAgain(Top.doing) /\ Len(frames) \in DOMAIN frames
           /\ Top.interrupt # "raise" \/ Top.pending # <<>> =>
                \A i \in DOMAIN frames : i # Len(frames) => frames[i].interrupt # "raise"
  <1>1. Len(frames) \in Nat \ {0} /\ DOMAIN frames = 1..Len(frames)
    BY TopFrame, LenProperties DEF IInv, StackInv
  <1> QED
    BY <1>1 DEF OneInv, Top

\* A new top frame that unwinds only if the one before does.
LEMMA SetTopOne ==
    ASSUME IInv, OneInv, frames # <<>>, NEW f, SetTop(f), ~f.fast, ~CallsAgain(f.doing),
           f.doing # "run" /\ f.got = "nothing" => f.interrupt = "no",
           \/ f.interrupt = Top.interrupt /\ f.pending = Top.pending
           \/ Top.interrupt # "raise" \/ Top.pending # <<>>
    PROVE  OneInv'
  <1>1. /\ DOMAIN frames' = DOMAIN frames /\ Len(frames') = Len(frames)
        /\ DOMAIN frames = 1..Len(frames) /\ Len(frames) \in Nat \ {0}
        /\ \A i \in DOMAIN frames : frames'[i] = IF i = Len(frames) THEN f ELSE frames[i]
    BY SetTopFrames
  <1>2. Top' = f
    BY <1>1 DEF Top
  <1>3. ASSUME NEW i \in DOMAIN frames, NEW k \in DOMAIN frames, i < k,
               frames'[i].interrupt = "raise"
        PROVE  frames'[k].interrupt = "raise" /\ frames'[k].pending = <<>>
    <2>1. i # Len(frames) /\ frames[i].interrupt = "raise"
      BY <1>1, <1>3
    <2>2. frames[k].interrupt = "raise" /\ frames[k].pending = <<>>
      BY <1>3, <2>1 DEF OneInv
    <2>3. CASE k = Len(frames)
      BY <1>1, <2>1, <2>2, <2>3, TopOne DEF Top
    <2>4. CASE k # Len(frames)
      BY <1>1, <2>2, <2>4
    <2> QED
      BY <2>3, <2>4
  <1>4. \A i \in DOMAIN frames : ~frames'[i].fast /\ ~CallsAgain(frames'[i].doing)
    BY <1>1 DEF OneInv
  <1> QED
    BY <1>1, <1>2, <1>3, <1>4 DEF OneInv

\* What an instruction that is fetched finds: no exception is on its way.
LEMMA FetchOne ==
    ASSUME IInv, OneInv, Fetches
    PROVE  /\ frames # <<>> /\ Top \in Frame /\ ~Top.fast /\ Top.interrupt = "no"
           /\ Top.doing = "run"
  BY TopFrame, TopOne DEF Fetches

\* A raise by a frame that no exception has interrupted.
LEMMA RaiseOne ==
    ASSUME IInv, OneInv, frames # <<>>, Top.interrupt = "no",
           NEW f \in Frame, Raise(WithTop(f)), f.interrupt = "no", f.pending = <<>>,
           ~f.fast, ~CallsAgain(f.doing), f.doing = "run" \/ f.got # "nothing"
    PROVE  OneInv'
  <1> DEFINE fs == WithTop(f)
             n == Len(frames)
  <1>1. /\ DOMAIN fs = 1..n /\ Len(fs) = n /\ n \in Nat \ {0} /\ DOMAIN frames = 1..n
        /\ \A i \in 1..n : fs[i] = IF i = n THEN f ELSE frames[i]
    <2>1. frames \in Seq(Frame) /\ n \in Nat \ {0}
      BY EmptySeq DEF IInv, StackInv
    <2> QED
      BY <2>1, LenProperties DEF WithTop
  <1>2. \A i \in 1..n : i # n => frames[i].interrupt # "raise"
    BY <1>1, TopOne
  <1> HIDE DEF fs, n
  <1>3. PICK j \in 0..n :
            frames' = [i \in 1..n |->
                        IF i > j THEN Passed(fs[i])
                        ELSE IF i = j THEN Catching(fs[i]) ELSE fs[i]]
    BY <1>1 DEF Raise, fs
  <1>4. ASSUME NEW i \in 1..n
        PROVE  /\ fs[i] \in Frame /\ ~fs[i].fast /\ ~CallsAgain(fs[i].doing)
               /\ fs[i].pending = <<>>
               /\ i # n => fs[i].interrupt = "no"
    <2>1. CASE i = n
      BY <1>1, <2>1
    <2>2. CASE i # n
      <3>1. i \in DOMAIN frames /\ i < Len(frames)
        <4>1. n \in Nat /\ n = Len(frames) /\ DOMAIN frames = 1..n
          BY <1>1 DEF n
        <4>2. i < n
          BY <2>2, <4>1
        <4> QED
          BY <4>1, <4>2
      <3>2. fs[i] = frames[i] /\ frames[i].interrupt # "raise"
        BY <1>1, <1>2, <2>2
      <3>3. FrameInv(frames[i]) /\ frames[i].doing # "run"
        BY <3>1 DEF IInv, StackInv
      <3> QED
        BY <3>1, <3>2, <3>3 DEF FrameInv, OneInv
    <2> QED
      BY <2>1, <2>2
  <1>5. ASSUME NEW h \in Frame
        PROVE  /\ Passed(h).fast = h.fast /\ Passed(h).doing = h.doing
               /\ Passed(h).got = h.got /\ Passed(h).pending = h.pending
               /\ Passed(h).interrupt = IF h.interrupt = "no" THEN "raise" ELSE h.interrupt
               /\ Catching(h).fast = h.fast /\ Catching(h).doing = h.doing
               /\ Catching(h).got = h.got
    <2>1. PICK p : p = Interrupted(h, "raise")
      OBVIOUS
    <2>2. /\ p \in Frame /\ p.fast = h.fast /\ p.doing = h.doing /\ p.got = h.got
          /\ p.pending = h.pending
          /\ p.interrupt = IF h.interrupt = "no" THEN "raise" ELSE h.interrupt
      <3>1. p.got = h.got
        BY <2>1 DEF Interrupted, Frame
      <3> QED
        BY <2>1, <3>1, InterruptedFrame
    <2> QED
      BY <2>1, <2>2 DEF Passed, Catching, Frame
  <1>6. \A i \in 1..n : ~frames'[i].fast /\ ~CallsAgain(frames'[i].doing)
    BY <1>3, <1>4, <1>5
  <1>7. \A i \in 1..n : i < j => frames'[i].interrupt # "raise"
    BY <1>1, <1>3, <1>4
  <1>8. \A i \in 1..n : i > j /\ i # n =>
          frames'[i].interrupt = "raise" /\ frames'[i].pending = <<>>
    BY <1>1, <1>3, <1>4, <1>5
  <1>9. n > j => frames'[n].pending = <<>> /\ frames'[n].interrupt = "raise"
    BY <1>1, <1>3, <1>4, <1>5
  <1>10. DOMAIN frames' = 1..n /\ Len(frames') = n
    <2>1. DOMAIN frames' = 1..n
      BY <1>3
    <2>2. frames' \in Seq({frames'[i] : i \in 1..n})
      BY <1>1, <1>3, SeqDef
    <2> QED
      BY <1>1, <2>1, <2>2, LenProperties
  <1>11. Top'.doing = "run" \/ Top'.got # "nothing"
    BY <1>1, <1>3, <1>4, <1>5, <1>10 DEF Top
  <1>12. ASSUME NEW i \in 1..n, NEW k \in 1..n, i < k, frames'[i].interrupt = "raise"
         PROVE  frames'[k].interrupt = "raise" /\ frames'[k].pending = <<>>
    <2>1. k > j
      BY <1>1, <1>7, <1>12
    <2> QED
      BY <1>8, <1>9, <2>1
  <1> QED
    BY <1>6, <1>10, <1>11, <1>12 DEF OneInv

\* A fetched frame keeps its flag, which is clear.
LEMMA FetchedOne ==
    ASSUME IInv, OneInv, Fetches, NEW f, SetTop(f), ~f.fast, ~CallsAgain(f.doing),
           f.interrupt = Top.interrupt
    PROVE  OneInv'
  BY FetchOne, SetTopOne

\* A value is loaded.
LEMMA LoadOne == ASSUME IInv, OneInv, Load PROVE OneInv'
  <1> DEFINE t == Top
             g == [t EXCEPT !.stack = Append(t.stack, "val"), !.depth = t.depth + 1]
  <1>1. Fetches /\ SetTop(g) /\ t \in Frame /\ ~t.fast /\ t.doing = "run"
    BY FetchOne DEF Load
  <1> HIDE DEF t
  <1>2. g.interrupt = t.interrupt /\ g.fast = t.fast /\ g.doing = t.doing
    BY <1>1 DEF Frame
  <1> HIDE DEF g
  <1> QED
    BY <1>1, <1>2, FetchedOne DEF t, CallsAgain

\* A statement ends.
LEMMA PopValueOne == ASSUME IInv, OneInv, NEW keep \in BOOLEAN, PopValue(keep) PROVE OneInv'
  <1> DEFINE t == Top
             v == IF keep THEN Last(t.stack) ELSE t.retval
             g == [t EXCEPT !.stack = Front(t.stack), !.depth = 0, !.retval = v]
  <1>1. Fetches /\ SetTop(g) /\ t \in Frame /\ ~t.fast /\ t.doing = "run"
    BY FetchOne DEF PopValue
  <1> HIDE DEF t, v
  <1>2. g.interrupt = t.interrupt /\ g.fast = t.fast /\ g.doing = t.doing
    BY <1>1 DEF Frame
  <1> HIDE DEF g
  <1> QED
    BY <1>1, <1>2, FetchedOne DEF t, CallsAgain

\* The instructions that would call again are not used.
LEMMA BeginOne ==
    ASSUME OnceOnly, IInv, OneInv, NEW kind \in Kinds, Begin(kind) PROVE OneInv'
  <1> DEFINE t == Top
             s == Pop(t.stack, Operands(kind))
             d == t.depth - Operands(kind)
             g == [t EXCEPT !.stack = s, !.depth = d, !.doing = kind,
                            !.got = "nothing", !.fast = FALSE]
  <1>1. Fetches /\ SetTop(g) /\ t \in Frame /\ ~CallsAgain(kind)
    BY FetchOne DEF Begin, OnceOnly
  <1> HIDE DEF t, s, d
  <1>2. g.interrupt = t.interrupt /\ ~g.fast /\ g.doing = kind
    BY <1>1 DEF Frame
  <1> HIDE DEF g
  <1> QED
    BY <1>1, <1>2, FetchedOne DEF t

\* The result is used; the flag stays as it is.
LEMMA FinishOne == ASSUME IInv, OneInv, NEW res \in Values, Finish(res) PROVE OneInv'
  <1> DEFINE t == Top
             s == t.stack \o Pushed(t.doing, res)
             d == t.depth + Yields(t.doing)
             q == t.doing = "build" /\ t.interrupt # "no"
             g == [t EXCEPT !.stack = s, !.depth = d, !.doing = "run",
                            !.got = "nothing", !.fast = q]
  <1>1. frames # <<>> /\ t \in Frame /\ SetTop(g) /\ ~CallsAgain(t.doing)
    BY TopFrame, TopOne DEF Finish
  <1> HIDE DEF t
  <1>2. ~q
    BY <1>1 DEF CallsAgain
  <1> HIDE DEF s, d, q
  <1>3. /\ g.interrupt = t.interrupt /\ g.pending = t.pending
        /\ g.fast = q /\ g.doing = "run"
    BY <1>1 DEF Frame
  <1> HIDE DEF g
  <1>4. ~g.fast /\ ~CallsAgain(g.doing)
    BY <1>2, <1>3 DEF CallsAgain
  <1> QED
    BY <1>1, <1>3, <1>4, SetTopOne DEF t

\* A try statement begins.
LEMMA EnterTryOne == ASSUME IInv, OneInv, EnterTry PROVE OneInv'
  <1> DEFINE t == Top
             g == [t EXCEPT !.handlers = Append(t.handlers, t.nest),
                            !.nest = Append(t.nest, "try"), !.fast = FALSE]
  <1>1. Fetches /\ SetTop(g) /\ t \in Frame /\ t.doing = "run"
    BY FetchOne DEF EnterTry, AtStatement
  <1> HIDE DEF t
  <1>2. g.interrupt = t.interrupt /\ ~g.fast /\ g.doing = t.doing
    BY <1>1 DEF Frame
  <1> HIDE DEF g
  <1> QED
    BY <1>1, <1>2, FetchedOne DEF t, CallsAgain

\* A panic is not an exception on its way.
LEMMA EnterTryPanicsOne == ASSUME IInv, OneInv, EnterTryPanics PROVE OneInv'
  <1> DEFINE t == Top
             p == Interrupted(t, "panic")
             g == [p EXCEPT !.fast = FALSE]
  <1>1. /\ frames # <<>> /\ t \in Frame /\ t.doing = "run" /\ t.interrupt = "no"
        /\ SetTop(g)
    <2>1. SetTop(g)
      BY DEF EnterTryPanics
    <2> HIDE DEF g
    <2> QED
      BY <2>1, FetchOne DEF EnterTryPanics, AtStatement
  <1> HIDE DEF t
  <1>2. p \in Frame /\ p.doing = t.doing
    BY <1>1, InterruptedFrame
  <1> HIDE DEF p
  <1>3. ~g.fast /\ g.doing = "run"
    BY <1>1, <1>2 DEF Frame
  <1> HIDE DEF g
  <1> QED
    BY <1>1, <1>3, SetTopOne DEF t, CallsAgain

\* A try statement ends.
LEMMA LeaveTryOne == ASSUME IInv, OneInv, LeaveTry PROVE OneInv'
  <1> DEFINE t == Top
             g == [t EXCEPT !.handlers = Front(t.handlers),
                            !.nest = Front(t.nest), !.fast = FALSE]
  <1>1. Fetches /\ SetTop(g) /\ t \in Frame /\ t.doing = "run"
    BY FetchOne DEF LeaveTry, AtStatement
  <1> HIDE DEF t
  <1>2. g.interrupt = t.interrupt /\ ~g.fast /\ g.doing = t.doing
    BY <1>1 DEF Frame
  <1> HIDE DEF g
  <1> QED
    BY <1>1, <1>2, FetchedOne DEF t, CallsAgain

\* A with statement begins.
LEMMA BeginWithOne == ASSUME IInv, OneInv, BeginWith PROVE OneInv'
  <1> DEFINE t == Top
             g == [t EXCEPT !.stack = Front(t.stack), !.depth = 0, !.doing = "enter",
                            !.got = "nothing", !.fast = FALSE]
  <1>1. Fetches /\ SetTop(g) /\ t \in Frame
    BY FetchOne DEF BeginWith
  <1> HIDE DEF t
  <1>2. g.interrupt = t.interrupt /\ ~g.fast /\ g.doing = "enter"
    BY <1>1 DEF Frame
  <1> HIDE DEF g
  <1> QED
    BY <1>1, <1>2, FetchedOne DEF t, CallsAgain

\* A with statement ends.
LEMMA EndWithOne == ASSUME IInv, OneInv, EndWith PROVE OneInv'
  <1> DEFINE t == Top
             g == [t EXCEPT !.disposable = Disposed(t.disposable), !.nest = Front(t.nest),
                            !.doing = "exit", !.got = "nothing", !.fast = FALSE]
  <1>1. Fetches /\ SetTop(g) /\ t \in Frame
    BY FetchOne DEF EndWith, AtStatement
  <1> HIDE DEF t
  <1>2. g.interrupt = t.interrupt /\ ~g.fast /\ g.doing = "exit"
    BY <1>1 DEF Frame
  <1> HIDE DEF g
  <1> QED
    BY <1>1, <1>2, FetchedOne DEF t, CallsAgain

\* What follows the call of GaObj_ENTER or GaObj_EXIT.
LEMMA EndedOne ==
    ASSUME IInv, OneInv, frames # <<>>, NEW f, SetTop(f), f.fast = Top.fast,
           f.interrupt = Top.interrupt, f.pending = Top.pending, f.doing = "run"
    PROVE  OneInv'
  BY TopOne, SetTopOne DEF CallsAgain

\* GaObj_ENTER has returned.
LEMMA BeginWithEnteredOne == ASSUME IInv, OneInv, BeginWithEntered PROVE OneInv'
  <1> DEFINE t == Top
             d == IF unhandled THEN t.disposable ELSE Append(t.disposable, t.nest)
             g == [t EXCEPT !.disposable = d, !.nest = Append(t.nest, "with"),
                            !.doing = "run", !.got = "nothing"]
  <1>1. frames # <<>> /\ t \in Frame /\ SetTop(g)
    BY TopFrame DEF BeginWithEntered
  <1> HIDE DEF t, d
  <1>2. /\ g.interrupt = t.interrupt /\ g.pending = t.pending /\ g.fast = t.fast
        /\ g.doing = "run"
    BY <1>1 DEF Frame
  <1> HIDE DEF g
  <1> QED
    BY <1>1, <1>2, EndedOne DEF t

\* GaObj_EXIT has returned.
LEMMA EndWithExitedOne == ASSUME IInv, OneInv, EndWithExited PROVE OneInv'
  <1> DEFINE t == Top
             g == [t EXCEPT !.doing = "run", !.got = "nothing"]
  <1>1. frames # <<>> /\ t \in Frame /\ SetTop(g)
    BY TopFrame DEF EndWithExited
  <1> HIDE DEF t
  <1>2. /\ g.interrupt = t.interrupt /\ g.pending = t.pending /\ g.fast = t.fast
        /\ g.doing = "run"
    BY <1>1 DEF Frame
  <1> HIDE DEF g
  <1> QED
    BY <1>1, <1>2, EndedOne DEF t

\* A step that only enters or leaves a statement.
LEMMA NestStepOne ==
    ASSUME IInv, OneInv, AtStatement, NEW nest, SetTop([Top EXCEPT !.nest = nest])
    PROVE  OneInv'
  <1> DEFINE t == Top
             g == [t EXCEPT !.nest = nest]
  <1>1. Fetches /\ SetTop(g) /\ t \in Frame /\ t.doing = "run" /\ ~t.fast
    BY FetchOne DEF AtStatement
  <1> HIDE DEF t
  <1>2. g.interrupt = t.interrupt /\ g.fast = t.fast /\ g.doing = t.doing
    BY <1>1 DEF Frame
  <1> HIDE DEF g
  <1> QED
    BY <1>1, <1>2, FetchedOne DEF t, CallsAgain

\* The two ends of a loop.
LEMMA LoopOne == ASSUME IInv, OneInv, EnterLoop \/ LeaveLoop PROVE OneInv'
  BY NestStepOne DEF EnterLoop, LeaveLoop

\* A jump out of statements.
LEMMA BreakOne == ASSUME IInv, OneInv, NEW continues \in BOOLEAN, Break(continues) PROVE OneInv'
  <1> DEFINE t == Top
  <1>1. Fetches /\ t \in Frame /\ t.doing = "run"
    BY FetchOne DEF Break, AtStatement
  <1>2. PICK at : SetTop([Abandon(t, at) EXCEPT !.fast = FALSE])
    BY DEF Break
  <1> DEFINE a == Abandon(t, at)
             g == [a EXCEPT !.fast = FALSE]
  <1> HIDE DEF t
  <1>3. g.interrupt = t.interrupt /\ ~g.fast /\ g.doing = t.doing
    BY <1>1 DEF Abandon, Frame
  <1>4. SetTop(g)
    BY <1>2
  <1> HIDE DEF g
  <1> QED
    BY <1>1, <1>3, <1>4, FetchedOne DEF t, CallsAgain

\* The frame that catches is the last one an exception has interrupted.
LEMMA CatchOne == ASSUME IInv, OneInv, Catch PROVE OneInv'
  <1> DEFINE t == Top
             a == Abandon(t, t.pending[1])
             g == [a EXCEPT !.depth = 0, !.pending = <<>>, !.interrupt = "no",
                            !.leftTry = t.leftTry]
  <1>1. /\ frames # <<>> /\ t \in Frame /\ t.doing = "run" /\ ~t.fast /\ t.pending # <<>>
        /\ SetTop(g)
    BY TopFrame DEF Catch, Notices
  <1> HIDE DEF t
  <1>2. g.fast = t.fast /\ g.doing = t.doing
    BY <1>1 DEF Abandon, Frame
  <1> HIDE DEF g
  <1> QED
    BY <1>1, <1>2, SetTopOne DEF t, CallsAgain

\* RET ends a frame that no exception has interrupted.
LEMMA ReturnOne == ASSUME IInv, OneInv, Return PROVE OneInv'
  <1> DEFINE t == Top
             p == Interrupted(t, "return")
             s == IF t.stack = <<>> THEN t.stack ELSE Front(t.stack)
             g == [p EXCEPT !.stack = s, !.depth = 0, !.retval = ReturnValue(t),
                            !.fast = FALSE]
  <1>1. /\ frames # <<>> /\ t \in Frame /\ t.doing = "run" /\ t.interrupt = "no"
        /\ SetTop(g)
    <2>1. SetTop(g)
      BY DEF Return, Interrupted
    <2> HIDE DEF g
    <2> QED
      BY <2>1, FetchOne DEF Return
  <1> HIDE DEF t
  <1>2. p \in Frame /\ p.doing = t.doing
    BY <1>1, InterruptedFrame
  <1> HIDE DEF p, s
  <1>3. ~g.fast /\ g.doing = "run"
    BY <1>1, <1>2 DEF Frame
  <1> HIDE DEF g
  <1> QED
    BY <1>1, <1>3, SetTopOne DEF t, CallsAgain

\* There is one frame.
LEMMA StartOne == ASSUME Start PROVE OneInv'
  <1>1. /\ frames' = <<NewFrame>> /\ DOMAIN frames' = {1} /\ Len(frames') = 1
        /\ frames'[1] = NewFrame
    BY DEF Start
  <1>2. Top' = NewFrame
    BY <1>1 DEF Top
  <1> QED
    BY <1>1, <1>2 DEF OneInv, NewFrame, CallsAgain

\* A call begins where no exception is on its way.
LEMMA CallFunctionOne == ASSUME IInv, OneInv, CallFunction PROVE OneInv'
  <1>1. /\ frames # <<>> /\ frames' = Append(frames, NewFrame) /\ Top.doing # "run"
        /\ Top.got = "nothing"
    BY TopOne DEF CallFunction
  <1>2. frames \in Seq(Frame) /\ NewFrame \in Frame
    BY NewFrameInv DEF IInv, StackInv, FrameInv
  <1>3. /\ DOMAIN frames = 1..Len(frames) /\ Len(frames) \in Nat
        /\ DOMAIN frames' = 1..(Len(frames) + 1) /\ Len(frames') = Len(frames) + 1
        /\ frames'[Len(frames) + 1] = NewFrame
        /\ \A i \in 1..Len(frames) : frames'[i] = frames[i]
    BY <1>1, <1>2, AppendTyped
  <1>4. \A i \in DOMAIN frames : frames[i].interrupt # "raise"
    BY <1>1, TopOne DEF OneInv, Top
  <1>5. Top' = NewFrame
    BY <1>3 DEF Top
  <1>6. \A i \in DOMAIN frames' : frames'[i] = NewFrame \/ (i \in DOMAIN frames /\ frames'[i] = frames[i])
    BY <1>3
  <1>7. /\ ~NewFrame.fast /\ ~CallsAgain(NewFrame.doing) /\ NewFrame.interrupt = "no"
        /\ NewFrame.doing = "run"
    BY DEF NewFrame, CallsAgain
  <1>8. \A i \in DOMAIN frames' : ~frames'[i].fast /\ ~CallsAgain(frames'[i].doing)
                                  /\ frames'[i].interrupt # "raise"
    BY <1>4, <1>6, <1>7 DEF OneInv
  <1> QED
    BY <1>5, <1>7, <1>8 DEF OneInv

\* The caller has been handed a result, and may be interrupted.
LEMMA LeaveOne == ASSUME IInv, OneInv, Leave PROVE OneInv'
  <1>1. /\ frames # <<>> /\ frames \in Seq(Frame) /\ Len(frames) \in Nat \ {0}
        /\ DOMAIN frames = 1..Len(frames)
    BY TopFrame, LenProperties DEF Leave, Notices, IInv, StackInv
  <1>2. CASE Len(frames) = 1
    <2>1. frames' = <<>> /\ DOMAIN frames' = {}
      BY <1>2 DEF Leave
    <2> QED
      BY <2>1 DEF OneInv
  <1>3. CASE Len(frames) # 1
    <2> DEFINE n == Len(frames) - 1
               b == Front(frames)
               r == Result(Top)
               g == [b[n] EXCEPT !.got = r]
    <2>1. /\ b \in Seq(Frame) /\ Len(b) = n /\ n \in Nat \ {0} /\ DOMAIN b = 1..n
          /\ \A i \in 1..n : b[i] = frames[i]
      <3>1. /\ b \in Seq(Frame) /\ Len(b) = n
            /\ \A i \in 1..n : b[i] = frames[i]
        BY <1>1, FrontLast
      <3>2. n \in Nat \ {0}
        BY <1>1, <1>3
      <3> HIDE DEF b, n
      <3> QED
        BY <3>1, <3>2, LenProperties
    <2>2. frames' = [b EXCEPT ![n] = g] /\ r # "nothing"
      BY <1>3 DEF Leave, Result
    <2>3. n \in DOMAIN frames /\ b[n] = frames[n] /\ b[n] \in Frame /\ n < Len(frames)
      BY <1>1, <2>1
    <2> HIDE DEF n, b, r
    <2>4. /\ g.interrupt = b[n].interrupt /\ g.pending = b[n].pending
          /\ g.doing = b[n].doing /\ g.fast = b[n].fast /\ g.got = r
      BY <2>3 DEF Frame
    <2> HIDE DEF g
    <2>5. /\ DOMAIN frames' = 1..n /\ Len(frames') = n
          /\ \A i \in 1..n : frames'[i] = IF i = n THEN g ELSE frames[i]
      BY <2>1, <2>2
    <2>6. Top' = g
      BY <2>1, <2>5 DEF Top
    <2>7. \A i \in 1..n : i \in DOMAIN frames
      BY <1>1, <2>3
    <2>8. \A i \in 1..n : /\ frames'[i].fast = frames[i].fast
                          /\ frames'[i].doing = frames[i].doing
                          /\ frames'[i].interrupt = frames[i].interrupt
                          /\ frames'[i].pending = frames[i].pending
      BY <2>3, <2>4, <2>5
    <2> QED
      BY <2>2, <2>4, <2>5, <2>6, <2>7, <2>8 DEF OneInv
  <1> QED
    BY <1>2, <1>3

\* C code raises before any call it made has returned.
LEMMA NativeRaisesOne == ASSUME IInv, OneInv, NativeRaises PROVE OneInv'
  <1> DEFINE t == Top
             d == IF t.doing = "native" THEN "invoke" ELSE t.doing
             g == [t EXCEPT !.got = "null", !.doing = d]
  <1>1. /\ frames # <<>> /\ t \in Frame /\ FrameInv(t) /\ ~CallsAgain(t.doing) /\ ~t.fast
        /\ t.doing # "run" /\ t.got = "nothing"
    BY TopFrame, TopOne DEF NativeRaises
  <1>2. Raise(WithTop(g))
    BY DEF NativeRaises
  <1>3. t.interrupt = "no"
    BY <1>1 DEF OneInv
  <1> HIDE DEF t
  <1>4. d = t.doing /\ t.pending = <<>> /\ d \in AllKinds \cup {"run"}
    <2>1. t.pending = <<>>
      BY <1>1, <1>3 DEF FrameInv
    <2> QED
      BY <1>1, <2>1 DEF CallsAgain, Frame
  <1> HIDE DEF d
  <1>5. /\ g \in Frame /\ g.interrupt = t.interrupt /\ g.pending = t.pending
        /\ g.fast = t.fast /\ g.doing = d /\ g.got # "nothing"
    BY <1>1, <1>4 DEF Frame
  <1> HIDE DEF g
  <1>6. /\ g.interrupt = "no" /\ g.pending = <<>> /\ ~g.fast /\ ~CallsAgain(g.doing)
    BY <1>1, <1>3, <1>4, <1>5
  <1> QED
    BY <1>1, <1>2, <1>3, <1>5, <1>6, RaiseOne DEF t

\* RAISE, in a frame no exception has interrupted.
LEMMA RaiseStmtOne == ASSUME IInv, OneInv, RaiseStmt PROVE OneInv'
  <1> DEFINE t == Top
             g == [t EXCEPT !.stack = Front(t.stack), !.depth = 0, !.fast = FALSE]
  <1>1. /\ frames # <<>> /\ t \in Frame /\ FrameInv(t) /\ t.doing = "run"
        /\ t.interrupt = "no" /\ Len(t.stack) >= 1
    BY FetchOne, TopFrame DEF RaiseStmt, Fetches, Sound
  <1>2. Raise(WithTop(g))
    BY DEF RaiseStmt
  <1> HIDE DEF t
  <1>3. Front(t.stack) \in Seq(Values)
    <2>1. t.stack \in Seq(Values) /\ t.stack # <<>>
      BY <1>1, EmptySeq DEF Frame
    <2> QED
      BY <2>1, FrontLast
  <1>4. t.pending = <<>>
    BY <1>1 DEF FrameInv
  <1>5. /\ g \in Frame /\ g.interrupt = t.interrupt /\ g.pending = t.pending
        /\ g.doing = "run" /\ ~g.fast
    BY <1>1, <1>3 DEF Frame
  <1> HIDE DEF g
  <1>6. ~CallsAgain(g.doing)
    BY <1>5 DEF CallsAgain
  <1> QED
    BY <1>1, <1>2, <1>4, <1>5, <1>6, RaiseOne DEF t

\* Every step keeps the exceptions apart.
LEMMA NextOne == OnceOnly /\ IInv /\ OneInv /\ [Next]_vars => OneInv'
  <1> SUFFICES ASSUME OnceOnly, IInv, OneInv, [Next]_vars PROVE OneInv'
    OBVIOUS
  <1>1. ASSUME NEW keep \in BOOLEAN, PopValue(keep) PROVE OneInv'
    BY <1>1, PopValueOne
  <1>2. ASSUME NEW kind \in Kinds, Begin(kind) PROVE OneInv'
    BY <1>2, BeginOne
  <1>3. ASSUME NEW res \in Values, Finish(res) PROVE OneInv'
    BY <1>3, FinishOne
  <1>4. ASSUME NEW continues \in BOOLEAN, Break(continues) PROVE OneInv'
    BY <1>4, BreakOne
  <1>5. CASE Undefined \/ UNCHANGED vars
    BY <1>5 DEF Undefined, vars, OneInv, Top
  <1> QED
    BY <1>1, <1>2, <1>3, <1>4, <1>5, StartOne, LoadOne, CallFunctionOne,
       NativeRaisesOne, EnterTryOne, EnterTryPanicsOne, LeaveTryOne,
       RaiseStmtOne, BeginWithOne, BeginWithEnteredOne, EndWithOne,
       EndWithExitedOne, LoopOne, CatchOne, ReturnOne, LeaveOne DEF Next

(***************************************************************************)
(* In a program whose instructions run one piece of code each, at most one *)
(* frame has an exception handler pending: an exception is caught or       *)
(* reported before another one is raised.                                  *)
(***************************************************************************)
THEOREM NoExceptionOvertakes ==
    ASSUME OnceOnly PROVE Spec => []OneExceptionAtATime
  <1>1. Init => IInv /\ OneInv
    BY InitInv DEF Init, OneInv
  <1>2. IInv /\ OneInv => OneExceptionAtATime
    <2> SUFFICES ASSUME IInv, OneInv, NEW i \in DOMAIN frames, NEW j \in DOMAIN frames,
                        frames[i].pending # <<>>, frames[j].pending # <<>>
                 PROVE  i = j
      BY DEF OneExceptionAtATime
    <2>1. frames[i].interrupt = "raise" /\ frames[j].interrupt = "raise"
      BY DEF IInv, StackInv, FrameInv
    <2>2. i \in Nat /\ j \in Nat
      BY LenProperties DEF IInv, StackInv
    <2> QED
      BY <2>1, <2>2 DEF OneInv
  <1>3. IInv /\ OneInv /\ [Next]_vars => OneInv'
    BY NextOne
  <1> QED
    BY <1>1, <1>2, <1>3, NextInv, PTL DEF Spec

-----------------------------------------------------------------------------
(***************************************************************************)
(* The exception stack and the disposable stack.  Which statements are     *)
(* open in a nest.                                                         *)
(***************************************************************************)
\* The statement added to a nest is open in it.
LEMMA OpenAppend ==
    ASSUME NEW nest \in Nests, NEW b \in AllBlocks, NEW block
    PROVE  Open(Append(nest, b), block)
              = Open(nest, block) \cup (IF b = block THEN {nest} ELSE {})
  <1> DEFINE a == Append(nest, b)
             n == Len(nest)
  <1>1. /\ nest \in Seq(AllBlocks) /\ n \in Nat /\ DOMAIN nest = 1..n
        /\ a \in Seq(AllBlocks) /\ DOMAIN a = 1..(n + 1) /\ a[n + 1] = b
        /\ \A i \in 1..n : a[i] = nest[i]
    BY AppendTyped DEF Nests
  <1>2. ASSUME NEW k \in 0..n PROVE SubSeq(a, 1, k) = SubSeq(nest, 1, k)
    <2>1. /\ SubSeq(a, 1, k) = [i \in 1..k |-> a[i]]
          /\ SubSeq(nest, 1, k) = [i \in 1..k |-> nest[i]]
      BY <1>1, <1>2, SubSeqTyped, SubSeqProperties
    <2> QED
      BY <1>1, <1>2, <2>1
  <1>3. SubSeq(nest, 1, n) = nest
    BY <1>1, SubSeqFull
  <1> HIDE DEF a, n
  <1>4. ASSUME NEW k \in 1..(n + 1), a[k] = block
        PROVE  SubSeq(a, 1, k - 1) \in
                    Open(nest, block) \cup (IF b = block THEN {nest} ELSE {})
    <2>1. CASE k = n + 1
      <3>1. k - 1 = n /\ n \in 0..n
        BY <1>1, <2>1
      <3>2. SubSeq(a, 1, k - 1) = nest
        BY <1>2, <1>3, <3>1
      <3> QED
        BY <1>1, <1>4, <2>1, <3>2
    <2>2. CASE k # n + 1
      <3>1. k \in 1..n /\ k - 1 \in 0..n
        BY <1>1, <2>2
      <3>2. SubSeq(a, 1, k - 1) = SubSeq(nest, 1, k - 1) /\ nest[k] = block
        BY <1>1, <1>2, <1>4, <3>1
      <3> QED
        BY <1>1, <3>1, <3>2 DEF Open
    <2> QED
      BY <2>1, <2>2
  <1>5. ASSUME NEW k \in 1..n, nest[k] = block
        PROVE  SubSeq(nest, 1, k - 1) \in Open(a, block)
    <2>1. k \in 1..(n + 1) /\ k - 1 \in 0..n /\ a[k] = block
      BY <1>1, <1>5
    <2>2. SubSeq(nest, 1, k - 1) = SubSeq(a, 1, k - 1)
      BY <1>2, <2>1
    <2> QED
      BY <1>1, <2>1, <2>2 DEF Open
  <1>6. ASSUME b = block PROVE nest \in Open(a, block)
    <2>1. n + 1 \in 1..(n + 1) /\ n + 1 - 1 = n /\ n \in 0..n
      BY <1>1
    <2>2. SubSeq(a, 1, n + 1 - 1) = nest
      BY <1>2, <1>3, <2>1
    <2> QED
      BY <1>1, <1>6, <2>1, <2>2 DEF Open
  <1>7. Open(a, block) \subseteq Open(nest, block) \cup (IF b = block THEN {nest} ELSE {})
    BY <1>1, <1>4 DEF Open
  <1>8. Open(nest, block) \cup (IF b = block THEN {nest} ELSE {}) \subseteq Open(a, block)
    <2>1. Open(nest, block) \subseteq Open(a, block)
      <3>1. ASSUME NEW o \in Open(nest, block) PROVE o \in Open(a, block)
        <4>1. PICK k \in 1..n : nest[k] = block /\ o = SubSeq(nest, 1, k - 1)
          BY <1>1 DEF Open
        <4> QED
          BY <1>5, <4>1
      <3> QED
        BY <3>1
    <2> QED
      BY <1>6, <2>1
  <1> QED
    BY <1>7, <1>8 DEF a

\* What is open in a nest is a nest, and shorter.
LEMMA OpenTyped ==
    ASSUME NEW nest \in Nests, NEW block, NEW o \in Open(nest, block)
    PROVE  o \in Nests /\ Len(o) \in Nat /\ Len(nest) \in Nat /\ Len(o) < Len(nest)
  <1>1. nest \in Seq(AllBlocks) /\ Len(nest) \in Nat /\ DOMAIN nest = 1..Len(nest)
    BY DEF Nests
  <1>2. PICK k \in 1..Len(nest) : o = SubSeq(nest, 1, k - 1)
    BY <1>1 DEF Open
  <1>3. k - 1 \in 0..Len(nest) /\ k - 1 < Len(nest)
    BY <1>1
  <1>4. SubSeq(nest, 1, k - 1) \in Seq(AllBlocks) /\ Len(SubSeq(nest, 1, k - 1)) = k - 1
    BY <1>1, <1>3, SubSeqTyped
  <1> QED
    BY <1>1, <1>2, <1>3, <1>4 DEF Nests

\* The innermost statement of a nest, and the others.
LEMMA OpenFront ==
    ASSUME NEW nest \in Nests, nest # <<>>, NEW block
    PROVE  /\ Front(nest) \in Nests
           /\ Open(nest, block) = Open(Front(nest), block)
                                    \cup (IF Last(nest) = block THEN {Front(nest)} ELSE {})
  <1>1. Front(nest) \in Nests /\ Last(nest) \in AllBlocks
    BY FrontLast DEF Nests
  <1>2. nest = Append(Front(nest), Last(nest))
    <2> DEFINE a == Append(Front(nest), Last(nest))
    <2>1. /\ nest \in Seq(AllBlocks) /\ Front(nest) \in Seq(AllBlocks)
          /\ Len(Front(nest)) = Len(nest) - 1 /\ Len(nest) \in Nat \ {0}
          /\ \A i \in 1..(Len(nest) - 1) : Front(nest)[i] = nest[i]
          /\ Last(nest) = nest[Len(nest)] /\ Last(nest) \in AllBlocks
      BY FrontLast DEF Nests, Last
    <2>2. /\ a \in Seq(AllBlocks) /\ Len(a) = Len(Front(nest)) + 1
          /\ \A i \in 1..Len(Front(nest)) : a[i] = Front(nest)[i]
          /\ a[Len(Front(nest)) + 1] = Last(nest)
      BY <2>1, AppendTyped
    <2> HIDE DEF a
    <2>3. Len(a) = Len(nest) /\ \A i \in 1..Len(nest) : a[i] = nest[i]
      BY <2>1, <2>2
    <2>4. a = nest
      BY <2>1, <2>2, <2>3, SeqEqual
    <2> QED
      BY <2>4 DEF a
  <1>3. Open(Append(Front(nest), Last(nest)), block)
            = Open(Front(nest), block) \cup (IF Last(nest) = block THEN {Front(nest)} ELSE {})
    BY <1>1, OpenAppend
  <1> QED
    BY <1>1, <1>2, <1>3

\* Statements of one kind do not count among those of another.
LEMMA OpenOther ==
    ASSUME NEW nest \in Nests, NEW block
    PROVE  /\ \A b \in AllBlocks : b # block =>
                  Open(Append(nest, b), block) = Open(nest, block)
           /\ nest # <<>> /\ Last(nest) # block =>
                  Open(Front(nest), block) = Open(nest, block)
  <1>1. ASSUME NEW b \in AllBlocks, b # block
        PROVE  Open(Append(nest, b), block) = Open(nest, block)
    BY <1>1, OpenAppend
  <1>2. ASSUME nest # <<>>, Last(nest) # block
        PROVE  Open(Front(nest), block) = Open(nest, block)
    BY <1>2, OpenFront
  <1> QED
    BY <1>1, <1>2

\* A nest that has been left down to some statement.
LEMMA OpenPrefix ==
    ASSUME NEW nest \in Nests, NEW m \in 0..Len(nest), NEW block
    PROVE  Open(SubSeq(nest, 1, m), block) \subseteq Open(nest, block)
  <1> DEFINE p == SubSeq(nest, 1, m)
  <1>1. /\ nest \in Seq(AllBlocks) /\ Len(nest) \in Nat /\ DOMAIN nest = 1..Len(nest)
        /\ p \in Seq(AllBlocks) /\ Len(p) = m /\ DOMAIN p = 1..m
        /\ \A i \in 1..m : p[i] = nest[i]
    BY SubSeqTyped, SubSeqProperties DEF Nests
  <1> HIDE DEF p
  <1>2. ASSUME NEW o \in Open(p, block) PROVE o \in Open(nest, block)
    <2>1. PICK k \in 1..m : p[k] = block /\ o = SubSeq(p, 1, k - 1)
      BY <1>1 DEF Open
    <2>2. k \in 1..Len(nest) /\ nest[k] = block /\ k - 1 \in 0..m /\ k - 1 \in 0..Len(nest)
      BY <1>1, <2>1
    <2>3. SubSeq(p, 1, k - 1) = SubSeq(nest, 1, k - 1)
      <3>1. /\ SubSeq(p, 1, k - 1) = [i \in 1..(k - 1) |-> p[i]]
            /\ SubSeq(nest, 1, k - 1) = [i \in 1..(k - 1) |-> nest[i]]
        BY <1>1, <2>2, SubSeqTyped, SubSeqProperties
      <3> QED
        BY <1>1, <2>2, <3>1
    <2> QED
      BY <1>1, <2>1, <2>2, <2>3 DEF Open
  <1> QED
    BY <1>2 DEF p

-----------------------------------------------------------------------------
(***************************************************************************)
(* Stacks of nests.  Of the first n entries of the stack h, some (all of   *)
(* them, if none was left) are the statements of kind b open in a nest.    *)
(***************************************************************************)
Covered(h, n, nest, b, left) ==
    \E places \in SUBSET (1..n) :
        /\ Follows(h, places, nest, b)
        /\ ~left => places = 1..n

\* Two stacks with the same entries, and nests with the same statements.
LEMMA CoveredSame ==
    ASSUME NEW h, NEW g, NEW n \in Nat, \A i \in 1..n : g[i] = h[i],
           NEW nest, NEW at, NEW b, Open(at, b) = Open(nest, b),
           NEW x, NEW y, x => y, Covered(h, n, nest, b, x)
    PROVE  Covered(g, n, at, b, y)
  <1>1. PICK places \in SUBSET (1..n) :
            Follows(h, places, nest, b) /\ (~x => places = 1..n)
    BY DEF Covered
  <1>2. Follows(g, places, at, b)
    BY <1>1 DEF Follows
  <1> QED
    BY <1>1, <1>2 DEF Covered

\* Two stacks with the same first entries.
LEMMA CoveredFirst ==
    ASSUME NEW h, NEW g, NEW n, \A i \in 1..n : g[i] = h[i],
           NEW nest, NEW b, NEW x, Covered(h, n, nest, b, x)
    PROVE  Covered(g, n, nest, b, x)
  <1>1. PICK places \in SUBSET (1..n) :
            Follows(h, places, nest, b) /\ (~x => places = 1..n)
    BY DEF Covered
  <1>2. Follows(g, places, nest, b)
    BY <1>1 DEF Follows
  <1> QED
    BY <1>1, <1>2 DEF Covered

\* What follows exactly follows.
LEMMA CoveredLoosely ==
    ASSUME NEW h, NEW n, NEW nest, NEW b, NEW x, NEW y, x => y, Covered(h, n, nest, b, x)
    PROVE  Covered(h, n, nest, b, y)
  BY DEF Covered

\* Statements have been left, and their entries stay on the stack.
LEMMA CoveredLess ==
    ASSUME NEW h, NEW n \in Nat, NEW nest, NEW at, NEW b,
           Open(at, b) \subseteq Open(nest, b), NEW x, Covered(h, n, nest, b, x)
    PROVE  Covered(h, n, at, b, TRUE)
  <1>1. PICK places \in SUBSET (1..n) : Follows(h, places, nest, b)
    BY DEF Covered
  <1> DEFINE rest == {i \in places : h[i] \in Open(at, b)}
  <1>2. Follows(h, rest, at, b)
    BY <1>1 DEF Follows
  <1>3. rest \in SUBSET (1..n)
    OBVIOUS
  <1> QED
    BY <1>2, <1>3 DEF Covered

\* An entry is pushed as its statement begins.
LEMMA CoveredPush ==
    ASSUME NEW h \in Seq(Nests), NEW nest \in Nests, NEW b \in AllBlocks, NEW x, Covered(h, Len(h), nest, b, x)
    PROVE  Covered(Append(h, nest), Len(h) + 1, Append(nest, b), b, x)
  <1> DEFINE a == Append(h, nest)
             n == Len(h)
             at == Append(nest, b)
  <1>1. /\ n \in Nat /\ a[n + 1] = nest
        /\ \A i \in 1..n : a[i] = h[i] /\ h[i] \in Nests
    BY AppendTyped
  <1>2. Open(at, b) = Open(nest, b) \cup {nest}
    BY OpenAppend
  <1>3. PICK places \in SUBSET (1..n) :
            Follows(h, places, nest, b) /\ (~x => places = 1..n)
    BY DEF Covered
  <1> HIDE DEF a, n, at
  <1> DEFINE more == places \cup {n + 1}
  <1>4. more \in SUBSET (1..(n + 1)) /\ (~x => more = 1..(n + 1))
    BY <1>1, <1>3
  <1>5. {a[i] : i \in more} = Open(at, b)
    BY <1>1, <1>2, <1>3 DEF Follows
  <1>6. ASSUME NEW i \in more, NEW j \in more, i < j
        PROVE  Len(a[i]) < Len(a[j])
    <2>1. i \in places
      BY <1>1, <1>3, <1>6
    <2>2. CASE j \in places
      <3>1. a[i] = h[i] /\ a[j] = h[j]
        BY <1>1, <2>1, <2>2
      <3> QED
        BY <1>3, <1>6, <2>1, <2>2, <3>1 DEF Follows
    <2>3. CASE j = n + 1
      <3>1. a[i] = h[i] /\ a[j] = nest
        BY <1>1, <2>1, <2>3
      <3>2. h[i] \in Open(nest, b)
        BY <1>3, <2>1 DEF Follows
      <3> QED
        BY <3>1, <3>2, OpenTyped
    <2> QED
      BY <2>2, <2>3
  <1>7. Follows(a, more, at, b)
    BY <1>5, <1>6 DEF Follows
  <1> HIDE DEF more
  <1>8. Covered(a, n + 1, at, b, x)
    BY <1>4, <1>7 DEF Covered
  <1> QED
    BY <1>8 DEF a, n, at

\* An entry is popped as its statement ends.
LEMMA CoveredPop ==
    ASSUME NEW h \in Seq(Nests), h # <<>>, NEW nest \in Nests, nest # <<>>, NEW b \in AllBlocks,
           Last(nest) = b, NEW x, Covered(h, Len(h), nest, b, x)
    PROVE  Covered(Front(h), Len(h) - 1, Front(nest), b, x)
  <1> DEFINE c == Front(h)
             n == Len(h)
             at == Front(nest)
  <1>1. /\ n \in Nat \ {0} /\ \A i \in 1..(n - 1) : c[i] = h[i]
    BY FrontLast
  <1>2. at \in Nests /\ Open(nest, b) = Open(at, b) \cup {at}
    BY OpenFront
  <1>3. PICK places \in SUBSET (1..n) :
            Follows(h, places, nest, b) /\ (~x => places = 1..n)
    BY DEF Covered
  <1> HIDE DEF c, n, at
  <1>4. PICK p \in places : h[p] = at
    BY <1>2, <1>3 DEF Follows
  <1>5. ASSUME NEW i \in places, i # p PROVE i < p /\ h[i] \in Open(at, b)
    <2>1. i \in 1..n /\ p \in 1..n
      BY <1>3, <1>4
    <2>2. Len(h[i]) # Len(h[p])
      <3>1. CASE i < p
        <4>1. Len(h[i]) < Len(h[p])
          BY <1>3, <1>4, <3>1 DEF Follows
        <4>2. Len(h[i]) \in Nat /\ Len(h[p]) \in Nat
          BY <1>3, <1>4, OpenTyped DEF Follows
        <4> QED
          BY <4>1, <4>2
      <3>2. CASE p < i
        <4>1. Len(h[p]) < Len(h[i])
          BY <1>3, <1>4, <3>2 DEF Follows
        <4>2. Len(h[i]) \in Nat /\ Len(h[p]) \in Nat
          BY <1>3, <1>4, OpenTyped DEF Follows
        <4> QED
          BY <4>1, <4>2
      <3> QED
        BY <1>5, <2>1, <3>1, <3>2
    <2>3. h[i] \in Open(at, b)
      BY <1>2, <1>3, <1>4, <2>2 DEF Follows
    <2>4. Len(h[i]) < Len(at) /\ Len(h[i]) \in Nat /\ Len(at) \in Nat
      BY <1>2, <2>3, OpenTyped
    <2>5. ~(p < i)
      BY <1>3, <1>4, <2>4 DEF Follows
    <2> QED
      BY <1>5, <2>1, <2>3, <2>5
  <1> DEFINE rest == places \ {p}
  <1>6. at \notin Open(at, b)
    BY <1>2, OpenTyped
  <1>7. rest \in SUBSET (1..(n - 1)) /\ (~x => rest = 1..(n - 1))
    <2>1. \A i \in rest : i \in 1..n /\ i < p
      BY <1>3, <1>5
    <2>2. p \in 1..n
      BY <1>3, <1>4
    <2>3. ASSUME ~x PROVE p = n
      <3>1. n \in places
        BY <1>1, <1>3, <2>3
      <3> QED
        BY <1>1, <1>5, <2>2, <3>1
    <2>4. rest \in SUBSET (1..(n - 1))
      BY <1>1, <2>1, <2>2
    <2> QED
      BY <1>1, <1>3, <2>3, <2>4
  <1>8. {c[i] : i \in rest} = Open(at, b)
    <2>1. \A i \in rest : c[i] = h[i] /\ h[i] \in Open(at, b)
      BY <1>1, <1>5, <1>7
    <2>2. ASSUME NEW o \in Open(at, b) PROVE o \in {c[i] : i \in rest}
      <3>1. PICK i \in places : o = h[i]
        BY <1>2, <1>3 DEF Follows
      <3>2. i \in rest
        BY <1>4, <1>6, <2>2, <3>1
      <3> QED
        BY <2>1, <3>1, <3>2
    <2> QED
      BY <2>1, <2>2
  <1>9. \A i, j \in rest : i < j => Len(c[i]) < Len(c[j])
    BY <1>1, <1>3, <1>7 DEF Follows
  <1>10. Follows(c, rest, at, b)
    BY <1>8, <1>9 DEF Follows
  <1> HIDE DEF rest
  <1>11. Covered(c, n - 1, at, b, x)
    BY <1>7, <1>10 DEF Covered
  <1> QED
    BY <1>11 DEF c, n, at

-----------------------------------------------------------------------------
(***************************************************************************)
(* What a frame keeps: the handlers of the statements it is in, and before *)
(* each handler those of the statements the handler is in, so that a jump  *)
(* to it finds them; and on the disposable stack one entry for each with.  *)
(***************************************************************************)
FrameTries(f) ==
    /\ Covered(f.handlers, Len(f.handlers), Place(f), "try", f.leftTry)
    /\ \A j \in 1..Len(f.handlers) :
            Covered(f.handlers, j - 1, f.handlers[j], "try", f.leftTry)

FrameWiths(f) ==
    ~f.leftWith => Covered(f.disposable, Len(f.disposable), f.nest, "with", FALSE)

FollowInv ==
    "missed interrupt" \notin faults =>
        \A i \in DOMAIN frames :
            FrameTries(frames[i]) /\ (~unhandled => FrameWiths(frames[i]))

\* A frame whose handlers and statements have not changed.
LEMMA SameTries ==
    ASSUME NEW f, NEW t, t.handlers \in Seq(Nests), f.handlers = t.handlers,
           f.leftTry = t.leftTry \/ f.leftTry = TRUE,
           Open(Place(f), "try") = Open(Place(t), "try"), FrameTries(t)
    PROVE  FrameTries(f)
  <1>1. Len(t.handlers) \in Nat /\ (t.leftTry => f.leftTry)
    BY LenProperties
  <1>2. Covered(f.handlers, Len(f.handlers), Place(f), "try", f.leftTry)
    BY <1>1, CoveredSame DEF FrameTries
  <1>3. ASSUME NEW j \in 1..Len(f.handlers)
        PROVE  Covered(f.handlers, j - 1, f.handlers[j], "try", f.leftTry)
    <2>1. PICK h, m, o, x : /\ h = t.handlers /\ m = j - 1 /\ o = t.handlers[j]
                            /\ x = t.leftTry
      OBVIOUS
    <2>2. m \in Nat /\ Covered(h, m, o, "try", x)
      BY <1>1, <2>1 DEF FrameTries
    <2>3. PICK y : y = f.leftTry
      OBVIOUS
    <2>4. x => y
      BY <1>1, <2>1, <2>3
    <2>5. Covered(h, m, o, "try", y)
      BY <2>2, <2>4, CoveredLoosely
    <2> QED
      BY <2>1, <2>3, <2>5
  <1> QED
    BY <1>2, <1>3 DEF FrameTries

\* A frame whose disposable objects and statements have not changed.
LEMMA SameWiths ==
    ASSUME NEW f, NEW t, f.disposable = t.disposable,
           f.leftWith = t.leftWith, Open(f.nest, "with") = Open(t.nest, "with"),
           FrameWiths(t)
    PROVE  FrameWiths(f)
  BY DEF FrameWiths, Covered, Follows

\* The place of the top frame.
LEMMA TopPlace ==
    ASSUME IInv, frames # <<>>
    PROVE  Len(frames) \in DOMAIN frames
  <1>1. Len(frames) \in Nat \ {0} /\ DOMAIN frames = 1..Len(frames)
    BY TopFrame, LenProperties DEF IInv, StackInv
  <1> QED
    BY <1>1

\* A new top frame with its stacks in order.
LEMMA SetTopFollow ==
    ASSUME IInv, FollowInv, frames # <<>>, NEW f, SetTop(f),
           unhandled' = unhandled, faults \subseteq faults',
           "missed interrupt" \notin faults' /\ FrameTries(Top) => FrameTries(f),
           "missed interrupt" \notin faults' /\ ~unhandled /\ FrameWiths(Top)
                => FrameWiths(f)
    PROVE  FollowInv'
  <1>1. /\ DOMAIN frames' = DOMAIN frames
        /\ Len(frames) \in DOMAIN frames
        /\ \A i \in DOMAIN frames : frames'[i] = IF i = Len(frames) THEN f ELSE frames[i]
    BY SetTopFrames, TopPlace
  <1>2. ASSUME "missed interrupt" \notin faults', NEW i \in DOMAIN frames
        PROVE  FrameTries(frames'[i]) /\ (~unhandled' => FrameWiths(frames'[i]))
    <2>1. FrameTries(frames[i]) /\ (~unhandled => FrameWiths(frames[i]))
      BY <1>2 DEF FollowInv
    <2>2. FrameTries(Top) /\ (~unhandled => FrameWiths(Top))
      BY <1>1, <1>2 DEF FollowInv, Top
    <2> QED
      BY <1>1, <1>2, <2>1, <2>2
  <1> QED
    BY <1>1, <1>2 DEF FollowInv

\* A new top frame that differs from the old one in neither.
LEMMA KeptFollow ==
    ASSUME IInv, FollowInv, frames # <<>>, NEW f, SetTop(f),
           unhandled' = unhandled, faults \subseteq faults',
           f.handlers = Top.handlers, f.pending = Top.pending, f.nest = Top.nest,
           f.leftTry = Top.leftTry, f.leftWith = Top.leftWith,
           f.disposable = Top.disposable
    PROVE  FollowInv'
  <1>1. Top.handlers \in Seq(Nests) /\ Place(f) = Place(Top)
    BY TopFrame DEF Frame, Place
  <1>2. FrameTries(Top) => FrameTries(f)
    BY <1>1, SameTries
  <1>3. FrameWiths(Top) => FrameWiths(f)
    BY SameWiths
  <1> QED
    BY <1>2, <1>3, SetTopFollow

\* A missed interrupt is noted, and nothing is forgotten.
LEMMA FetchFollow ==
    ASSUME IInv, Fetches, NoteMissed
    PROVE  /\ frames # <<>> /\ Top \in Frame /\ faults \subseteq faults'
           /\ "missed interrupt" \notin faults' => Top.pending = <<>>
  <1>1. frames # <<>> /\ Top \in Frame /\ FrameInv(Top)
    BY TopFrame DEF Fetches
  <1>2. faults \subseteq faults' /\ ("missed interrupt" \notin faults' => Top.interrupt = "no")
    BY DEF NoteMissed
  <1> QED
    BY <1>1, <1>2 DEF FrameInv

\* An instruction that pushes a value.
LEMMA LoadFollow == ASSUME IInv, FollowInv, Load PROVE FollowInv'
  <1> DEFINE t == Top
             g == [t EXCEPT !.stack = Append(t.stack, "val"), !.depth = t.depth + 1]
  <1>1. /\ frames # <<>> /\ t \in Frame /\ SetTop(g) /\ unhandled' = unhandled
        /\ faults \subseteq faults'
    BY FetchFollow DEF Load
  <1> HIDE DEF t
  <1>2. /\ g.handlers = t.handlers /\ g.pending = t.pending /\ g.nest = t.nest
        /\ g.leftTry = t.leftTry /\ g.leftWith = t.leftWith
        /\ g.disposable = t.disposable
    BY <1>1 DEF Frame
  <1> HIDE DEF g
  <1> QED
    BY <1>1, <1>2, KeptFollow DEF t

\* POP, STORE_FAST and STORE_GLOBAL.
LEMMA PopValueFollow ==
    ASSUME IInv, FollowInv, NEW keep \in BOOLEAN, PopValue(keep) PROVE FollowInv'
  <1> DEFINE t == Top
             v == IF keep THEN Last(t.stack) ELSE t.retval
             g == [t EXCEPT !.stack = Front(t.stack), !.depth = 0, !.retval = v]
  <1>1. /\ frames # <<>> /\ t \in Frame /\ SetTop(g) /\ unhandled' = unhandled
        /\ faults \subseteq faults'
    BY FetchFollow DEF PopValue
  <1> HIDE DEF t, v
  <1>2. /\ g.handlers = t.handlers /\ g.pending = t.pending /\ g.nest = t.nest
        /\ g.leftTry = t.leftTry /\ g.leftWith = t.leftWith
        /\ g.disposable = t.disposable
    BY <1>1 DEF Frame
  <1> HIDE DEF g
  <1> QED
    BY <1>1, <1>2, KeptFollow DEF t

\* An instruction takes its operands and runs other code.
LEMMA BeginFollow == ASSUME IInv, FollowInv, NEW kind \in Kinds, Begin(kind) PROVE FollowInv'
  <1> DEFINE t == Top
             s == Pop(t.stack, Operands(kind))
             d == t.depth - Operands(kind)
             g == [t EXCEPT !.stack = s, !.depth = d, !.doing = kind,
                            !.got = "nothing", !.fast = FALSE]
  <1>1. /\ frames # <<>> /\ t \in Frame /\ SetTop(g) /\ unhandled' = unhandled
        /\ faults \subseteq faults'
    BY FetchFollow DEF Begin
  <1> HIDE DEF t, s, d
  <1>2. /\ g.handlers = t.handlers /\ g.pending = t.pending /\ g.nest = t.nest
        /\ g.leftTry = t.leftTry /\ g.leftWith = t.leftWith
        /\ g.disposable = t.disposable
    BY <1>1 DEF Frame
  <1> HIDE DEF g
  <1> QED
    BY <1>1, <1>2, KeptFollow DEF t

\* It uses the result.
LEMMA FinishFollow == ASSUME IInv, FollowInv, NEW res \in Values, Finish(res) PROVE FollowInv'
  <1> DEFINE t == Top
             s == t.stack \o Pushed(t.doing, res)
             d == t.depth + Yields(t.doing)
             q == t.doing = "build" /\ t.interrupt # "no"
             g == [t EXCEPT !.stack = s, !.depth = d, !.doing = "run",
                            !.got = "nothing", !.fast = q]
  <1>1. /\ frames # <<>> /\ t \in Frame /\ SetTop(g) /\ unhandled' = unhandled
        /\ faults \subseteq faults'
    BY TopFrame DEF Finish
  <1> HIDE DEF t, s, d, q
  <1>2. /\ g.handlers = t.handlers /\ g.pending = t.pending /\ g.nest = t.nest
        /\ g.leftTry = t.leftTry /\ g.leftWith = t.leftWith
        /\ g.disposable = t.disposable
    BY <1>1 DEF Frame
  <1> HIDE DEF g
  <1> QED
    BY <1>1, <1>2, KeptFollow DEF t

\* BEGIN_WITH, up to its call.
LEMMA BeginWithFollow == ASSUME IInv, FollowInv, BeginWith PROVE FollowInv'
  <1> DEFINE t == Top
             g == [t EXCEPT !.stack = Front(t.stack), !.depth = 0, !.doing = "enter",
                            !.got = "nothing", !.fast = FALSE]
  <1>1. /\ frames # <<>> /\ t \in Frame /\ SetTop(g) /\ unhandled' = unhandled
        /\ faults \subseteq faults'
    BY FetchFollow DEF BeginWith
  <1> HIDE DEF t
  <1>2. /\ g.handlers = t.handlers /\ g.pending = t.pending /\ g.nest = t.nest
        /\ g.leftTry = t.leftTry /\ g.leftWith = t.leftWith
        /\ g.disposable = t.disposable
    BY <1>1 DEF Frame
  <1> HIDE DEF g
  <1> QED
    BY <1>1, <1>2, KeptFollow DEF t

\* END_WITH, after its call.
LEMMA EndWithExitedFollow == ASSUME IInv, FollowInv, EndWithExited PROVE FollowInv'
  <1> DEFINE t == Top
             g == [t EXCEPT !.doing = "run", !.got = "nothing"]
  <1>1. /\ frames # <<>> /\ t \in Frame /\ SetTop(g) /\ unhandled' = unhandled
        /\ faults \subseteq faults'
    BY TopFrame DEF EndWithExited
  <1> HIDE DEF t
  <1>2. /\ g.handlers = t.handlers /\ g.pending = t.pending /\ g.nest = t.nest
        /\ g.leftTry = t.leftTry /\ g.leftWith = t.leftWith
        /\ g.disposable = t.disposable
    BY <1>1 DEF Frame
  <1> HIDE DEF g
  <1> QED
    BY <1>1, <1>2, KeptFollow DEF t

\* Setting the flag changes no stack.
LEMMA InterruptedKeeps ==
    ASSUME NEW f \in Frame, NEW why \in {"raise", "return", "panic"}
    PROVE  /\ Interrupted(f, why).nest = f.nest
           /\ Interrupted(f, why).leftTry = f.leftTry
           /\ Interrupted(f, why).leftWith = f.leftWith
           /\ Interrupted(f, why).disposable = f.disposable
           /\ Interrupted(f, why).handlers = f.handlers
           /\ Interrupted(f, why).pending = f.pending
           /\ Interrupted(f, why) \in Frame
  <1> DEFINE flag == IF f.interrupt = "no" THEN why ELSE f.interrupt
  <1>1. Interrupted(f, why) = [f EXCEPT !.interrupt = flag]
    BY DEF Interrupted
  <1> HIDE DEF flag
  <1>2. /\ Interrupted(f, why).nest = f.nest
        /\ Interrupted(f, why).leftTry = f.leftTry
        /\ Interrupted(f, why).leftWith = f.leftWith
        /\ Interrupted(f, why).disposable = f.disposable
    BY <1>1 DEF Frame
  <1> QED
    BY <1>2, InterruptedFrame

\* PUSH_EXCEPTION_HANDLER on a full stack.
LEMMA EnterTryPanicsFollow == ASSUME IInv, FollowInv, EnterTryPanics PROVE FollowInv'
  <1> DEFINE t == Top
             p == Interrupted(t, "panic")
             g == [p EXCEPT !.fast = FALSE]
  <1>1. /\ frames # <<>> /\ t \in Frame /\ unhandled' = unhandled
        /\ faults \subseteq faults'
    BY TopFrame DEF EnterTryPanics, AtStatement, Fetches
  <1>2. SetTop(g)
    BY DEF EnterTryPanics
  <1> HIDE DEF t
  <1>3. /\ p.handlers = t.handlers /\ p.pending = t.pending /\ p.nest = t.nest
        /\ p.leftTry = t.leftTry /\ p.leftWith = t.leftWith
        /\ p.disposable = t.disposable /\ p \in Frame
    BY <1>1, InterruptedKeeps
  <1> HIDE DEF p
  <1>4. /\ g.handlers = t.handlers /\ g.pending = t.pending /\ g.nest = t.nest
        /\ g.leftTry = t.leftTry /\ g.leftWith = t.leftWith
        /\ g.disposable = t.disposable
    BY <1>3 DEF Frame
  <1> HIDE DEF g
  <1> QED
    BY <1>1, <1>2, <1>4, KeptFollow DEF t

\* RET.
LEMMA ReturnFollow == ASSUME IInv, FollowInv, Return PROVE FollowInv'
  <1> DEFINE t == Top
             p == Interrupted(t, "return")
             s == IF t.stack = <<>> THEN t.stack ELSE Front(t.stack)
             g == [p EXCEPT !.stack = s, !.depth = 0, !.retval = ReturnValue(t),
                            !.fast = FALSE]
  <1>1. /\ frames # <<>> /\ t \in Frame /\ unhandled' = unhandled
        /\ faults \subseteq faults'
    BY TopFrame DEF Return, Fetches
  <1>2. SetTop(g)
    BY DEF Return, Interrupted
  <1> HIDE DEF t
  <1>3. /\ p.handlers = t.handlers /\ p.pending = t.pending /\ p.nest = t.nest
        /\ p.leftTry = t.leftTry /\ p.leftWith = t.leftWith
        /\ p.disposable = t.disposable /\ p \in Frame
    BY <1>1, InterruptedKeeps
  <1> HIDE DEF p, s
  <1>4. /\ g.handlers = t.handlers /\ g.pending = t.pending /\ g.nest = t.nest
        /\ g.leftTry = t.leftTry /\ g.leftWith = t.leftWith
        /\ g.disposable = t.disposable
    BY <1>3 DEF Frame
  <1> HIDE DEF g
  <1> QED
    BY <1>1, <1>2, <1>4, KeptFollow DEF t

\* A step that enters or leaves a statement that is not a try.
LEMMA NestFollow ==
    ASSUME IInv, FollowInv, frames # <<>>, NEW f, SetTop(f),
           unhandled' = unhandled, faults \subseteq faults',
           f.handlers = Top.handlers, f.pending = Top.pending,
           f.leftTry = Top.leftTry, Open(f.nest, "try") = Open(Top.nest, "try"),
           "missed interrupt" \notin faults' /\ ~unhandled /\ FrameWiths(Top)
                => FrameWiths(f)
    PROVE  FollowInv'
  <1>1. Top.handlers \in Seq(Nests)
    BY TopFrame DEF Frame
  <1>2. Open(Place(f), "try") = Open(Place(Top), "try")
    BY DEF Place
  <1>3. FrameTries(Top) => FrameTries(f)
    BY <1>1, <1>2, SameTries
  <1> QED
    BY <1>3, SetTopFollow

\* A loop begins.
LEMMA EnterLoopFollow == ASSUME IInv, FollowInv, EnterLoop PROVE FollowInv'
  <1> DEFINE t == Top
             g == [t EXCEPT !.nest = Append(t.nest, "loop")]
  <1>1. /\ frames # <<>> /\ t \in Frame /\ t.nest \in Nests
        /\ SetTop(g) /\ unhandled' = unhandled /\ faults \subseteq faults'
    BY AtStatementFacts, FetchFollow DEF EnterLoop, AtStatement
  <1> HIDE DEF t
  <1>2. /\ g.handlers = t.handlers /\ g.pending = t.pending
        /\ g.nest = Append(t.nest, "loop")
        /\ g.leftTry = t.leftTry /\ g.leftWith = t.leftWith
        /\ g.disposable = t.disposable
    BY <1>1 DEF Frame
  <1> HIDE DEF g
  <1>3. \A block \in {"try", "with"} : Open(g.nest, block) = Open(t.nest, block)
    BY <1>1, <1>2, OpenOther DEF AllBlocks
  <1>4. FrameWiths(t) => FrameWiths(g)
    BY <1>2, <1>3, SameWiths
  <1> QED
    BY <1>1, <1>2, <1>3, <1>4, NestFollow DEF t

\* A loop is over.
LEMMA LeaveLoopFollow == ASSUME IInv, FollowInv, LeaveLoop PROVE FollowInv'
  <1> DEFINE t == Top
             g == [t EXCEPT !.nest = Front(t.nest)]
  <1>1. /\ frames # <<>> /\ t \in Frame /\ t.nest \in Nests /\ t.nest # <<>>
        /\ Last(t.nest) = "loop"
        /\ SetTop(g) /\ unhandled' = unhandled /\ faults \subseteq faults'
    BY AtStatementFacts, FetchFollow DEF LeaveLoop, AtStatement, Innermost
  <1> HIDE DEF t
  <1>2. /\ g.handlers = t.handlers /\ g.pending = t.pending /\ g.nest = Front(t.nest)
        /\ g.leftTry = t.leftTry /\ g.leftWith = t.leftWith
        /\ g.disposable = t.disposable
    BY <1>1 DEF Frame
  <1> HIDE DEF g
  <1>3. \A block \in {"try", "with"} : Open(g.nest, block) = Open(t.nest, block)
    BY <1>1, <1>2, OpenOther
  <1>4. FrameWiths(t) => FrameWiths(g)
    BY <1>2, <1>3, SameWiths
  <1> QED
    BY <1>1, <1>2, <1>3, <1>4, NestFollow DEF t

\* The object of a with statement is pushed, whatever __enter__ has done.
LEMMA BeginWithEnteredFollow == ASSUME IInv, FollowInv, BeginWithEntered PROVE FollowInv'
  <1> DEFINE t == Top
             d == IF unhandled THEN t.disposable ELSE Append(t.disposable, t.nest)
             g == [t EXCEPT !.disposable = d, !.nest = Append(t.nest, "with"),
                            !.doing = "run", !.got = "nothing"]
  <1>1. /\ frames # <<>> /\ t \in Frame
        /\ SetTop(g) /\ unhandled' = unhandled /\ faults \subseteq faults'
    BY TopFrame DEF BeginWithEntered
  <1> HIDE DEF t
  <1>2. t.nest \in Nests /\ t.disposable \in Seq(Nests)
    BY <1>1 DEF Frame
  <1> HIDE DEF d
  <1>3. /\ g.handlers = t.handlers /\ g.pending = t.pending
        /\ g.nest = Append(t.nest, "with") /\ g.disposable = d
        /\ g.leftTry = t.leftTry /\ g.leftWith = t.leftWith
    BY <1>1 DEF Frame
  <1> HIDE DEF g
  <1>4. Open(g.nest, "try") = Open(t.nest, "try")
    BY <1>2, <1>3, OpenOther DEF AllBlocks
  <1>5. ASSUME ~unhandled, FrameWiths(t), ~g.leftWith
        PROVE  Covered(g.disposable, Len(g.disposable), g.nest, "with", FALSE)
    <2>1. Covered(t.disposable, Len(t.disposable), t.nest, "with", FALSE)
      BY <1>3, <1>5 DEF FrameWiths
    <2>2. "with" \in AllBlocks
      BY DEF AllBlocks
    <2>3. /\ g.disposable = Append(t.disposable, t.nest)
          /\ Len(g.disposable) = Len(t.disposable) + 1
      BY <1>2, <1>3, <1>5, AppendTyped DEF d
    <2> QED
      BY <1>2, <1>3, <2>1, <2>2, <2>3, CoveredPush
  <1>6. ~unhandled /\ FrameWiths(t) => FrameWiths(g)
    BY <1>5 DEF FrameWiths
  <1> QED
    BY <1>1, <1>3, <1>4, <1>6, NestFollow DEF t

\* The object of a with statement is popped as the statement ends.
LEMMA EndWithFollow == ASSUME IInv, FollowInv, EndWith PROVE FollowInv'
  <1> DEFINE t == Top
             g == [t EXCEPT !.disposable = Disposed(t.disposable), !.nest = Front(t.nest),
                            !.doing = "exit", !.got = "nothing", !.fast = FALSE]
  <1>1. /\ frames # <<>> /\ t \in Frame /\ t.nest \in Nests /\ t.nest # <<>>
        /\ Last(t.nest) = "with" /\ t.disposable # <<>> /\ t.disposable \in Seq(Nests)
        /\ SetTop(g) /\ unhandled' = unhandled /\ faults \subseteq faults'
    BY AtStatementFacts, FetchFollow DEF EndWith, AtStatement, Innermost
  <1> HIDE DEF t
  <1>2. /\ g.handlers = t.handlers /\ g.pending = t.pending /\ g.nest = Front(t.nest)
        /\ g.leftTry = t.leftTry /\ g.leftWith = t.leftWith
        /\ g.disposable = Front(t.disposable)
    BY <1>1 DEF Frame, Disposed
  <1> HIDE DEF g
  <1>3. Open(g.nest, "try") = Open(t.nest, "try")
    BY <1>1, <1>2, OpenOther
  <1>4. ASSUME FrameWiths(t), ~g.leftWith
        PROVE  Covered(g.disposable, Len(g.disposable), g.nest, "with", FALSE)
    <2>1. Covered(t.disposable, Len(t.disposable), t.nest, "with", FALSE)
      BY <1>2, <1>4 DEF FrameWiths
    <2>2. "with" \in AllBlocks
      BY DEF AllBlocks
    <2>3. Len(g.disposable) = Len(t.disposable) - 1
      BY <1>1, <1>2, FrontLast
    <2> QED
      BY <1>1, <1>2, <2>1, <2>2, <2>3, CoveredPop
  <1>5. FrameWiths(t) => FrameWiths(g)
    BY <1>4 DEF FrameWiths
  <1> QED
    BY <1>1, <1>2, <1>3, <1>5, NestFollow DEF t

\* A handler is pushed: it is that of the nest its statement is in.
LEMMA EnterTryFollow == ASSUME IInv, FollowInv, EnterTry PROVE FollowInv'
  <1> DEFINE t == Top
             g == [t EXCEPT !.handlers = Append(t.handlers, t.nest),
                            !.nest = Append(t.nest, "try"), !.fast = FALSE]
  <1>1. /\ frames # <<>> /\ t \in Frame /\ t.nest \in Nests /\ t.handlers \in Seq(Nests)
        /\ SetTop(g) /\ unhandled' = unhandled /\ faults \subseteq faults'
        /\ "missed interrupt" \notin faults' => t.pending = <<>>
    BY AtStatementFacts, FetchFollow DEF EnterTry, AtStatement
  <1> HIDE DEF t
  <1>2. /\ g.handlers = Append(t.handlers, t.nest) /\ g.pending = t.pending
        /\ g.nest = Append(t.nest, "try")
        /\ g.leftTry = t.leftTry /\ g.leftWith = t.leftWith
        /\ g.disposable = t.disposable
    BY <1>1 DEF Frame
  <1> HIDE DEF g
  <1>3. Open(g.nest, "with") = Open(t.nest, "with")
    BY <1>1, <1>2, OpenOther DEF AllBlocks
  <1>4. FrameWiths(t) => FrameWiths(g)
    BY <1>2, <1>3, SameWiths
  <1>5. ASSUME t.pending = <<>>, FrameTries(t) PROVE FrameTries(g)
    <2>1. PICK n : n = Len(t.handlers)
      OBVIOUS
    <2>2. /\ n \in Nat /\ Len(g.handlers) = n + 1 /\ g.handlers[n + 1] = t.nest
          /\ \A i \in 1..n : g.handlers[i] = t.handlers[i]
      <3>1. PICK h, o : h = t.handlers /\ o = t.nest
        OBVIOUS
      <3>2. h \in Seq(Nests) /\ o \in Nests /\ n = Len(h) /\ g.handlers = Append(h, o)
        BY <1>1, <1>2, <2>1, <3>1
      <3>3. /\ n \in Nat /\ Len(Append(h, o)) = n + 1 /\ Append(h, o)[n + 1] = o
            /\ \A i \in 1..n : Append(h, o)[i] = h[i]
        BY <3>2, AppendTyped
      <3> QED
        BY <3>1, <3>2, <3>3
    <2>3. Place(t) = t.nest /\ Place(g) = g.nest
      BY <1>2, <1>5 DEF Place
    <2>4. /\ Covered(t.handlers, n, t.nest, "try", t.leftTry)
          /\ \A j \in 1..n : Covered(t.handlers, j - 1, t.handlers[j], "try", t.leftTry)
      BY <1>5, <2>1, <2>3 DEF FrameTries
    <2>5. Covered(g.handlers, n + 1, g.nest, "try", g.leftTry)
      <3>1. "try" \in AllBlocks
        BY DEF AllBlocks
      <3> QED
        BY <1>1, <1>2, <2>1, <2>4, <3>1, CoveredPush
    <2>6. ASSUME NEW j \in 1..(n + 1)
          PROVE  Covered(g.handlers, j - 1, g.handlers[j], "try", g.leftTry)
      <3>1. CASE j = n + 1
        <4>1. Covered(g.handlers, n, t.nest, "try", g.leftTry)
          BY <1>2, <2>2, <2>4, CoveredFirst
        <4>2. j - 1 = n
          BY <2>2, <3>1
        <4> QED
          BY <2>2, <3>1, <4>1, <4>2
      <3>2. CASE j # n + 1
        <4>1. j \in 1..n /\ j - 1 \in Nat /\ \A i \in 1..(j - 1) : i \in 1..n
          BY <2>2, <3>2
        <4>2. g.handlers[j] = t.handlers[j] /\ \A i \in 1..(j - 1) : g.handlers[i] = t.handlers[i]
          BY <2>2, <4>1
        <4>3. Covered(t.handlers, j - 1, t.handlers[j], "try", t.leftTry)
          BY <2>4, <4>1
        <4>4. PICK m, o : m = j - 1 /\ o = t.handlers[j]
          OBVIOUS
        <4>5. Covered(t.handlers, m, o, "try", t.leftTry)
          BY <4>3, <4>4
        <4>6. Covered(g.handlers, m, o, "try", t.leftTry)
          BY <4>2, <4>4, <4>5, CoveredFirst
        <4> QED
          BY <1>2, <4>2, <4>4, <4>6
      <3> QED
        BY <3>1, <3>2
    <2> QED
      BY <2>2, <2>3, <2>5, <2>6 DEF FrameTries
  <1> QED
    BY <1>1, <1>4, <1>5, SetTopFollow DEF t

\* A stack of handlers without the last one.
LEMMA FrontTries ==
    ASSUME NEW h \in Seq(Nests), h # <<>>, NEW x,
           \A j \in 1..Len(h) : Covered(h, j - 1, h[j], "try", x)
    PROVE  /\ Covered(Front(h), Len(h) - 1, Last(h), "try", x)
           /\ Len(Front(h)) = Len(h) - 1
           /\ \A j \in 1..Len(Front(h)) : Covered(Front(h), j - 1, Front(h)[j], "try", x)
  <1> DEFINE c == Front(h)
  <1>1. PICK n : n = Len(h)
    OBVIOUS
  <1>2. /\ n \in Nat \ {0} /\ Len(c) = n - 1 /\ \A i \in 1..(n - 1) : c[i] = h[i]
        /\ Last(h) = h[n]
    BY <1>1, FrontLast DEF Last
  <1> HIDE DEF c
  <1>3. ASSUME NEW j \in 1..n PROVE Covered(c, j - 1, h[j], "try", x)
    <2>1. j - 1 \in Nat /\ \A i \in 1..(j - 1) : i \in 1..(n - 1)
      BY <1>2
    <2>2. \A i \in 1..(j - 1) : c[i] = h[i]
      BY <1>2, <2>1
    <2>3. Covered(h, j - 1, h[j], "try", x)
      BY <1>1
    <2>4. PICK m, o : m = j - 1 /\ o = h[j]
      OBVIOUS
    <2>5. Covered(h, m, o, "try", x)
      BY <2>3, <2>4
    <2>6. Covered(c, m, o, "try", x)
      BY <2>2, <2>4, <2>5, CoveredFirst
    <2> QED
      BY <2>4, <2>6
  <1>4. Covered(c, n - 1, h[n], "try", x)
    <2>1. n \in 1..n
      BY <1>2
    <2> QED
      BY <1>3, <2>1
  <1>5. ASSUME NEW j \in 1..(n - 1) PROVE Covered(c, j - 1, c[j], "try", x)
    <2>1. j \in 1..n /\ c[j] = h[j]
      BY <1>2
    <2> QED
      BY <1>3, <2>1
  <1>6. /\ Covered(c, n - 1, Last(h), "try", x) /\ Len(c) = n - 1
        /\ \A j \in 1..Len(c) : Covered(c, j - 1, c[j], "try", x)
    BY <1>2, <1>4, <1>5
  <1> QED
    BY <1>1, <1>6 DEF c

\* POP_EXCEPTION_HANDLER takes the handler of the statement that ends.
LEMMA LeaveTryFollow == ASSUME IInv, FollowInv, LeaveTry PROVE FollowInv'
  <1> DEFINE t == Top
             g == [t EXCEPT !.handlers = Front(t.handlers),
                            !.nest = Front(t.nest), !.fast = FALSE]
  <1>1. /\ frames # <<>> /\ t \in Frame /\ t.nest \in Nests /\ t.handlers \in Seq(Nests)
        /\ t.handlers # <<>> /\ t.nest # <<>> /\ Last(t.nest) = "try"
        /\ SetTop(g) /\ unhandled' = unhandled /\ faults \subseteq faults'
        /\ "missed interrupt" \notin faults' => t.pending = <<>>
    BY AtStatementFacts, FetchFollow DEF LeaveTry, AtStatement, Innermost
  <1> HIDE DEF t
  <1>2. /\ g.handlers = Front(t.handlers) /\ g.pending = t.pending
        /\ g.nest = Front(t.nest)
        /\ g.leftTry = t.leftTry /\ g.leftWith = t.leftWith
        /\ g.disposable = t.disposable
    BY <1>1 DEF Frame
  <1> HIDE DEF g
  <1>3. Open(g.nest, "with") = Open(t.nest, "with")
    BY <1>1, <1>2, OpenOther
  <1>4. FrameWiths(t) => FrameWiths(g)
    BY <1>2, <1>3, SameWiths
  <1>5. ASSUME t.pending = <<>>, FrameTries(t) PROVE FrameTries(g)
    <2>1. Place(t) = t.nest /\ Place(g) = g.nest
      BY <1>2, <1>5 DEF Place
    <2>2. /\ Covered(t.handlers, Len(t.handlers), t.nest, "try", t.leftTry)
          /\ \A j \in 1..Len(t.handlers) :
                Covered(t.handlers, j - 1, t.handlers[j], "try", t.leftTry)
      BY <1>5, <2>1 DEF FrameTries
    <2>3. /\ Len(g.handlers) = Len(t.handlers) - 1
          /\ \A j \in 1..Len(g.handlers) :
                Covered(g.handlers, j - 1, g.handlers[j], "try", t.leftTry)
      BY <1>1, <1>2, <2>2, FrontTries
    <2>4. Covered(g.handlers, Len(t.handlers) - 1, g.nest, "try", t.leftTry)
      <3>1. "try" \in AllBlocks
        BY DEF AllBlocks
      <3> QED
        BY <1>1, <1>2, <2>2, <3>1, CoveredPop
    <2> QED
      BY <1>2, <2>1, <2>3, <2>4 DEF FrameTries
  <1> QED
    BY <1>1, <1>4, <1>5, SetTopFollow DEF t

\* A jump leaves statements: their handlers and objects stay, and it is noted.
LEMMA BreakFollow ==
    ASSUME IInv, FollowInv, NEW continues \in BOOLEAN, Break(continues) PROVE FollowInv'
  <1> DEFINE t == Top
  <1>1. /\ frames # <<>> /\ t \in Frame /\ t.nest \in Nests /\ t.handlers \in Seq(Nests)
        /\ unhandled' = unhandled /\ faults \subseteq faults'
        /\ "missed interrupt" \notin faults' => t.pending = <<>>
    BY AtStatementFacts, FetchFollow DEF Break, AtStatement
  <1>2. PICK k \in DOMAIN t.nest :
            SetTop([Abandon(t, SubSeq(t.nest, 1, IF continues THEN k ELSE k - 1))
                    EXCEPT !.fast = FALSE])
    BY DEF Break
  <1> DEFINE n == IF continues THEN k ELSE k - 1
             at == SubSeq(t.nest, 1, n)
             lt == t.leftTry \/ Open(t.nest, "try") # Open(at, "try")
             lw == t.leftWith \/ Open(t.nest, "with") # Open(at, "with")
             g == [[t EXCEPT !.nest = at, !.leftTry = lt, !.leftWith = lw]
                   EXCEPT !.fast = FALSE]
  <1> HIDE DEF t
  <1>3. at \in Nests /\ \A block : Open(at, block) \subseteq Open(t.nest, block)
    <2>1. t.nest \in Seq(AllBlocks)
      BY <1>1 DEF Nests
    <2>2. k \in 1..Len(t.nest) /\ Len(t.nest) \in Nat
      BY <2>1, LenProperties
    <2>3. n \in 0..Len(t.nest)
      BY <2>2
    <2> QED
      BY <2>3, <1>1, NestTyped, OpenPrefix
  <1>4. SetTop(g)
    BY <1>2 DEF Abandon
  <1>5. lt \in BOOLEAN /\ lw \in BOOLEAN
    BY Zenon
  <1>6. lt = (t.leftTry \/ Open(t.nest, "try") # Open(at, "try"))
    OBVIOUS
  <1>7. lw = (t.leftWith \/ Open(t.nest, "with") # Open(at, "with"))
    OBVIOUS
  <1> HIDE DEF n, at, lt, lw
  <1>8. /\ g.handlers = t.handlers /\ g.pending = t.pending /\ g.nest = at
        /\ g.leftTry = lt /\ g.leftWith = lw /\ g.disposable = t.disposable
    BY <1>1 DEF Frame
  <1> HIDE DEF g
  <1>9. ASSUME FrameWiths(t) PROVE FrameWiths(g)
    <2>1. CASE Open(t.nest, "with") # Open(at, "with")
      BY <1>7, <1>8, <2>1 DEF FrameWiths
    <2>2. CASE Open(t.nest, "with") = Open(at, "with")
      <3>1. ~g.leftWith => ~t.leftWith
        BY <1>7, <1>8
      <3> QED
        BY <1>8, <1>9, <2>2, <3>1 DEF FrameWiths, Covered, Follows
    <2> QED
      BY <2>1, <2>2
  <1>10. ASSUME t.pending = <<>>, FrameTries(t) PROVE FrameTries(g)
    <2>1. Place(t) = t.nest /\ Place(g) = at
      BY <1>8, <1>10 DEF Place
    <2>2. CASE Open(t.nest, "try") # Open(at, "try")
      <3>1. g.leftTry = TRUE
        BY <1>5, <1>6, <1>8, <2>2
      <3>2. Len(t.handlers) \in Nat
        BY <1>1, LenProperties
      <3>3. PICK h, m, x : h = t.handlers /\ m = Len(t.handlers) /\ x = t.leftTry
        OBVIOUS
      <3>4. Covered(h, m, t.nest, "try", x)
        BY <1>10, <2>1, <3>3 DEF FrameTries
      <3>5. Covered(h, m, at, "try", TRUE)
        BY <1>3, <3>2, <3>3, <3>4, CoveredLess
      <3>6. ASSUME NEW j \in 1..m PROVE Covered(h, j - 1, h[j], "try", TRUE)
        <4>1. PICK i, o : i = j - 1 /\ o = h[j]
          OBVIOUS
        <4>2. Covered(h, i, o, "try", x)
          BY <1>10, <3>3, <4>1 DEF FrameTries
        <4>3. Covered(h, i, o, "try", TRUE)
          BY <4>2, CoveredLoosely
        <4> QED
          BY <4>1, <4>3
      <3> QED
        BY <1>8, <2>1, <3>1, <3>3, <3>5, <3>6 DEF FrameTries
    <2>3. CASE Open(t.nest, "try") = Open(at, "try")
      <3>1. t.leftTry \in BOOLEAN /\ (t.leftTry => lt)
        BY <1>1, <1>6 DEF Frame
      <3>2. lt = t.leftTry \/ lt = TRUE
        BY <1>5, <1>6, <2>3, <3>1, Zenon
      <3>3. g.leftTry = t.leftTry \/ g.leftTry = TRUE
        BY <1>8, <3>2
      <3> QED
        BY <1>1, <1>8, <1>10, <2>1, <2>3, <3>3, SameTries
    <2> QED
      BY <2>2, <2>3
  <1> QED
    BY <1>1, <1>4, <1>9, <1>10, SetTopFollow DEF t

\* A frame jumps to its handler, where its stacks are what they were.
LEMMA CatchFollow == ASSUME IInv, FollowInv, Catch PROVE FollowInv'
  <1> DEFINE t == Top
             at == t.pending[1]
             lt == t.leftTry \/ Open(t.nest, "try") # Open(at, "try")
             lw == t.leftWith \/ Open(t.nest, "with") # Open(at, "with")
             g == [[t EXCEPT !.nest = at, !.leftTry = lt, !.leftWith = lw]
                   EXCEPT !.depth = 0, !.pending = <<>>, !.interrupt = "no",
                          !.leftTry = t.leftTry]
  <1>1. /\ frames # <<>> /\ t \in Frame /\ t.handlers \in Seq(Nests)
        /\ unhandled' = unhandled /\ faults \subseteq faults' /\ t.pending # <<>>
    BY TopFrame DEF Catch, Notices, Frame
  <1>2. SetTop(g)
    BY DEF Catch, Abandon
  <1>3. lw \in BOOLEAN /\ lw = (t.leftWith \/ Open(t.nest, "with") # Open(at, "with"))
    BY Zenon
  <1> HIDE DEF t, at, lt, lw
  <1>4. /\ g.handlers = t.handlers /\ g.pending = <<>> /\ g.nest = at
        /\ g.leftTry = t.leftTry /\ g.leftWith = lw /\ g.disposable = t.disposable
    BY <1>1 DEF Frame
  <1> HIDE DEF g
  <1>5. Place(g) = at /\ Place(t) = at
    BY <1>1, <1>4 DEF Place, at
  <1>6. FrameTries(t) => FrameTries(g)
    BY <1>1, <1>4, <1>5, SameTries
  <1>7. ASSUME FrameWiths(t) PROVE FrameWiths(g)
    <2>1. CASE Open(t.nest, "with") # Open(at, "with")
      BY <1>3, <1>4, <2>1 DEF FrameWiths
    <2>2. CASE Open(t.nest, "with") = Open(at, "with")
      <3>1. ~g.leftWith => ~t.leftWith
        BY <1>3, <1>4
      <3> QED
        BY <1>4, <1>7, <2>2, <3>1 DEF FrameWiths, Covered, Follows
    <2> QED
      BY <2>1, <2>2
  <1> QED
    BY <1>1, <1>2, <1>6, <1>7, SetTopFollow DEF t

\* A new frame is in no statement.
LEMMA NewFrameFollows == FrameTries(NewFrame) /\ FrameWiths(NewFrame)
  <1>1. \A block : Open(<<>>, block) = {}
    BY DEF Open
  <1>2. \A block : Follows(<<>>, {}, <<>>, block) /\ {} \in SUBSET (1..0)
    BY <1>1 DEF Follows
  <1>3. \A block, left : Covered(<<>>, 0, <<>>, block, left)
    <2>1. 1..0 = {}
      OBVIOUS
    <2> QED
      BY <1>2, <2>1 DEF Covered
  <1>4. /\ NewFrame.handlers = <<>> /\ NewFrame.pending = <<>> /\ NewFrame.nest = <<>>
        /\ NewFrame.disposable = <<>>
    BY DEF NewFrame
  <1>5. Len(<<>>) = 0 /\ 1..0 = {}
    OBVIOUS
  <1> QED
    BY <1>3, <1>4, <1>5 DEF FrameTries, FrameWiths, Place

\* A program starts.
LEMMA StartFollow == ASSUME FollowInv, Start PROVE FollowInv'
  <1>1. frames' = <<NewFrame>>
    BY DEF Start
  <1>2. PICK o : o = NewFrame
    OBVIOUS
  <1>3. frames' = <<o>>
    BY <1>1, <1>2
  <1>4. \A i \in DOMAIN frames' : frames'[i] = o
    BY <1>3
  <1> QED
    BY <1>2, <1>4, NewFrameFollows DEF FollowInv

\* A function is called.
LEMMA CallFunctionFollow == ASSUME IInv, FollowInv, CallFunction PROVE FollowInv'
  <1>1. frames' = Append(frames, NewFrame) /\ faults' = faults /\ unhandled' = unhandled
    BY DEF CallFunction
  <1>2. frames \in Seq(Frame) /\ NewFrame \in Frame
    BY NewFrameInv DEF IInv, StackInv, FrameInv
  <1>3. /\ DOMAIN frames = 1..Len(frames) /\ Len(frames) \in Nat
        /\ DOMAIN frames' = 1..(Len(frames) + 1)
        /\ frames'[Len(frames) + 1] = NewFrame
        /\ \A i \in 1..Len(frames) : frames'[i] = frames[i]
    BY <1>1, <1>2, AppendTyped
  <1>4. \A i \in DOMAIN frames' :
            frames'[i] = NewFrame \/ (i \in DOMAIN frames /\ frames'[i] = frames[i])
    BY <1>3
  <1> QED
    BY <1>1, <1>4, NewFrameFollows DEF FollowInv

\* A frame returns to its caller.
LEMMA LeaveFollow == ASSUME IInv, FollowInv, Leave PROVE FollowInv'
  <1>1. /\ frames # <<>> /\ frames \in Seq(Frame) /\ Len(frames) \in Nat \ {0}
        /\ DOMAIN frames = 1..Len(frames) /\ faults' = faults /\ unhandled' = unhandled
    BY TopFrame, LenProperties DEF Leave, Notices, IInv, StackInv
  <1>2. CASE Len(frames) = 1
    <2>1. DOMAIN frames' = {}
      BY <1>2 DEF Leave
    <2> QED
      BY <2>1 DEF FollowInv
  <1>3. CASE Len(frames) # 1
    <2> DEFINE n == Len(frames) - 1
               b == Front(frames)
               r == Result(Top)
               g == [b[n] EXCEPT !.got = r]
    <2>1. /\ b \in Seq(Frame) /\ Len(b) = n /\ n \in Nat \ {0} /\ DOMAIN b = 1..n
          /\ \A i \in 1..n : b[i] = frames[i]
      <3>1. /\ b \in Seq(Frame) /\ Len(b) = n
            /\ \A i \in 1..n : b[i] = frames[i]
        BY <1>1, FrontLast
      <3>2. n \in Nat \ {0}
        BY <1>1, <1>3
      <3> HIDE DEF b, n
      <3> QED
        BY <3>1, <3>2, LenProperties
    <2>2. frames' = [b EXCEPT ![n] = g]
      BY <1>3 DEF Leave
    <2>3. n \in DOMAIN frames /\ b[n] = frames[n] /\ b[n] \in Frame /\ n < Len(frames)
      BY <1>1, <2>1
    <2> HIDE DEF n, b, r
    <2>4. /\ g.handlers = b[n].handlers /\ g.pending = b[n].pending /\ g.nest = b[n].nest
          /\ g.leftTry = b[n].leftTry /\ g.leftWith = b[n].leftWith
          /\ g.disposable = b[n].disposable /\ b[n].handlers \in Seq(Nests)
      BY <2>3 DEF Frame
    <2> HIDE DEF g
    <2>5. (FrameTries(b[n]) => FrameTries(g)) /\ (FrameWiths(b[n]) => FrameWiths(g))
      <3>1. Place(g) = Place(b[n])
        BY <2>4 DEF Place
      <3>2. PICK o : o = b[n]
        OBVIOUS
      <3> QED
        BY <2>4, <3>1, <3>2, SameTries, SameWiths
    <2>6. /\ DOMAIN frames' = 1..n
          /\ \A i \in 1..n : frames'[i] = IF i = n THEN g ELSE frames[i]
      BY <2>1, <2>2
    <2>7. \A i \in 1..n : i \in DOMAIN frames
      BY <1>1, <2>3
    <2> QED
      BY <1>1, <2>3, <2>5, <2>6, <2>7 DEF FollowInv
  <1> QED
    BY <1>2, <1>3

-----------------------------------------------------------------------------
(***************************************************************************)
(* Raising.                                                                *)
(***************************************************************************)
\* A frame that will jump to a handler has taken it off the stack.
LEMMA CatchingFrame ==
    ASSUME NEW f \in Frame
    PROVE  /\ Catching(f).nest = f.nest /\ Catching(f).leftTry = f.leftTry
           /\ Catching(f).leftWith = f.leftWith
           /\ Catching(f).disposable = f.disposable
           /\ Catching(f).handlers = Front(f.handlers)
           /\ Catching(f).pending = <<Last(f.handlers)>>
  <1> DEFINE p == Interrupted(f, "raise")
             a == <<Last(f.handlers)>>
             b == Front(f.handlers)
             c == [p EXCEPT !.pending = a, !.handlers = b]
  <1>1. p \in Frame /\ p.nest = f.nest /\ p.leftTry = f.leftTry
        /\ p.leftWith = f.leftWith /\ p.disposable = f.disposable
    BY InterruptedKeeps
  <1>2. Catching(f) = c
    BY DEF Catching
  <1> HIDE DEF p, a, b
  <1>3. /\ c.nest = p.nest /\ c.leftTry = p.leftTry /\ c.leftWith = p.leftWith
        /\ c.disposable = p.disposable /\ c.handlers = b /\ c.pending = a
    BY <1>1 DEF Frame
  <1> HIDE DEF c
  <1> QED
    BY <1>1, <1>2, <1>3 DEF a, b

\* A frame that an exception passes or that catches it.
LEMMA RaisedFrameFollows ==
    ASSUME NEW f \in Frame
    PROVE  /\ FrameTries(f) => FrameTries(Passed(f))
           /\ FrameTries(f) /\ f.handlers # <<>> => FrameTries(Catching(f))
           /\ FrameWiths(f) => FrameWiths(Passed(f)) /\ FrameWiths(Catching(f))
  <1>1. f.handlers \in Seq(Nests)
    BY DEF Frame
  <1>2. PICK p : p = Passed(f)
    OBVIOUS
  <1>3. /\ p.nest = f.nest /\ p.leftTry = f.leftTry /\ p.leftWith = f.leftWith
        /\ p.disposable = f.disposable /\ p.handlers = f.handlers
        /\ p.pending = f.pending
    BY <1>2, InterruptedKeeps DEF Passed
  <1>4. Place(p) = Place(f)
    BY <1>3 DEF Place
  <1>5. FrameTries(f) => FrameTries(p)
    BY <1>1, <1>3, <1>4, SameTries
  <1>6. PICK c : c = Catching(f)
    OBVIOUS
  <1>7. /\ c.nest = f.nest /\ c.leftTry = f.leftTry /\ c.leftWith = f.leftWith
        /\ c.disposable = f.disposable /\ c.handlers = Front(f.handlers)
        /\ c.pending = <<Last(f.handlers)>>
    BY <1>6, CatchingFrame
  <1>8. Place(c) = Last(f.handlers)
    BY <1>7 DEF Place
  <1>9. ASSUME FrameTries(f), f.handlers # <<>> PROVE FrameTries(c)
    <2>1. PICK h, x : h = f.handlers /\ x = f.leftTry
      OBVIOUS
    <2>2. \A j \in 1..Len(h) : Covered(h, j - 1, h[j], "try", x)
      BY <1>9, <2>1 DEF FrameTries
    <2>3. /\ Covered(Front(h), Len(h) - 1, Last(h), "try", x)
          /\ Len(Front(h)) = Len(h) - 1
          /\ \A j \in 1..Len(Front(h)) : Covered(Front(h), j - 1, Front(h)[j], "try", x)
      BY <1>1, <1>9, <2>1, <2>2, FrontTries
    <2> QED
      BY <1>7, <1>8, <2>1, <2>3 DEF FrameTries
  <1>10. FrameWiths(f) => FrameWiths(p) /\ FrameWiths(c)
    BY <1>3, <1>7, SameWiths
  <1> QED
    BY <1>2, <1>5, <1>6, <1>9, <1>10

\* What a raise does to the frames, the top one being f by then.
LEMMA RaiseFrames ==
    ASSUME IInv, frames # <<>>, NEW f \in Frame, Raise(WithTop(f)),
           f.handlers = Top.handlers
    PROVE  \E j \in 0..Len(frames) :
               /\ DOMAIN frames = 1..Len(frames) /\ DOMAIN frames' = 1..Len(frames)
               /\ \A i \in 1..Len(frames) :
                    LET o == IF i = Len(frames) THEN f ELSE frames[i]
                    IN  /\ o \in Frame /\ o.handlers = frames[i].handlers
                        /\ i > j => o.handlers = <<>> /\ frames'[i] = Passed(o)
                        /\ i = j => o.handlers # <<>> /\ frames'[i] = Catching(o)
                        /\ i < j => frames'[i] = o
               /\ unhandled' = (unhandled \/ j = 0)
  <1> DEFINE fs == WithTop(f)
             n == Len(frames)
  <1>1. /\ DOMAIN fs = 1..n /\ Len(fs) = n /\ n \in Nat \ {0} /\ DOMAIN frames = 1..n
        /\ \A i \in 1..n : fs[i] = IF i = n THEN f ELSE frames[i]
    <2>1. frames \in Seq(Frame) /\ n \in Nat \ {0}
      BY EmptySeq DEF IInv, StackInv
    <2> QED
      BY <2>1, LenProperties DEF WithTop
  <1>2. \A i \in 1..n : frames[i] \in Frame /\ Top = frames[n]
    BY <1>1 DEF IInv, StackInv, FrameInv, Top
  <1> HIDE DEF fs, n
  <1>3. PICK j \in 0..n :
            /\ IsCatcher(fs, j)
            /\ frames' = [i \in 1..n |->
                            IF i > j THEN Passed(fs[i])
                            ELSE IF i = j THEN Catching(fs[i]) ELSE fs[i]]
            /\ unhandled' = (unhandled \/ j = 0)
    BY <1>1 DEF Raise, fs
  <1>4. DOMAIN frames' = 1..n
    BY <1>3
  <1>5. ASSUME NEW i \in 1..n
        PROVE  /\ fs[i] \in Frame /\ fs[i].handlers = frames[i].handlers
               /\ i > j => fs[i].handlers = <<>> /\ frames'[i] = Passed(fs[i])
               /\ i = j => fs[i].handlers # <<>> /\ frames'[i] = Catching(fs[i])
               /\ i < j => frames'[i] = fs[i]
    <2>1. fs[i] \in Frame /\ fs[i].handlers = frames[i].handlers
      BY <1>1, <1>2
    <2>2. CASE i > j
      BY <1>1, <1>3, <2>1, <2>2 DEF IsCatcher
    <2>3. CASE i = j
      BY <1>1, <1>3, <2>1, <2>3 DEF IsCatcher
    <2>4. CASE i < j
      BY <1>3, <2>1, <2>4
    <2> QED
      BY <2>2, <2>3, <2>4
  <1>6. \A i \in 1..n : fs[i] = IF i = n THEN f ELSE frames[i]
    BY <1>1
  <1> QED
    BY <1>1, <1>3, <1>4, <1>5, <1>6 DEF n

\* A raise from the top frame.
LEMMA RaiseFollow ==
    ASSUME IInv, FollowInv, frames # <<>>, NEW f \in Frame, Raise(WithTop(f)),
           f.handlers = Top.handlers, f.pending = Top.pending, f.nest = Top.nest,
           f.leftTry = Top.leftTry, f.leftWith = Top.leftWith,
           f.disposable = Top.disposable, faults \subseteq faults'
    PROVE  FollowInv'
  <1>1. PICK j \in 0..Len(frames) :
               /\ DOMAIN frames = 1..Len(frames) /\ DOMAIN frames' = 1..Len(frames)
               /\ \A i \in 1..Len(frames) :
                    LET o == IF i = Len(frames) THEN f ELSE frames[i]
                    IN  /\ o \in Frame /\ o.handlers = frames[i].handlers
                        /\ i > j => o.handlers = <<>> /\ frames'[i] = Passed(o)
                        /\ i = j => o.handlers # <<>> /\ frames'[i] = Catching(o)
                        /\ i < j => frames'[i] = o
               /\ unhandled' = (unhandled \/ j = 0)
    BY RaiseFrames
  <1>2. Len(frames) \in Nat \ {0} /\ Top \in Frame /\ Top.handlers \in Seq(Nests)
    BY TopFrame DEF Frame
  <1>3. Place(f) = Place(Top)
    BY DEF Place
  <1>4. (FrameTries(Top) => FrameTries(f)) /\ (FrameWiths(Top) => FrameWiths(f))
    <2>1. PICK t : t = Top
      OBVIOUS
    <2> QED
      BY <1>2, <1>3, <2>1, SameTries, SameWiths
  <1>5. ASSUME "missed interrupt" \notin faults', NEW i \in 1..Len(frames)
        PROVE  FrameTries(frames'[i]) /\ (~unhandled' => FrameWiths(frames'[i]))
    <2>1. FrameTries(frames[i]) /\ (~unhandled => FrameWiths(frames[i]))
      BY <1>1, <1>5 DEF FollowInv
    <2>2. PICK o : o = IF i = Len(frames) THEN f ELSE frames[i]
      OBVIOUS
    <2>3. FrameTries(o) /\ (~unhandled' => FrameWiths(o))
      BY <1>1, <1>4, <2>1, <2>2 DEF Top
    <2>4. /\ o \in Frame
          /\ i > j => frames'[i] = Passed(o)
          /\ i = j => o.handlers # <<>> /\ frames'[i] = Catching(o)
          /\ i < j => frames'[i] = o
      BY <1>1, <2>2
    <2>5. i > j \/ i = j \/ i < j
      BY <1>2
    <2> QED
      BY <2>3, <2>4, <2>5, RaisedFrameFollows
  <1> QED
    BY <1>1, <1>5 DEF FollowInv

\* C code raises.
LEMMA NativeRaisesFollow == ASSUME IInv, FollowInv, NativeRaises PROVE FollowInv'
  <1> DEFINE t == Top
             d == IF t.doing = "native" THEN "invoke" ELSE t.doing
             g == [t EXCEPT !.got = "null", !.doing = d]
  <1>1. /\ frames # <<>> /\ t \in Frame /\ faults \subseteq faults'
    BY TopFrame DEF NativeRaises
  <1>2. Raise(WithTop(g))
    BY DEF NativeRaises
  <1> HIDE DEF t
  <1>3. d \in AllKinds \cup {"run"}
    BY <1>1 DEF Frame, AllKinds
  <1> HIDE DEF d
  <1>4. /\ g \in Frame /\ g.handlers = t.handlers /\ g.pending = t.pending
        /\ g.nest = t.nest /\ g.leftTry = t.leftTry /\ g.leftWith = t.leftWith
        /\ g.disposable = t.disposable
    BY <1>1, <1>3 DEF Frame
  <1> HIDE DEF g
  <1> QED
    BY <1>1, <1>2, <1>4, RaiseFollow DEF t

\* RAISE.
LEMMA RaiseStmtFollow == ASSUME IInv, FollowInv, RaiseStmt PROVE FollowInv'
  <1> DEFINE t == Top
             g == [t EXCEPT !.stack = Front(t.stack), !.depth = 0, !.fast = FALSE]
  <1>1. /\ frames # <<>> /\ t \in Frame /\ Len(t.stack) >= 1 /\ faults \subseteq faults'
    BY TopFrame, FetchFollow DEF RaiseStmt, Fetches, Sound
  <1>2. Raise(WithTop(g))
    BY DEF RaiseStmt
  <1> HIDE DEF t
  <1>3. Front(t.stack) \in Seq(Values)
    <2>1. t.stack \in Seq(Values) /\ t.stack # <<>>
      BY <1>1, EmptySeq DEF Frame
    <2> QED
      BY <2>1, FrontLast
  <1>4. /\ g \in Frame /\ g.handlers = t.handlers /\ g.pending = t.pending
        /\ g.nest = t.nest /\ g.leftTry = t.leftTry /\ g.leftWith = t.leftWith
        /\ g.disposable = t.disposable
    BY <1>1, <1>3 DEF Frame
  <1> HIDE DEF g
  <1> QED
    BY <1>1, <1>2, <1>4, RaiseFollow DEF t

\* Every step keeps the two stacks with the statements.
LEMMA NextFollow == IInv /\ FollowInv /\ [Next]_vars => FollowInv'
  <1> SUFFICES ASSUME IInv, FollowInv, [Next]_vars PROVE FollowInv'
    OBVIOUS
  <1>1. ASSUME NEW keep \in BOOLEAN, PopValue(keep) PROVE FollowInv'
    BY <1>1, PopValueFollow
  <1>2. ASSUME NEW kind \in Kinds, Begin(kind) PROVE FollowInv'
    BY <1>2, BeginFollow
  <1>3. ASSUME NEW res \in Values, Finish(res) PROVE FollowInv'
    BY <1>3, FinishFollow
  <1>4. ASSUME NEW continues \in BOOLEAN, Break(continues) PROVE FollowInv'
    BY <1>4, BreakFollow
  <1>5. CASE UNCHANGED vars
    BY <1>5 DEF vars, FollowInv
  <1>6. CASE Undefined
    BY <1>5, <1>6 DEF Undefined
  <1> QED
    BY <1>1, <1>2, <1>3, <1>4, <1>5, <1>6, StartFollow, LoadFollow, CallFunctionFollow,
       NativeRaisesFollow, EnterTryFollow, EnterTryPanicsFollow, LeaveTryFollow,
       RaiseStmtFollow, BeginWithFollow, BeginWithEnteredFollow, EndWithFollow,
       EndWithExitedFollow, EnterLoopFollow, LeaveLoopFollow, CatchFollow, ReturnFollow,
       LeaveFollow DEF Next

(***************************************************************************)
(* The exception stack of every frame follows its try statements.          *)
(***************************************************************************)
THEOREM HandlersMatchTries == Spec => []TriesMatchHandlers
  <1>1. Init => IInv /\ FollowInv
    BY InitInv DEF Init, FollowInv
  <1>2. IInv /\ FollowInv => TriesMatchHandlers
    <2> SUFFICES ASSUME IInv, FollowInv, "missed interrupt" \notin faults,
                        NEW i \in DOMAIN frames
                 PROVE  HandlersFollow(frames[i])
      BY DEF TriesMatchHandlers
    <2>1. frames[i] \in Frame /\ FrameTries(frames[i])
      BY DEF IInv, StackInv, FrameInv, FollowInv
    <2>2. PICK f : f = frames[i]
      OBVIOUS
    <2>3. DOMAIN f.handlers = 1..Len(f.handlers)
      BY <2>1, <2>2, LenProperties DEF Frame
    <2>4. HandlersFollow(f)
      BY <2>1, <2>2, <2>3 DEF HandlersFollow, FrameTries, Covered
    <2> QED
      BY <2>2, <2>4
  <1>3. IInv /\ FollowInv /\ [Next]_vars => FollowInv'
    BY NextFollow
  <1> QED
    BY <1>1, <1>2, <1>3, NextInv, PTL DEF Spec

(***************************************************************************)
(* The disposable stack of every frame follows its with statements, in the *)
(* cases WithsMatchDisposables is about.                                   *)
(***************************************************************************)
THEOREM DisposablesMatchWiths == Spec => []WithsMatchDisposables
  <1>1. Init => IInv /\ FollowInv
    BY InitInv DEF Init, FollowInv
  <1>2. IInv /\ FollowInv => WithsMatchDisposables
    <2> SUFFICES ASSUME IInv, FollowInv, ~unhandled, "missed interrupt" \notin faults,
                        NEW i \in DOMAIN frames, ~frames[i].leftWith
                 PROVE  Follows(frames[i].disposable, DOMAIN frames[i].disposable,
                                frames[i].nest, "with")
      BY DEF WithsMatchDisposables
    <2>1. frames[i] \in Frame /\ FrameWiths(frames[i])
      BY DEF IInv, StackInv, FrameInv, FollowInv
    <2>2. PICK d, n : d = frames[i].disposable /\ n = frames[i].nest
      OBVIOUS
    <2>3. DOMAIN d = 1..Len(d)
      BY <2>1, <2>2, LenProperties DEF Frame
    <2>4. Covered(d, Len(d), n, "with", FALSE)
      BY <2>1, <2>2 DEF FrameWiths
    <2>5. Follows(d, DOMAIN d, n, "with")
      BY <2>3, <2>4 DEF Covered
    <2> QED
      BY <2>2, <2>5
  <1>3. IInv /\ FollowInv /\ [Next]_vars => FollowInv'
    BY NextFollow
  <1> QED
    BY <1>1, <1>2, <1>3, NextInv, PTL DEF Spec

-----------------------------------------------------------------------------
(***************************************************************************)
(* Which handler an exception finds.                                       *)
(***************************************************************************)
\* The handlers of a frame that no exception has interrupted and that has not
\* jumped out of a try statement: the last one is that of the innermost try.
LEMMA InnermostHandler ==
    ASSUME NEW f \in Frame, FrameTries(f), f.pending = <<>>, ~f.leftTry
    PROVE  /\ Open(f.nest, "try") = {} <=> f.handlers = <<>>
           /\ f.handlers # <<>> => Last(f.handlers) = Longest(Open(f.nest, "try"))
  <1>1. PICK h, open, n : h = f.handlers /\ open = Open(f.nest, "try") /\ n = Len(h)
    OBVIOUS
  <1>2. h \in Seq(Nests) /\ n \in Nat /\ DOMAIN h = 1..n /\ (h = <<>> <=> n = 0)
    BY <1>1, LenProperties, EmptySeq DEF Frame
  <1>3. Follows(h, 1..n, f.nest, "try")
    BY <1>1 DEF FrameTries, Covered, Place
  <1>4. /\ {h[i] : i \in 1..n} = open
        /\ \A i, k \in 1..n : i < k => Len(h[i]) < Len(h[k])
    BY <1>1, <1>3 DEF Follows
  <1>5. open = {} <=> h = <<>>
    <2>1. (1..n = {}) <=> n = 0
      BY <1>2
    <2>2. open = {} <=> (1..n = {})
      BY <1>4
    <2> QED
      BY <1>2, <2>1, <2>2
  <1>6. ASSUME h # <<>> PROVE Last(h) = Longest(open)
    <2>1. n \in 1..n /\ h[n] \in open
      BY <1>2, <1>4, <1>6
    <2>2. \A i \in 1..n : Len(h[i]) \in Nat
      <3>1. \A i \in 1..n : h[i] \in Nests
        BY <1>2
      <3> QED
        BY <3>1, LenProperties DEF Nests
    <2>3. \A i \in 1..n : i # n => Len(h[i]) < Len(h[n])
      BY <1>2, <1>4, <2>1
    <2>4. \A o \in open : Len(o) <= Len(h[n])
      <3>1. ASSUME NEW o \in open PROVE Len(o) <= Len(h[n])
        <4>1. PICK i \in 1..n : o = h[i]
          BY <1>4
        <4> QED
          BY <2>1, <2>2, <2>3, <4>1
      <3> QED
        BY <3>1
    <2>5. ASSUME NEW m \in open, \A o \in open : Len(o) <= Len(m) PROVE m = h[n]
      <3>1. PICK i \in 1..n : m = h[i]
        BY <1>4
      <3>2. Len(h[n]) <= Len(h[i])
        BY <2>1, <2>5, <3>1
      <3> QED
        BY <2>1, <2>2, <2>3, <3>1, <3>2
    <2>6. Longest(open) = h[n]
      BY <2>1, <2>4, <2>5 DEF Longest
    <2> QED
      BY <1>1, <2>6 DEF Last
  <1> QED
    BY <1>1, <1>5, <1>6

\* The exception is caught where the property says.
LEMMA RaiseFindsInnermost ==
    ASSUME IInv, FollowInv, frames # <<>>, NEW f \in Frame, Raise(WithTop(f)),
           f.handlers = Top.handlers
    PROVE  CaughtByInnermost
  <1> DEFINE able == {i \in DOMAIN frames : Open(frames[i].nest, "try") # {}}
  <1>1. SUFFICES ASSUME Quiet, \A i \in DOMAIN frames : ~frames[i].leftTry,
                        "missed interrupt" \notin faults
                 PROVE  IF able = {} THEN unhandled'
                        ELSE frames'[Max(able)].pending
                                = <<Longest(Open(frames[Max(able)].nest, "try"))>>
    BY DEF CaughtByInnermost
  <1>2. PICK j \in 0..Len(frames) :
               /\ DOMAIN frames = 1..Len(frames) /\ DOMAIN frames' = 1..Len(frames)
               /\ \A i \in 1..Len(frames) :
                    LET o == IF i = Len(frames) THEN f ELSE frames[i]
                    IN  /\ o \in Frame /\ o.handlers = frames[i].handlers
                        /\ i > j => o.handlers = <<>> /\ frames'[i] = Passed(o)
                        /\ i = j => o.handlers # <<>> /\ frames'[i] = Catching(o)
                        /\ i < j => frames'[i] = o
               /\ unhandled' = (unhandled \/ j = 0)
    BY RaiseFrames
  <1>3. ASSUME NEW i \in 1..Len(frames)
        PROVE  /\ i \in able <=> frames[i].handlers # <<>>
               /\ frames[i].handlers # <<>> =>
                    Last(frames[i].handlers) = Longest(Open(frames[i].nest, "try"))
    <2>1. frames[i] \in Frame /\ frames[i].pending = <<>> /\ FrameTries(frames[i])
      BY <1>1, <1>2 DEF IInv, StackInv, FrameInv, FollowInv, Quiet
    <2>2. PICK t : t = frames[i]
      OBVIOUS
    <2>3. t \in Frame /\ t.pending = <<>> /\ FrameTries(t) /\ ~t.leftTry
      BY <1>1, <1>2, <2>1, <2>2
    <2> QED
      BY <1>2, <2>2, <2>3, InnermostHandler
  <1>4. Len(frames) \in Nat
    BY TopFrame
  <1>5. \A i \in 1..Len(frames) : i > j => i \notin able
    BY <1>2, <1>3
  <1>6. able \subseteq 1..Len(frames)
    BY <1>2
  <1> HIDE DEF able
  <1>7. CASE j = 0
    <2>1. able = {}
      BY <1>4, <1>5, <1>6, <1>7
    <2> QED
      BY <1>2, <1>7, <2>1
  <1>8. CASE j # 0
    <2>1. j \in 1..Len(frames)
      BY <1>4, <1>8
    <2>2. PICK o \in Frame : /\ o.handlers = frames[j].handlers /\ o.handlers # <<>>
                             /\ frames'[j] = Catching(o)
      BY <1>2, <2>1
    <2>3. j \in able
      BY <1>3, <2>1, <2>2
    <2>4. \A i \in able : i <= j /\ i \in Nat
      BY <1>4, <1>5, <1>6, <2>1
    <2>5. Max(able) = j
      <3>1. j \in able /\ \A y \in able : j >= y
        BY <2>1, <2>3, <2>4
      <3>2. ASSUME NEW m \in able, \A y \in able : m >= y PROVE m = j
        BY <2>1, <2>3, <2>4, <3>2
      <3> QED
        BY <3>1, <3>2 DEF Max
    <2>6. frames'[j].pending = <<Last(frames[j].handlers)>>
      BY <2>2, CatchingFrame
    <2> QED
      BY <1>3, <2>1, <2>2, <2>3, <2>5, <2>6
  <1> QED
    BY <1>7, <1>8

\* A step of the top frame that is no raise interrupts no frame for one.
LEMMA SetTopQuiet ==
    ASSUME IInv, frames # <<>>, Quiet, NEW f, SetTop(f),
           f.interrupt = Top.interrupt \/ f.interrupt # "raise"
    PROVE  Quiet'
  <1>1. /\ DOMAIN frames' = DOMAIN frames /\ Len(frames) \in DOMAIN frames
        /\ \A i \in DOMAIN frames : frames'[i] = IF i = Len(frames) THEN f ELSE frames[i]
    BY SetTopFrames, TopPlace
  <1>2. Top.interrupt # "raise"
    BY <1>1 DEF Quiet, Top
  <1> QED
    BY <1>1, <1>2 DEF Quiet

\* Setting the flag for another reason.
LEMMA InterruptedQuiet ==
    ASSUME NEW f \in Frame, NEW why \in {"return", "panic"}
    PROVE  Interrupted(f, why).interrupt = f.interrupt
           \/ Interrupted(f, why).interrupt # "raise"
  BY InterruptedFrame

\* Instructions that move values, and those that run other code, raise nothing
\* by themselves.
LEMMA MovesQuiet ==
    ASSUME IInv, Quiet,
           \/ Load \/ (\E keep \in BOOLEAN : PopValue(keep))
           \/ (\E kind \in Kinds : Begin(kind)) \/ (\E res \in Values : Finish(res))
    PROVE  Quiet'
  <1>1. ASSUME Load PROVE Quiet'
    <2> DEFINE s == Append(Top.stack, "val")
               g == [Top EXCEPT !.stack = s, !.depth = Top.depth + 1]
    <2>1. frames # <<>> /\ Top \in Frame /\ SetTop(g)
      BY <1>1, TopFrame DEF Load, Fetches
    <2> HIDE DEF s
    <2>2. g.interrupt = Top.interrupt
      BY <2>1 DEF Frame
    <2> QED
      BY <2>1, <2>2, SetTopQuiet
  <1>2. ASSUME NEW keep \in BOOLEAN, PopValue(keep) PROVE Quiet'
    <2> DEFINE v == IF keep THEN Last(Top.stack) ELSE Top.retval
               g == [Top EXCEPT !.stack = Front(Top.stack), !.depth = 0, !.retval = v]
    <2>1. frames # <<>> /\ Top \in Frame /\ SetTop(g)
      BY <1>2, TopFrame DEF PopValue, Fetches
    <2> HIDE DEF v
    <2>2. g.interrupt = Top.interrupt
      BY <2>1 DEF Frame
    <2> QED
      BY <2>1, <2>2, SetTopQuiet
  <1>3. ASSUME NEW kind \in Kinds, Begin(kind) PROVE Quiet'
    <2> DEFINE s == Pop(Top.stack, Operands(kind))
               d == Top.depth - Operands(kind)
               g == [Top EXCEPT !.stack = s, !.depth = d, !.doing = kind,
                                !.got = "nothing", !.fast = FALSE]
    <2>1. frames # <<>> /\ Top \in Frame /\ SetTop(g)
      BY <1>3, TopFrame DEF Begin, Fetches
    <2> HIDE DEF s, d
    <2>2. g.interrupt = Top.interrupt
      BY <2>1 DEF Frame
    <2> QED
      BY <2>1, <2>2, SetTopQuiet
  <1>4. ASSUME NEW res \in Values, Finish(res) PROVE Quiet'
    <2> DEFINE s == Top.stack \o Pushed(Top.doing, res)
               d == Top.depth + Yields(Top.doing)
               q == Top.doing = "build" /\ Top.interrupt # "no"
               g == [Top EXCEPT !.stack = s, !.depth = d, !.doing = "run",
                                !.got = "nothing", !.fast = q]
    <2>1. frames # <<>> /\ Top \in Frame /\ SetTop(g)
      BY <1>4, TopFrame DEF Finish
    <2> HIDE DEF s, d, q
    <2>2. g.interrupt = Top.interrupt
      BY <2>1 DEF Frame
    <2> QED
      BY <2>1, <2>2, SetTopQuiet
  <1> QED
    BY <1>1, <1>2, <1>3, <1>4

\* Nor do statements that begin or end.
LEMMA StatementsQuiet ==
    ASSUME IInv, Quiet,
           \/ EnterTry \/ EnterTryPanics \/ LeaveTry \/ BeginWith \/ BeginWithEntered
           \/ EndWith \/ EndWithExited \/ EnterLoop \/ LeaveLoop
    PROVE  Quiet'
  <1> DEFINE t == Top
  <1>1. frames # <<>> /\ t \in Frame
    BY TopFrame DEF EnterTry, EnterTryPanics, LeaveTry, BeginWith, BeginWithEntered,
       EndWith, EndWithExited, EnterLoop, LeaveLoop, AtStatement, Fetches
  <1>2. ASSUME NEW g, SetTop(g), g.interrupt = t.interrupt \/ g.interrupt # "raise"
        PROVE  Quiet'
    BY <1>1, <1>2, SetTopQuiet
  <1>3. CASE EnterTry
    <2> DEFINE h == Append(t.handlers, t.nest)
               n == Append(t.nest, "try")
               g == [t EXCEPT !.handlers = h, !.nest = n, !.fast = FALSE]
    <2>1. SetTop(g)
      BY <1>3 DEF EnterTry
    <2> HIDE DEF t, h, n
    <2>2. g.interrupt = t.interrupt
      BY <1>1 DEF Frame
    <2> QED
      BY <1>2, <2>1, <2>2
  <1>4. CASE EnterTryPanics
    <2> DEFINE p == Interrupted(t, "panic")
               g == [p EXCEPT !.fast = FALSE]
    <2>1. SetTop(g)
      BY <1>4 DEF EnterTryPanics
    <2>2. p \in Frame /\ (p.interrupt = t.interrupt \/ p.interrupt # "raise")
      BY <1>1, InterruptedFrame, InterruptedQuiet
    <2> HIDE DEF t, p
    <2>3. g.interrupt = p.interrupt
      BY <2>2 DEF Frame
    <2> QED
      BY <1>2, <2>1, <2>2, <2>3
  <1>5. CASE LeaveTry
    <2> DEFINE h == Front(t.handlers)
               n == Front(t.nest)
               g == [t EXCEPT !.handlers = h, !.nest = n, !.fast = FALSE]
    <2>1. SetTop(g)
      BY <1>5 DEF LeaveTry
    <2> HIDE DEF t, h, n
    <2>2. g.interrupt = t.interrupt
      BY <1>1 DEF Frame
    <2> QED
      BY <1>2, <2>1, <2>2
  <1>6. CASE BeginWith
    <2> DEFINE s == Front(t.stack)
               g == [t EXCEPT !.stack = s, !.depth = 0, !.doing = "enter",
                              !.got = "nothing", !.fast = FALSE]
    <2>1. SetTop(g)
      BY <1>6 DEF BeginWith
    <2> HIDE DEF t, s
    <2>2. g.interrupt = t.interrupt
      BY <1>1 DEF Frame
    <2> QED
      BY <1>2, <2>1, <2>2
  <1>7. CASE BeginWithEntered
    <2> DEFINE d == IF unhandled THEN t.disposable ELSE Append(t.disposable, t.nest)
               n == Append(t.nest, "with")
               g == [t EXCEPT !.disposable = d, !.nest = n, !.doing = "run",
                              !.got = "nothing"]
    <2>1. SetTop(g)
      BY <1>7 DEF BeginWithEntered
    <2> HIDE DEF t, d, n
    <2>2. g.interrupt = t.interrupt
      BY <1>1 DEF Frame
    <2> QED
      BY <1>2, <2>1, <2>2
  <1>8. CASE EndWith
    <2> DEFINE d == Disposed(t.disposable)
               n == Front(t.nest)
               g == [t EXCEPT !.disposable = d, !.nest = n, !.doing = "exit",
                              !.got = "nothing", !.fast = FALSE]
    <2>1. SetTop(g)
      BY <1>8 DEF EndWith
    <2> HIDE DEF t, d, n
    <2>2. g.interrupt = t.interrupt
      BY <1>1 DEF Frame
    <2> QED
      BY <1>2, <2>1, <2>2
  <1>9. CASE EndWithExited
    <2> DEFINE g == [t EXCEPT !.doing = "run", !.got = "nothing"]
    <2>1. SetTop(g)
      BY <1>9 DEF EndWithExited
    <2> HIDE DEF t
    <2>2. g.interrupt = t.interrupt
      BY <1>1 DEF Frame
    <2> QED
      BY <1>2, <2>1, <2>2
  <1>10. ASSUME NEW n, SetTop([Top EXCEPT !.nest = n]) PROVE Quiet'
    <2> DEFINE g == [t EXCEPT !.nest = n]
    <2>1. SetTop(g)
      BY <1>10
    <2> HIDE DEF t
    <2>2. g.interrupt = t.interrupt
      BY <1>1 DEF Frame
    <2> QED
      BY <1>2, <2>1, <2>2
  <1>11. CASE EnterLoop \/ LeaveLoop
    BY <1>10, <1>11 DEF EnterLoop, LeaveLoop
  <1> QED
    BY <1>3, <1>4, <1>5, <1>6, <1>7, <1>8, <1>9, <1>11

\* Nor do jumps and returns.
LEMMA JumpsQuiet ==
    ASSUME IInv, Quiet,
           (\E continues \in BOOLEAN : Break(continues)) \/ Catch \/ Return
    PROVE  Quiet'
  <1> DEFINE t == Top
  <1>1. frames # <<>> /\ t \in Frame
    BY TopFrame DEF Break, Catch, Return, AtStatement, Fetches, Notices
  <1>2. ASSUME NEW g, SetTop(g), g.interrupt = t.interrupt \/ g.interrupt # "raise"
        PROVE  Quiet'
    BY <1>1, <1>2, SetTopQuiet
  <1>3. ASSUME NEW at, SetTop([Abandon(Top, at) EXCEPT !.fast = FALSE]) PROVE Quiet'
    <2> DEFINE lt == t.leftTry \/ Open(t.nest, "try") # Open(at, "try")
               lw == t.leftWith \/ Open(t.nest, "with") # Open(at, "with")
               g == [[t EXCEPT !.nest = at, !.leftTry = lt, !.leftWith = lw]
                     EXCEPT !.fast = FALSE]
    <2>1. SetTop(g)
      BY <1>3 DEF Abandon
    <2> HIDE DEF t, lt, lw
    <2>2. g.interrupt = t.interrupt
      BY <1>1 DEF Frame
    <2> QED
      BY <1>2, <2>1, <2>2
  <1>4. ASSUME NEW continues \in BOOLEAN, Break(continues) PROVE Quiet'
    BY <1>3, <1>4 DEF Break
  <1>5. CASE Catch
    <2> DEFINE at == t.pending[1]
               lt == t.leftTry \/ Open(t.nest, "try") # Open(at, "try")
               lw == t.leftWith \/ Open(t.nest, "with") # Open(at, "with")
               g == [[t EXCEPT !.nest = at, !.leftTry = lt, !.leftWith = lw]
                     EXCEPT !.depth = 0, !.pending = <<>>, !.interrupt = "no",
                            !.leftTry = t.leftTry]
    <2>1. SetTop(g)
      BY <1>5 DEF Catch, Abandon
    <2> HIDE DEF t, at, lt, lw
    <2>2. g.interrupt = "no"
      BY <1>1 DEF Frame
    <2> QED
      BY <1>2, <2>1, <2>2
  <1>6. CASE Return
    <2> DEFINE p == Interrupted(t, "return")
               s == IF t.stack = <<>> THEN t.stack ELSE Front(t.stack)
               g == [p EXCEPT !.stack = s, !.depth = 0, !.retval = ReturnValue(t),
                              !.fast = FALSE]
    <2>1. SetTop(g)
      BY <1>6 DEF Return, Interrupted
    <2>2. p \in Frame /\ (p.interrupt = t.interrupt \/ p.interrupt # "raise")
      BY <1>1, InterruptedFrame, InterruptedQuiet
    <2> HIDE DEF t, p, s
    <2>3. g.interrupt = p.interrupt
      BY <2>2 DEF Frame
    <2> QED
      BY <1>2, <2>1, <2>2, <2>3
  <1> QED
    BY <1>4, <1>5, <1>6

\* Nor do frames that come or go.
LEMMA CallsQuiet ==
    ASSUME IInv, Quiet, Start \/ CallFunction \/ Leave
    PROVE  Quiet'
  <1>1. NewFrame.interrupt = "no"
    BY DEF NewFrame
  <1>2. PICK o : o = NewFrame
    OBVIOUS
  <1>3. frames \in Seq(Frame)
    BY DEF IInv, StackInv
  <1>4. CASE Start
    <2>1. frames' = <<o>>
      BY <1>2, <1>4 DEF Start
    <2>2. \A i \in DOMAIN frames' : frames'[i] = o
      BY <2>1
    <2> QED
      BY <1>1, <1>2, <2>2 DEF Quiet
  <1>5. CASE CallFunction
    <2>1. frames' = Append(frames, NewFrame) /\ NewFrame \in Frame
      BY <1>5, NewFrameInv DEF CallFunction, FrameInv
    <2>2. /\ DOMAIN frames = 1..Len(frames) /\ Len(frames) \in Nat
          /\ DOMAIN frames' = 1..(Len(frames) + 1)
          /\ frames'[Len(frames) + 1] = NewFrame
          /\ \A i \in 1..Len(frames) : frames'[i] = frames[i]
      BY <1>3, <2>1, AppendTyped
    <2>3. \A i \in DOMAIN frames' :
              frames'[i] = NewFrame \/ (i \in DOMAIN frames /\ frames'[i] = frames[i])
      BY <2>2
    <2> QED
      BY <1>1, <2>3 DEF Quiet
  <1>6. CASE Leave
    <2>1. frames # <<>> /\ Len(frames) \in Nat \ {0} /\ DOMAIN frames = 1..Len(frames)
      BY <1>3, <1>6, TopFrame, LenProperties DEF Leave, Notices
    <2>2. CASE Len(frames) = 1
      <3>1. frames' = <<>>
        BY <1>6, <2>2 DEF Leave
      <3>2. DOMAIN frames' = {}
        BY <3>1
      <3> QED
        BY <3>2 DEF Quiet
    <2>3. CASE Len(frames) # 1
      <3> DEFINE n == Len(frames) - 1
                 b == Front(frames)
                 r == Result(Top)
                 g == [b[n] EXCEPT !.got = r]
      <3>1. b \in Seq(Frame) /\ Len(b) = n /\ \A i \in 1..n : b[i] = frames[i]
        BY <1>3, <2>1, FrontLast
      <3>2. n \in Nat \ {0} /\ \A i \in 1..n : i \in DOMAIN frames
        BY <2>1, <2>3
      <3>3. frames' = [b EXCEPT ![n] = g]
        BY <1>6, <2>3 DEF Leave
      <3> HIDE DEF n, b, r
      <3>4. DOMAIN b = 1..n /\ n \in 1..n /\ b[n] \in Frame
        BY <3>1, <3>2, LenProperties
      <3>5. g.interrupt = b[n].interrupt
        BY <3>4 DEF Frame
      <3> HIDE DEF g
      <3>6. /\ DOMAIN frames' = 1..n
            /\ \A i \in 1..n : frames'[i] = IF i = n THEN g ELSE b[i]
        BY <3>3, <3>4
      <3>7. \A i \in 1..n : frames'[i].interrupt = frames[i].interrupt
        BY <3>1, <3>5, <3>6
      <3> QED
        BY <3>2, <3>6, <3>7 DEF Quiet
    <2> QED
      BY <2>2, <2>3
  <1> QED
    BY <1>4, <1>5, <1>6

\* Only a raise puts an exception on its way.
LEMMA OnlyRaisesDisturb ==
    ASSUME IInv, Quiet, Next, ~NativeRaises, ~RaiseStmt PROVE Quiet'
  <1>1. CASE Undefined
    BY <1>1 DEF Undefined, vars, Quiet
  <1>2. CASE \/ Load \/ (\E keep \in BOOLEAN : PopValue(keep))
             \/ (\E kind \in Kinds : Begin(kind)) \/ (\E res \in Values : Finish(res))
    BY <1>2, MovesQuiet
  <1>3. CASE \/ EnterTry \/ EnterTryPanics \/ LeaveTry \/ BeginWith \/ BeginWithEntered
             \/ EndWith \/ EndWithExited \/ EnterLoop \/ LeaveLoop
    BY <1>3, StatementsQuiet
  <1>4. CASE (\E continues \in BOOLEAN : Break(continues)) \/ Catch \/ Return
    BY <1>4, JumpsQuiet
  <1>5. CASE Start \/ CallFunction \/ Leave
    BY <1>5, CallsQuiet
  <1> QED
    BY <1>1, <1>2, <1>3, <1>4, <1>5 DEF Next

\* What C code raises is caught where the property says.
LEMMA NativeRaiseFindsInnermost ==
    ASSUME IInv, FollowInv, NativeRaises PROVE CaughtByInnermost
  <1> DEFINE t == Top
             d == IF t.doing = "native" THEN "invoke" ELSE t.doing
             g == [t EXCEPT !.got = "null", !.doing = d]
  <1>1. frames # <<>> /\ t \in Frame
    BY TopFrame DEF NativeRaises
  <1>2. Raise(WithTop(g))
    BY DEF NativeRaises
  <1> HIDE DEF t
  <1>3. d \in AllKinds \cup {"run"}
    BY <1>1 DEF Frame, AllKinds
  <1> HIDE DEF d
  <1>4. g \in Frame /\ g.handlers = t.handlers
    BY <1>1, <1>3 DEF Frame
  <1> HIDE DEF g
  <1> QED
    BY <1>1, <1>2, <1>4, RaiseFindsInnermost DEF t

\* What RAISE raises is caught where the property says.
LEMMA RaiseStmtFindsInnermost ==
    ASSUME IInv, FollowInv, RaiseStmt PROVE CaughtByInnermost
  <1> DEFINE t == Top
             g == [t EXCEPT !.stack = Front(t.stack), !.depth = 0, !.fast = FALSE]
  <1>1. frames # <<>> /\ t \in Frame /\ Len(t.stack) >= 1
    BY TopFrame DEF RaiseStmt, Fetches, Sound
  <1>2. Raise(WithTop(g))
    BY DEF RaiseStmt
  <1> HIDE DEF t
  <1>3. Front(t.stack) \in Seq(Values)
    <2>1. t.stack \in Seq(Values) /\ t.stack # <<>>
      BY <1>1, EmptySeq DEF Frame
    <2> QED
      BY <2>1, FrontLast
  <1>4. g \in Frame /\ g.handlers = t.handlers
    BY <1>1, <1>3 DEF Frame
  <1> HIDE DEF g
  <1> QED
    BY <1>1, <1>2, <1>4, RaiseFindsInnermost DEF t

(***************************************************************************)
(* An exception is caught by the youngest frame that is in a try           *)
(* statement, at the innermost one of that frame, or is reported.          *)
(***************************************************************************)
THEOREM CaughtByTheInnermost == Spec => ExceptionsCaughtByInnermost
  <1>1. Init => IInv /\ FollowInv
    BY InitInv DEF Init, FollowInv
  <1>2. IInv /\ FollowInv /\ [Next]_vars => [CaughtByInnermost]_vars
    <2> SUFFICES ASSUME IInv, FollowInv, Next PROVE CaughtByInnermost
      OBVIOUS
    <2>1. CASE NativeRaises \/ RaiseStmt
      BY <2>1, NativeRaiseFindsInnermost, RaiseStmtFindsInnermost
    <2>2. CASE ~NativeRaises /\ ~RaiseStmt
      <3>1. Quiet => Quiet'
        BY <2>2, OnlyRaisesDisturb
      <3> QED
        BY <3>1 DEF CaughtByInnermost, Quiet
    <2> QED
      BY <2>1, <2>2
  <1>3. IInv /\ FollowInv /\ [Next]_vars => FollowInv'
    BY NextFollow
  <1> QED
    BY <1>1, <1>2, <1>3, NextInv, PTL DEF Spec, ExceptionsCaughtByInnermost

=============================================================================
