--------------------------- MODULE IndicatorsProofs ---------------------------
(***************************************************************************)
(* Theorems about Indicators, for any texts, clients, length of the queue  *)
(* and number of commands, callbacks and ends of the daemon.               *)
(***************************************************************************)
EXTENDS IndicatorsProps, SequenceTheorems, TLAPS

(* What the texts of the threads are: a callback restores what is no       *)
(* notice, who clears the display has no text of its own, and who writes   *)
(* has made its copy.                                                      *)
TextsOK ==
    /\ \A c \in Callbacks : thread[c].text \notin Notices
    /\ \A t \in Threads :
          /\ thread[t].step \in {"default", "clear", "blank"} => thread[t].text = NoText
          /\ thread[t].step \in {"put", "keep", "copy"} =>
                thread[t].text \in Prompts \cup Notices \cup {NoText}
          /\ thread[t].step \in {"stop", "erase", "first", "second"} =>
                thread[t].text # NoText
          /\ thread[t].step = "start" => thread[t].text \in Notices

(* As long as no threads have met, one at most writes.                     *)
AloneOK ==
    ~clash => \A t, u \in Threads : Writing(t) /\ Writing(u) => t = u

(* What a thread is to copy or has copied, unless it is a notice, is the   *)
(* idle message.                                                           *)
CopyOK ==
    ~clash => \A t \in Threads :
        thread[t].step \in {"copy", "stop", "erase", "first", "second"} =>
            thread[t].text \in Notices \cup {NoText, idleMessage}

(* The display shows what the thread that writes has written.              *)
ContentOK ==
    ~clash =>
       /\ \A t \in Threads :
             /\ thread[t].step = "first" => display = <<>>
             /\ thread[t].step = "second" => display = <<<<thread[t].text, 1>>>>
       /\ (\A t \in Threads : ~Writing(t)) /\ ~messageTimer /\ ~Disposed
             => display = Whole(idleMessage)

DisplayInv ==
    /\ TextsOK
    /\ NoticesAreTimed
    /\ AloneOK
    /\ CopyOK
    /\ ContentOK

IndicatorsInv == TypeOK /\ OpenDoorIsTimed /\ DisplayInv

-----------------------------------------------------------------------------
(* The states of the threads.                                              *)

ThreadsTyped == thread \in [Threads -> ThreadStates]

(* A state of a thread has a step and a text.                              *)
LEMMA AtTyped ==
    ASSUME NEW step \in Steps, NEW text \in Texts \cup {NoText}
    PROVE  /\ At(step, text) \in ThreadStates
           /\ At(step, text).step = step
           /\ At(step, text).text = text
BY DEF At, ThreadStates

(* The fields of a state.                                                  *)
LEMMA FieldsTyped ==
    ASSUME NEW s \in ThreadStates
    PROVE  s.step \in Steps /\ s.text \in Texts \cup {NoText}
BY DEF ThreadStates

(* A change of the state of one thread.                                    *)
LEMMA Moved ==
    ASSUME ThreadsTyped, NEW t \in Threads, NEW s \in ThreadStates,
           thread' = [thread EXCEPT ![t] = s]
    PROVE  /\ ThreadsTyped'
           /\ thread'[t] = s
           /\ \A u \in Threads \ {t} : thread'[u] = thread[u]
BY DEF ThreadsTyped

(* A thread that proceeds keeps its text.                                  *)
LEMMA Proceeded ==
    ASSUME ThreadsTyped, NEW t \in Threads, NEW step \in Steps, Proceed(t, step)
    PROVE  /\ ThreadsTyped'
           /\ thread'[t].step = step
           /\ thread'[t].text = thread[t].text
           /\ \A u \in Threads \ {t} : thread'[u] = thread[u]
<1> DEFINE s == [thread[t] EXCEPT !.step = step]
<1>1. /\ s \in ThreadStates
      /\ s.step = step
      /\ s.text = thread[t].text
  BY DEF ThreadsTyped, ThreadStates
<1>2. thread' = [thread EXCEPT ![t] = s]
  BY Zenon DEF Proceed
<1> HIDE DEF s
<1>3. QED
  BY <1>1, <1>2, Moved, Zenon

(* A thread that returns holds no text and writes no more.                 *)
LEMMA Returned ==
    ASSUME ThreadsTyped, NEW t \in Threads, Return(t)
    PROVE  /\ ThreadsTyped'
           /\ thread'[t].step = (IF t = Server THEN "check" ELSE "rest")
           /\ thread'[t].text = NoText
           /\ \A u \in Threads \ {t} : thread'[u] = thread[u]
<1> DEFINE s == IF t = Server THEN At("check", NoText) ELSE AtRest
<1>1. /\ s \in ThreadStates
      /\ s.step = (IF t = Server THEN "check" ELSE "rest")
      /\ s.text = NoText
  BY AtTyped DEF AtRest, Steps, ServerSteps
<1>2. thread' = [thread EXCEPT ![t] = s]
  BY Zenon DEF Return
<1> HIDE DEF s
<1>3. QED
  BY <1>1, <1>2, Moved, Zenon

(* A thread that begins has the step and the text it begins with.          *)
LEMMA Begun ==
    ASSUME ThreadsTyped, NEW t \in Threads, NEW step \in Steps,
           NEW text \in Texts \cup {NoText}, Begin(t, step, text)
    PROVE  /\ ThreadsTyped'
           /\ thread'[t].step = step
           /\ thread'[t].text = text
           /\ \A u \in Threads \ {t} : thread'[u] = thread[u]
           /\ clash' = \E u \in Threads \ {t} : Writing(u)
<1> DEFINE s == At(step, text)
<1>1. s \in ThreadStates /\ s.step = step /\ s.text = text
  BY AtTyped
<1>2. thread' = [thread EXCEPT ![t] = s]
  BY Zenon DEF Begin
<1>3. clash' = \E u \in Threads \ {t} : Writing(u)
  BY Zenon DEF Begin
<1> HIDE DEF s
<1>4. /\ ThreadsTyped'
      /\ thread'[t] = s
      /\ \A u \in Threads \ {t} : thread'[u] = thread[u]
  BY <1>1, <1>2, Moved, Zenon
<1>5. QED
  BY <1>1, <1>3, <1>4, Zenon

(* The server is none of the callbacks.                                    *)
LEMMA ServerOrCallback ==
    /\ Server \in Threads /\ Server \notin Callbacks
    /\ Callbacks \subseteq Threads
    /\ \A t \in Threads : t = Server \/ t \in Callbacks
BY IndicatorsAssumption DEF Server, Callbacks, Threads

(* Prompts and the default message are texts and no notices.               *)
LEMMA IdleTexts ==
    /\ NoText \notin Texts
    /\ Notices \subseteq Texts
    /\ Prompts \cup {DefaultText} \subseteq Texts
    /\ \A text \in Prompts \cup {DefaultText} : text \notin Notices
    /\ \A text \in Texts \ Notices : text \in Prompts \cup {DefaultText}
    /\ NoText \notin Notices
BY IndicatorsAssumption DEF Texts

-----------------------------------------------------------------------------
(* Steps that leave the display alone.                                     *)

(* A step that changes no thread and nothing of the display.               *)
LEMMA Untouched ==
    ASSUME DisplayInv, UNCHANGED <<thread, displayVars>>
    PROVE  DisplayInv'
BY DEF DisplayInv, displayVars, TextsOK, NoticesAreTimed, AloneOK, CopyOK, ContentOK,
       Shown, WillErase, Disposed, Writing

(* A step of the server outside of the functions of I2C_LCD, which may be  *)
(* the end of the display.                                                 *)
LEMMA ServerElsewhere ==
    ASSUME DisplayInv, ThreadsTyped,
           UNCHANGED <<display, idleMessage, clash>>,
           \A c \in Callbacks : thread'[c] = thread[c],
           ~Writing(Server), ~Writing(Server)',
           Disposed => Disposed',
           ~Disposed' => UNCHANGED messageTimer
    PROVE  DisplayInv'
<1> USE DEF DisplayInv
<1>1. /\ \A c \in Callbacks : thread'[c] = thread[c]
      /\ thread[Server].step \notin DisplaySteps
      /\ thread'[Server].step \notin DisplaySteps
  BY DEF Writing
<1>2. \A t \in Threads : thread'[t].step \in DisplaySteps => thread'[t] = thread[t]
  BY <1>1, ServerOrCallback, Zenon
<1>3. \A t \in Threads : thread[t].step \in DisplaySteps => thread'[t] = thread[t]
  BY <1>1, ServerOrCallback, Zenon
<1>4. TextsOK'
  BY <1>1, <1>2 DEF TextsOK, DisplaySteps
<1>5. NoticesAreTimed'
  <2>1. CASE Disposed'
    BY <2>1 DEF NoticesAreTimed
  <2>2. CASE ~Disposed'
    BY <2>2, <1>1, <1>3 DEF NoticesAreTimed, Shown, WillErase, DisplaySteps
  <2>3. QED
    BY <2>1, <2>2
<1>6. AloneOK'
  BY <1>2 DEF AloneOK, Writing
<1>7. CopyOK'
  BY <1>2 DEF CopyOK, DisplaySteps
<1>8. ContentOK'
  BY <1>2, <1>3 DEF ContentOK, Writing, DisplaySteps
<1>9. QED
  BY <1>4, <1>5, <1>6, <1>7, <1>8
-----------------------------------------------------------------------------
(* Threads that enter the functions of I2C_LCD.                            *)
LEMMA BeginPreserves ==
    ASSUME DisplayInv, ThreadsTyped,
           NEW t \in Threads, NEW step \in {"default", "clear", "put"},
           NEW text \in Texts \cup {NoText},
           t \in Callbacks => text = NoText,
           text \in Prompts \cup Notices \cup {NoText},
           step # "put" => text = NoText,
           Begin(t, step, text),
           UNCHANGED <<display, idleMessage>>
    PROVE  DisplayInv'
<1> USE DEF DisplayInv
<1>1. /\ thread'[t].step = step
      /\ thread'[t].text = text
      /\ \A u \in Threads \ {t} : thread'[u] = thread[u]
      /\ clash' = \E u \in Threads \ {t} : Writing(u)
  BY Begun DEF Steps, DisplaySteps
<1>2. ~clash' => \A u \in Threads : Writing(u)' => u = t
  BY <1>1 DEF Writing
<1>3. TextsOK'
  BY <1>1, IdleTexts, ServerOrCallback DEF TextsOK
<1>4. NoticesAreTimed'
  BY <1>1 DEF NoticesAreTimed, WillErase
<1>5. AloneOK'
  BY <1>2 DEF AloneOK
<1>6. CopyOK'
  BY <1>1, <1>2 DEF CopyOK, Writing, DisplaySteps
<1>7. ContentOK'
  <2>1. Writing(t)'
    BY <1>1 DEF Writing, DisplaySteps
  <2>2. QED
    BY <1>1, <1>2, <2>1 DEF ContentOK, Writing, DisplaySteps
<1>8. QED
  BY <1>3, <1>4, <1>5, <1>6, <1>7

(* No thread but t writes, before and after a step of t, as long as no     *)
(* threads have met.                                                       *)
LEMMA WritesAlone ==
    ASSUME AloneOK, NEW t \in Threads, Writing(t), UNCHANGED clash,
           \A u \in Threads \ {t} : thread'[u] = thread[u]
    PROVE  ~clash' => \A u \in Threads \ {t} : ~Writing(u) /\ ~Writing(u)'
BY DEF AloneOK, Writing

(* What a step of t within the functions must show of t itself.            *)
LEMMA WritePreserves ==
    ASSUME DisplayInv, NEW t \in Threads, Writing(t), UNCHANGED clash,
           \A u \in Threads \ {t} : thread'[u] = thread[u],
           t \in Callbacks => thread'[t].text \notin Notices,
           thread'[t].step \in {"default", "clear", "blank"} => thread'[t].text = NoText,
           thread'[t].step \in {"put", "keep", "copy"} =>
               thread'[t].text \in Prompts \cup Notices \cup {NoText},
           thread'[t].step \in {"stop", "erase", "first", "second"} =>
               thread'[t].text # NoText,
           thread'[t].step = "start" => thread'[t].text \in Notices,
           NoticesAreTimed',
           ~clash => /\ thread'[t].step \in {"copy", "stop", "erase", "first", "second"} =>
                           thread'[t].text \in Notices \cup {NoText, idleMessage'}
                     /\ thread'[t].step = "first" => display' = <<>>
                     /\ thread'[t].step = "second" => display' = <<<<thread'[t].text, 1>>>>
                     /\ Writing(t)' \/ messageTimer' \/ display' = Whole(idleMessage)'
    PROVE  DisplayInv'
<1> USE DEF DisplayInv
<1>1. ~clash' => \A u \in Threads \ {t} : ~Writing(u)'
  BY WritesAlone, Zenon
<1>2. TextsOK'
  BY ServerOrCallback DEF TextsOK
<1>3. AloneOK'
  BY <1>1 DEF AloneOK
<1>4. CopyOK'
  BY <1>1 DEF CopyOK, Writing, DisplaySteps
<1>5. ContentOK'
  BY <1>1 DEF ContentOK, Writing, DisplaySteps
<1>6. QED
  BY <1>2, <1>3, <1>4, <1>5

(* A thread within the functions, as the lemmas above expect it.           *)
LEMMA Inside ==
    ASSUME NEW t \in Threads, NEW step \in DisplaySteps, DisplayStep(t, step)
    PROVE  Writing(t) /\ thread[t].step = step /\ UNCHANGED clash
BY Zenon DEF DisplayStep, Writing

LEMMA setDefaultPreserves ==
    ASSUME DisplayInv, ThreadsTyped, NEW t \in Threads, setDefault(t)
    PROVE  DisplayInv'
<1>1. /\ Writing(t) /\ UNCHANGED clash
      /\ UNCHANGED <<display, messageTimer>>
  BY Inside DEF setDefault, DisplaySteps
<1>2. /\ thread'[t].step = "clear"
      /\ thread'[t].text = thread[t].text
      /\ \A u \in Threads \ {t} : thread'[u] = thread[u]
  BY Proceeded DEF setDefault, Steps, DisplaySteps
<1>3. NoticesAreTimed'
  BY <1>2 DEF NoticesAreTimed, WillErase
<1>4. /\ t \in Callbacks => thread'[t].text \notin Notices
      /\ thread'[t].text = NoText
  BY <1>2, Inside DEF DisplayInv, TextsOK, setDefault, DisplaySteps
<1>5. Writing(t)'
  BY <1>2 DEF Writing, DisplaySteps
<1>6. QED
  BY <1>1, <1>2, <1>3, <1>4, <1>5, WritePreserves

LEMMA StopTimerPreserves ==
    ASSUME DisplayInv, ThreadsTyped, NEW t \in Threads, StopTimer(t)
    PROVE  DisplayInv'
<1> DEFINE before == [blank |-> "clear", keep |-> "put", erase |-> "stop"]
<1>1. Writing(t) /\ UNCHANGED clash /\ UNCHANGED <<display, idleMessage>>
  BY Inside DEF StopTimer, DisplaySteps
<1>2. PICK step \in {"blank", "keep", "erase"} :
         DisplayStep(t, before[step]) /\ Proceed(t, step)
  BY DEF StopTimer
<1>3. /\ thread'[t].step = step
      /\ thread'[t].text = thread[t].text
      /\ \A u \in Threads \ {t} : thread'[u] = thread[u]
  BY <1>2, Proceeded DEF Steps, DisplaySteps
<1>4. thread[t].step = before[step]
  BY <1>2 DEF DisplayStep
<1>5. NoticesAreTimed'
  BY <1>3 DEF NoticesAreTimed, WillErase
<1>6. /\ t \in Callbacks => thread'[t].text \notin Notices
      /\ step = "blank" => thread'[t].text = NoText
      /\ step = "keep" => thread'[t].text \in Prompts \cup Notices \cup {NoText}
      /\ step = "erase" => thread'[t].text # NoText
  BY <1>3, <1>4 DEF DisplayInv, TextsOK
<1>7. ~clash => (step = "erase" => thread'[t].text \in Notices \cup {NoText, idleMessage'})
  BY <1>1, <1>3, <1>4 DEF DisplayInv, CopyOK
<1>8. Writing(t)'
  BY <1>3 DEF Writing, DisplaySteps
<1> HIDE DEF before
<1>9. QED
  BY <1>1, <1>3, <1>5, <1>6, <1>7, <1>8, WritePreserves

LEMMA ClearDisplayPreserves ==
    ASSUME DisplayInv, ThreadsTyped, NEW t \in Threads, ClearDisplay(t)
    PROVE  DisplayInv'
<1>1. /\ Writing(t) /\ UNCHANGED clash
      /\ display' = <<>> /\ UNCHANGED <<idleMessage, messageTimer>>
  BY Inside DEF ClearDisplay, DisplaySteps
<1>2. \E step \in {"put", "first"} :
         /\ DisplayStep(t, IF step = "put" THEN "blank" ELSE "erase")
         /\ Proceed(t, step)
  BY DEF ClearDisplay
<1>3. PICK step \in {"put", "first"} :
         /\ DisplayStep(t, IF step = "put" THEN "blank" ELSE "erase")
         /\ Proceed(t, step)
  BY <1>2
<1>4. /\ thread'[t].step = step
      /\ thread'[t].text = thread[t].text
      /\ \A u \in Threads \ {t} : thread'[u] = thread[u]
  BY <1>3, Proceeded DEF Steps, DisplaySteps
<1>5. /\ step = "first" => thread[t].step = "erase"
      /\ step = "put" => thread[t].step = "blank"
  BY <1>3 DEF DisplayStep
<1>6. NoticesAreTimed'
  BY <1>1 DEF NoticesAreTimed, Shown
<1>7. /\ t \in Callbacks => thread'[t].text \notin Notices
      /\ step = "first" => thread'[t].text # NoText
      /\ step = "put" => thread'[t].text = NoText
  BY <1>4, <1>5 DEF DisplayInv, TextsOK
<1>8. ~clash => (step = "first" => thread'[t].text \in Notices \cup {NoText, idleMessage'})
  BY <1>1, <1>4, <1>5 DEF DisplayInv, CopyOK
<1>9. Writing(t)'
  BY <1>4 DEF Writing, DisplaySteps
<1>10. QED
  BY <1>1, <1>4, <1>6, <1>7, <1>8, <1>9, WritePreserves

LEMMA PutToLCDPreserves ==
    ASSUME DisplayInv, ThreadsTyped, NEW t \in Threads, PutToLCD(t)
    PROVE  DisplayInv'
<1>1. /\ Writing(t) /\ UNCHANGED clash /\ UNCHANGED display
      /\ idleMessage' = IF thread[t].text \in Prompts THEN thread[t].text ELSE idleMessage
  BY Inside DEF PutToLCD, DisplaySteps
<1>2. /\ thread'[t].step = "copy"
      /\ thread'[t].text = thread[t].text
      /\ \A u \in Threads \ {t} : thread'[u] = thread[u]
  BY Proceeded DEF PutToLCD, Steps, DisplaySteps
<1>3. NoticesAreTimed'
  BY <1>2 DEF NoticesAreTimed, WillErase
<1>4. t \in Callbacks => thread'[t].text \notin Notices
  BY <1>2 DEF DisplayInv, TextsOK
<1>5. Writing(t)'
  BY <1>2 DEF Writing, DisplaySteps
<1>6. thread[t].text \in Notices \cup Prompts \cup {NoText}
  BY Inside DEF PutToLCD, DisplayInv, TextsOK, DisplaySteps
<1>7. thread'[t].text \in Notices \cup {NoText, idleMessage'}
  BY <1>1, <1>2, <1>6
<1>8. QED
  BY <1>1, <1>2, <1>3, <1>4, <1>5, <1>6, <1>7, WritePreserves

LEMMA CopyMessagePreserves ==
    ASSUME TypeOK, DisplayInv, ThreadsTyped, NEW t \in Threads, CopyMessage(t)
    PROVE  DisplayInv'
<1> DEFINE text == IF thread[t].text = NoText THEN idleMessage ELSE thread[t].text
<1>1. /\ Writing(t) /\ thread[t].step = "copy"
      /\ UNCHANGED <<clash, display, idleMessage>>
  BY Inside DEF CopyMessage, DisplaySteps
<1>2. /\ thread[t].text \in Texts \cup {NoText}
      /\ idleMessage \in Prompts \cup {DefaultText}
  BY FieldsTyped DEF ThreadsTyped, TypeOK
<1>3. /\ text \in Texts
      /\ t \in Callbacks => text \notin Notices
  BY <1>2, IdleTexts DEF DisplayInv, TextsOK
<1>4. /\ At("stop", text) \in ThreadStates
      /\ At("stop", text).step = "stop"
      /\ At("stop", text).text = text
  BY <1>3, AtTyped DEF Steps, DisplaySteps
<1>5. thread' = [thread EXCEPT ![t] = At("stop", text)]
  BY DEF CopyMessage
<1>6. ~clash => text \in Notices \cup {NoText, idleMessage}
  BY <1>1 DEF DisplayInv, CopyOK
<1> HIDE DEF text
<1>7. /\ thread'[t] = At("stop", text)
      /\ \A u \in Threads \ {t} : thread'[u] = thread[u]
  BY <1>4, <1>5, Moved, Zenon
<1>8. thread'[t].step = "stop" /\ thread'[t].text = text
  BY <1>4, <1>7, Zenon
<1>9. NoticesAreTimed'
  BY <1>8 DEF NoticesAreTimed, WillErase
<1>10. Writing(t)'
  BY <1>8 DEF Writing, DisplaySteps
<1>11. text # NoText
  BY <1>3, IdleTexts
<1>12. QED
  BY <1>1, <1>3, <1>6, <1>7, <1>8, <1>9, <1>10, <1>11, WritePreserves

(* Sequences of one and two elements.                                      *)
LEMMA ShortSequences ==
    ASSUME NEW d, NEW e
    PROVE  Append(<<>>, e) = <<e>> /\ Append(<<d>>, e) = <<d, e>>
<1>1. Append(<<>>, e) = <<e>>
  <2>1. /\ <<>> \in Seq({d, e}) /\ <<e>> \in Seq({d, e})
        /\ Append(<<>>, e) \in Seq({d, e})
    OBVIOUS
  <2>2. /\ Len(Append(<<>>, e)) = 1 /\ Len(<<e>>) = 1
        /\ Append(<<>>, e)[1] = e /\ <<e>>[1] = e
    OBVIOUS
  <2>3. QED
    BY <2>1, <2>2, SeqEqual
<1>2. Append(<<d>>, e) = <<d, e>>
  <2>1. /\ <<d>> \in Seq({d, e}) /\ <<d, e>> \in Seq({d, e})
        /\ Append(<<d>>, e) \in Seq({d, e})
    OBVIOUS
  <2>2. /\ Len(Append(<<d>>, e)) = 2 /\ Len(<<d, e>>) = 2
        /\ Append(<<d>>, e)[1] = d /\ <<d, e>>[1] = d
        /\ Append(<<d>>, e)[2] = e /\ <<d, e>>[2] = e
    OBVIOUS
  <2>3. \A i \in 1 .. Len(Append(<<d>>, e)) : Append(<<d>>, e)[i] = <<d, e>>[i]
    <3>1. \A i \in 1 .. 2 : i = 1 \/ i = 2
      OBVIOUS
    <3>2. QED
      BY <2>2, <3>1, Zenon
  <2>4. QED
    BY <2>1, <2>2, <2>3, SeqEqual, Zenon
<1>3. QED
  BY <1>1, <1>2

(* What is shown after a part of a text has been appended.                 *)
LEMMA Appended ==
    ASSUME display \in Seq(Texts \X {1, 2}), NEW text \in Texts, NEW part \in {1, 2},
           display' = Append(display, <<text, part>>)
    PROVE  /\ display' \in Seq(Texts \X {1, 2})
           /\ \A other : Shown(other)' => Shown(other) \/ other = text
           /\ display = <<>> => display' = <<<<text, part>>>>
           /\ display = <<<<text, 1>>>> /\ part = 2 => display' = Whole(text)
<1> DEFINE x == <<text, part>>
<1>1. x \in Texts \X {1, 2} /\ x[1] = text
  OBVIOUS
<1>2. display' = Append(display, x)
  OBVIOUS
<1>3. /\ display = <<>> => display' = <<x>>
      /\ display = <<<<text, 1>>>> /\ part = 2 => display' = Whole(text)
  BY <1>2, ShortSequences, Zenon DEF Whole
<1> HIDE DEF x
<1>4. /\ display' \in Seq(Texts \X {1, 2})
      /\ Len(display') = Len(display) + 1
      /\ \A i \in DOMAIN display' : i \in DOMAIN display \/ i = Len(display')
      /\ \A i \in DOMAIN display : display'[i] = display[i]
      /\ display'[Len(display')] = x
  BY <1>1, <1>2
<1>5. \A other : Shown(other)' => Shown(other) \/ other = text
  BY <1>1, <1>4, Zenon DEF Shown
<1>6. QED
  BY <1>3, <1>4, <1>5 DEF x

(* A text that is no notice is the one the display keeps.                  *)
LEMMA SendCharactersPreserves ==
    ASSUME TypeOK, DisplayInv, ThreadsTyped, NEW t \in Threads, SendCharacters(t)
    PROVE  DisplayInv'
<1> DEFINE text == thread[t].text
<1>1. Writing(t) /\ UNCHANGED clash /\ UNCHANGED <<idleMessage, messageTimer>>
  BY Inside DEF SendCharacters, DisplaySteps
<1>2. /\ thread[t].step \in {"first", "second"}
      /\ text \in Texts
      /\ t \in Callbacks => text \notin Notices
      /\ ~clash => text \in Notices \cup {NoText, idleMessage}
      /\ ~clash => (thread[t].step = "first" => display = <<>>)
      /\ ~clash => (thread[t].step = "second" => display = <<<<text, 1>>>>)
  <2>1. thread[t].step \in {"first", "second"}
    BY DEF SendCharacters, DisplayStep
  <2>2. text \in Texts \cup {NoText} /\ text # NoText
    BY <2>1, FieldsTyped DEF ThreadsTyped, DisplayInv, TextsOK
  <2>3. QED
    BY <2>1, <2>2 DEF DisplayInv, TextsOK, CopyOK, ContentOK
<1>3. display \in Seq(Texts \X {1, 2})
  BY DEF TypeOK
<1>4. CASE /\ DisplayStep(t, "first")
           /\ display' = Append(display, <<text, 1>>)
           /\ Proceed(t, "second")
  <2>1. /\ thread'[t].step = "second"
        /\ thread'[t].text = text
        /\ \A u \in Threads \ {t} : thread'[u] = thread[u]
    BY <1>4, Proceeded DEF Steps, DisplaySteps
  <2>2. thread[t].step = "first"
    BY <1>4 DEF DisplayStep
  <2>3. /\ \A other : Shown(other)' => Shown(other) \/ other = text
        /\ display = <<>> => display' = <<<<text, 1>>>>
    BY <1>2, <1>3, <1>4, Appended
  <2>4. NoticesAreTimed'
    <3>1. CASE text \in Notices
      <4>1. t = Server
        BY <1>2, <3>1, ServerOrCallback
      <4>2. QED
        BY <2>1, <3>1, <4>1 DEF NoticesAreTimed
    <3>2. CASE text \notin Notices
      <4>1. (\E other \in Notices : Shown(other))' => \E other \in Notices : Shown(other)
        BY <2>3, <3>2
      <4>2. /\ thread[Server].step \in {"second", "start"} => thread'[Server] = thread[Server]
            /\ Disposed => Disposed'
            /\ \A u \in Threads : WillErase(u) => WillErase(u)'
        BY <2>1, <2>2, ServerOrCallback DEF Disposed, WillErase
      <4>3. QED
        BY <1>1, <4>1, <4>2, DisplayInv DEF DisplayInv, NoticesAreTimed
    <3>3. QED
      BY <3>1, <3>2
  <2>5. Writing(t)'
    BY <2>1 DEF Writing, DisplaySteps
  <2>6. text # NoText
    BY <1>2, IdleTexts
  <2>7. QED
    BY <1>1, <1>2, <2>1, <2>2, <2>3, <2>4, <2>5, <2>6, WritePreserves
<1>5. CASE /\ DisplayStep(t, "second")
           /\ display' = Append(display, <<text, 2>>)
           /\ text \in Notices
           /\ Proceed(t, "start")
  <2>1. /\ thread'[t].step = "start"
        /\ thread'[t].text = text
        /\ \A u \in Threads \ {t} : thread'[u] = thread[u]
    BY <1>5, Proceeded DEF Steps, DisplaySteps
  <2>2. t = Server
    BY <1>2, <1>5, ServerOrCallback
  <2>3. NoticesAreTimed'
    BY <1>5, <2>1, <2>2 DEF NoticesAreTimed
  <2>4. Writing(t)'
    BY <2>1 DEF Writing, DisplaySteps
  <2>5. QED
    BY <1>1, <1>2, <1>5, <2>1, <2>3, <2>4, WritePreserves
<1>6. CASE /\ DisplayStep(t, "second")
           /\ display' = Append(display, <<text, 2>>)
           /\ text \notin Notices
           /\ Return(t)
  <2>1. /\ thread'[t].step = (IF t = Server THEN "check" ELSE "rest")
        /\ thread'[t].text = NoText
        /\ \A u \in Threads \ {t} : thread'[u] = thread[u]
    BY <1>6, Returned, Zenon
  <2>2. thread[t].step = "second"
    BY <1>6 DEF DisplayStep
  <2>3. /\ \A other : Shown(other)' => Shown(other) \/ other = text
        /\ display = <<<<text, 1>>>> => display' = Whole(text)
    BY <1>2, <1>3, <1>6, Appended
  <2>4. NoticesAreTimed'
    <3>1. (\E other \in Notices : Shown(other))' => \E other \in Notices : Shown(other)
      BY <1>6, <2>3
    <3>2. /\ thread[Server].step \in {"second", "start"} /\ thread[Server].text \in Notices
                => thread'[Server] = thread[Server]
          /\ Disposed => Disposed'
          /\ \A u \in Threads : WillErase(u) => WillErase(u)'
      BY <1>6, <2>1, <2>2, ServerOrCallback DEF Disposed, WillErase
    <3>3. QED
      BY <1>1, <3>1, <3>2 DEF DisplayInv, NoticesAreTimed
  <2>5. ~clash => text = idleMessage
    BY <1>2, <1>6, IdleTexts
  <2>6. ~clash => display' = Whole(idleMessage)'
    BY <1>1, <1>2, <2>2, <2>3, <2>5 DEF Whole
  <2>7. thread'[t].text \notin Notices
    BY <2>1, IdleTexts
  <2>8. QED
    BY <1>1, <2>1, <2>4, <2>6, <2>7, WritePreserves
<1>7. QED
  BY <1>4, <1>5, <1>6 DEF SendCharacters

LEMMA StartTimerPreserves ==
    ASSUME DisplayInv, ThreadsTyped, NEW t \in Threads, StartTimer(t)
    PROVE  DisplayInv'
<1>1. Writing(t) /\ UNCHANGED clash /\ messageTimer' = TRUE
  BY Inside DEF StartTimer, DisplaySteps
<1>2. /\ thread'[t].step = (IF t = Server THEN "check" ELSE "rest")
      /\ thread'[t].text = NoText
      /\ \A u \in Threads \ {t} : thread'[u] = thread[u]
  BY Returned, Zenon DEF StartTimer
<1>3. NoticesAreTimed'
  BY <1>1 DEF NoticesAreTimed
<1>4. thread'[t].text \notin Notices
  BY <1>2, IdleTexts
<1>5. QED
  BY <1>1, <1>2, <1>3, <1>4, WritePreserves

(* The functions of I2C_LCD, in whatever thread.                           *)
LEMMA WriteKeepsDisplayInv ==
    ASSUME TypeOK, DisplayInv, ThreadsTyped, NEW t \in Threads, Write(t)
    PROVE  DisplayInv'
BY setDefaultPreserves, StopTimerPreserves, ClearDisplayPreserves, PutToLCDPreserves,
   CopyMessagePreserves, SendCharactersPreserves, StartTimerPreserves, Zenon DEF Write

-----------------------------------------------------------------------------
(* The other steps.                                                        *)

(* The server at a step of its own moves to another step of its own.       *)
LEMMA ServerMoves ==
    ASSUME DisplayInv, ThreadsTyped, NEW step \in ServerSteps, Proceed(Server, step),
           thread[Server].step \in ServerSteps,
           UNCHANGED <<display, idleMessage, clash>>,
           Disposed => step \in {"lock", "ended", "dead"},
           step \notin {"lock", "ended", "dead"} => UNCHANGED messageTimer
    PROVE  DisplayInv'
<1>1. /\ thread'[Server].step = step
      /\ \A u \in Threads \ {Server} : thread'[u] = thread[u]
  BY Proceeded, ServerOrCallback DEF Steps
<1>2. \A c \in Callbacks : thread'[c] = thread[c]
  BY <1>1, ServerOrCallback
<1>3. ~Writing(Server) /\ ~Writing(Server)'
  BY <1>1 DEF Writing, ServerSteps, DisplaySteps
<1>4. Disposed' <=> step \in {"lock", "ended", "dead"}
  BY <1>1 DEF Disposed
<1>5. QED
  BY <1>2, <1>3, <1>4, ServerElsewhere

(* The loop of the server, the door and the end of the server.             *)
LEMMA ServerKeepsDisplayInv ==
    ASSUME TypeOK, DisplayInv, ThreadsTyped, ServerStep
    PROVE  DisplayInv'
<1>1. CASE CheckTerminate
  BY <1>1, ServerMoves DEF CheckTerminate, ServerSteps, Disposed, displayVars
<1>2. CASE TimedOut
  BY <1>2, ServerMoves DEF TimedOut, ServerSteps, Disposed, displayVars
<1>3. CASE ListenAndParseRequest
  <2> DEFINE request == Head(queue)
  <2>1. thread[Server].step = "listen"
        /\ UNCHANGED <<display, idleMessage, messageTimer>>
    BY <1>3 DEF ListenAndParseRequest
  <2>2. request \in Commands
    BY <1>3 DEF ListenAndParseRequest, TypeOK
  <2>3. CASE /\ request.kind \in {"LCD_Message_Permanent", "LCD_Message_wTimeout"}
             /\ Begin(Server, "put", request.text)
    <3>1. request.text \in Prompts \cup Notices
      BY <2>2, <2>3 DEF Commands
    <3> HIDE DEF request
    <3>2. QED
      BY <2>1, <2>3, <3>1, BeginPreserves, ServerOrCallback, IdleTexts
  <2>4. CASE Begin(Server, "default", NoText)
    BY <2>1, <2>4, BeginPreserves, ServerOrCallback
  <2>5. CASE Proceed(Server, "unlock") /\ UNCHANGED clash
    BY <2>1, <2>5, ServerMoves DEF ServerSteps, Disposed
  <2>6. CASE Proceed(Server, "check") /\ UNCHANGED clash
    BY <2>1, <2>6, ServerMoves DEF ServerSteps, Disposed
  <2>7. QED
    BY <1>3, <2>3, <2>4, <2>5, <2>6, Zenon DEF ListenAndParseRequest
<1>4. CASE OpenDoors
  BY <1>4, ServerMoves DEF OpenDoors, ServerSteps, Disposed, displayVars
<1>5. CASE Destroy
  BY <1>5, ServerMoves DEF Destroy, ServerSteps, Disposed
<1>6. QED
  BY <1>1, <1>2, <1>3, <1>4, <1>5 DEF ServerStep

LEMMA MessageTimerExpiresPreserves ==
    ASSUME DisplayInv, ThreadsTyped, MessageTimerExpires
    PROVE  DisplayInv'
<1>1. PICK c \in Callbacks : Begin(c, "clear", NoText)
  BY DEF MessageTimerExpires
<1>2. UNCHANGED <<display, idleMessage>>
  BY DEF MessageTimerExpires
<1>3. c \in Threads
  BY ServerOrCallback
<1>4. QED
  BY <1>1, <1>2, <1>3, BeginPreserves

(* A daemon that dies or is started again has no callbacks.                *)
LEMMA FreshThreads ==
    ASSUME NEW step \in {"default", "dead"},
           thread' = [t \in Threads |-> IF t = Server THEN At(step, NoText) ELSE AtRest]
    PROVE  /\ ThreadsTyped'
           /\ thread'[Server].step = step
           /\ \A c \in Callbacks : thread'[c].step = "rest"
           /\ \A t \in Threads : thread'[t].text = NoText
<1> DEFINE s == At(step, NoText)
<1>1. /\ s \in ThreadStates /\ s.step = step /\ s.text = NoText
      /\ AtRest \in ThreadStates /\ AtRest.step = "rest" /\ AtRest.text = NoText
  BY AtTyped DEF AtRest, Steps, ServerSteps, DisplaySteps
<1>2. thread' = [t \in Threads |-> IF t = Server THEN s ELSE AtRest]
  OBVIOUS
<1> HIDE DEF s
<1>3. /\ thread' \in [Threads -> ThreadStates]
      /\ \A t \in Threads : thread'[t] = IF t = Server THEN s ELSE AtRest
  BY <1>1, <1>2
<1>4. QED
  BY <1>1, <1>3, ServerOrCallback, Zenon DEF ThreadsTyped

LEMMA DiePreserves ==
    ASSUME DisplayInv, Die
    PROVE  DisplayInv'
<1>1. /\ thread'[Server].step = "dead"
      /\ \A c \in Callbacks : thread'[c].step = "rest"
      /\ \A t \in Threads : thread'[t].text = NoText
  BY FreshThreads DEF Die
<1>2. \A t \in Threads : thread'[t].step \in {"dead", "rest"}
  BY <1>1, ServerOrCallback
<1>3. Disposed'
  BY <1>1 DEF Disposed
<1>4. TextsOK'
  BY <1>1, <1>2, IdleTexts, ServerOrCallback DEF TextsOK
<1>5. NoticesAreTimed' /\ AloneOK' /\ CopyOK' /\ ContentOK'
  BY <1>2, <1>3 DEF NoticesAreTimed, AloneOK, CopyOK, ContentOK, Writing, DisplaySteps
<1>6. QED
  BY <1>4, <1>5 DEF DisplayInv

(* The server is about to show the default message and no callback is at   *)
(* the display.                                                            *)
Fresh ==
    /\ thread[Server].step = "default"
    /\ \A c \in Callbacks : thread[c].step = "rest"
    /\ \A t \in Threads : thread[t].text = NoText

(* A fresh display is in order.                                            *)
LEMMA FreshDisplay == Fresh => DisplayInv
<1> SUFFICES ASSUME Fresh PROVE DisplayInv
  OBVIOUS
<1> USE DEF Fresh
<1>1. \A t \in Threads : thread[t].step \in {"default", "rest"}
  BY ServerOrCallback
<1>2. WillErase(Server) /\ Writing(Server)
  BY DEF WillErase, Writing, DisplaySteps
<1>3. \A t \in Threads : Writing(t) => t = Server
  BY ServerOrCallback DEF Writing, DisplaySteps
<1>4. TextsOK
  BY <1>1, IdleTexts, ServerOrCallback DEF TextsOK
<1>5. NoticesAreTimed
  BY <1>2, ServerOrCallback DEF NoticesAreTimed
<1>6. AloneOK
  BY <1>3 DEF AloneOK
<1>7. CopyOK /\ ContentOK
  BY <1>1, <1>2, ServerOrCallback DEF CopyOK, ContentOK
<1>8. QED
  BY <1>4, <1>5, <1>6, <1>7 DEF DisplayInv

LEMMA RestartPreserves ==
    ASSUME Restart
    PROVE  DisplayInv'
<1>1. Fresh'
  BY FreshThreads DEF Restart, Fresh
<1>2. QED
  BY <1>1, FreshDisplay, PTL

-----------------------------------------------------------------------------
(* The door.                                                               *)

(* A thread within the functions moves no other thread.                    *)
LEMMA WriteMoves ==
    ASSUME TypeOK, ThreadsTyped, NEW t \in Threads, Write(t)
    PROVE  ThreadsTyped' /\ \A u \in Threads \ {t} : thread'[u] = thread[u]
<1>1. CASE \E step \in Steps : Proceed(t, step)
  BY <1>1, Proceeded, Zenon
<1>2. CASE Return(t)
  BY <1>2, Returned, Zenon
<1>3. CASE thread' = [thread EXCEPT ![t] =
                  At("stop", IF @.text = NoText THEN idleMessage ELSE @.text)]
  <2> DEFINE text == IF thread[t].text = NoText THEN idleMessage ELSE thread[t].text
             s == At("stop", text)
  <2>1. thread[t].text \in Texts \cup {NoText} /\ idleMessage \in Texts
    BY FieldsTyped, IdleTexts DEF ThreadsTyped, TypeOK
  <2>2. s \in ThreadStates
    BY <2>1, AtTyped DEF Steps, DisplaySteps
  <2>3. thread' = [thread EXCEPT ![t] = s]
    BY <1>3
  <2> HIDE DEF s
  <2>4. QED
    BY <2>2, <2>3, Moved, Zenon
<1>4. QED
  BY <1>1, <1>2, <1>3 DEF Write, setDefault, StopTimer, ClearDisplay, PutToLCD,
     CopyMessage, SendCharacters, StartTimer, Steps, DisplaySteps

(* The server at a step that has nothing to do with the door.              *)
LEMMA DoorUntouched ==
    ASSUME OpenDoorIsTimed, UNCHANGED <<pin, doorTimer, doorCallbacks>>,
           Alive' => Alive,
           thread[Server].step = "arm" => thread'[Server].step = "arm"
    PROVE  OpenDoorIsTimed'
BY DEF OpenDoorIsTimed

(* Whoever leaves the door open has somebody close it.                     *)
LEMMA DoorStep ==
    ASSUME TypeOK, ThreadsTyped, OpenDoorIsTimed, [Next]_vars
    PROVE  OpenDoorIsTimed'
<1> USE ServerOrCallback
<1>1. CASE UNCHANGED vars
  BY <1>1 DEF OpenDoorIsTimed, Alive, vars, doorVars
<1>2. CASE \E c \in Clients :
              \/ sendConnectionless(c)
              \/ \E command \in Commands : Request(c, command)
  BY <1>2, DoorUntouched DEF sendConnectionless, Request, doorVars, Alive
<1>3. CASE CheckTerminate \/ TimedOut
  <2>1. PICK step \in Steps : Proceed(Server, step)
    BY <1>3 DEF CheckTerminate, TimedOut, Steps, ServerSteps
  <2>2. thread[Server].step \in {"check", "listen"}
    BY <1>3 DEF CheckTerminate, TimedOut
  <2>3. UNCHANGED <<pin, doorTimer, doorCallbacks>>
    BY <1>3 DEF CheckTerminate, TimedOut, doorVars
  <2>4. QED
    BY <2>2, <2>3, DoorUntouched DEF Alive
<1>4. CASE ListenAndParseRequest
  BY <1>4, DoorUntouched DEF ListenAndParseRequest, doorVars, Alive
<1>5. CASE OpenDoors
  <2>1. CASE /\ pin' = "unlocked" /\ Proceed(Server, "arm")
    <3>1. thread'[Server].step = "arm"
      BY <2>1, Proceeded DEF Steps, ServerSteps
    <3>2. QED
      BY <3>1 DEF OpenDoorIsTimed
  <2>2. CASE doorTimer' = TRUE
    BY <2>2 DEF OpenDoorIsTimed
  <2>3. QED
    BY <1>5, <2>1, <2>2 DEF OpenDoors
<1>6. CASE Destroy
  <2>1. CASE thread[Server].step = "dispose" /\ UNCHANGED <<pin, doorTimer>>
    BY <1>6, <2>1, DoorUntouched DEF Destroy, Alive
  <2>2. CASE pin' = "locked"
    BY <2>2 DEF OpenDoorIsTimed
  <2>3. QED
    BY <1>6, <2>1, <2>2 DEF Destroy
<1>7. CASE \E t \in Threads : Write(t)
  <2>1. PICK t \in Threads : Write(t)
    BY <1>7
  <2>2. PICK step \in DisplaySteps : DisplayStep(t, step)
    BY <2>1 DEF Write, setDefault, StopTimer, ClearDisplay, PutToLCD, CopyMessage,
                       SendCharacters,
                StartTimer, DisplaySteps
  <2>3. UNCHANGED <<pin, doorTimer, doorCallbacks>>
    BY <2>2 DEF DisplayStep, doorVars
  <2>4. thread[t].step \in DisplaySteps
    BY <2>2 DEF DisplayStep
  <2>5. thread'[Server] = thread[Server] \/ thread[Server].step \in DisplaySteps
    BY <2>1, <2>4, WriteMoves
  <2>6. QED
    BY <2>3, <2>5, DoorUntouched DEF DisplaySteps, Alive
<1>8. CASE DoorTimerExpires
  <2>1. doorCallbacks' > 0
    BY <1>8 DEF DoorTimerExpires, TypeOK
  <2>2. QED
    BY <2>1 DEF OpenDoorIsTimed
<1>9. CASE closeTheDoor_timerCallback \/ Restart
  BY <1>9 DEF closeTheDoor_timerCallback, Restart, OpenDoorIsTimed
<1>10. CASE MessageTimerExpires
  <2>1. thread'[Server] = thread[Server]
    <3>1. PICK c \in Callbacks : Begin(c, "clear", NoText)
      BY <1>10 DEF MessageTimerExpires
    <3>2. QED
      BY <3>1, Begun DEF Steps, DisplaySteps
  <2>2. QED
    BY <1>10, <2>1, DoorUntouched DEF MessageTimerExpires, doorVars, Alive
<1>11. CASE SIGTERM
  BY <1>11, DoorUntouched DEF SIGTERM, doorVars, Alive
<1>12. CASE Die
  <2>1. thread'[Server].step = "dead"
    BY <1>12, FreshThreads DEF Die
  <2>2. QED
    BY <2>1 DEF OpenDoorIsTimed, Alive
<1>13. QED
  BY <1>1, <1>2, <1>3, <1>4, <1>5, <1>6, <1>7, <1>8, <1>9, <1>10, <1>11, <1>12
     DEF Next, ServerStep

-----------------------------------------------------------------------------
(* The types, and the invariant as a whole.                                *)

(* A step keeps the types: one step per action.                            *)
LEMMA TypeStep ==
    ASSUME TypeOK, TextsOK, [Next]_vars
    PROVE  TypeOK'
<1> USE ServerOrCallback, IndicatorsAssumption
<1>1. ThreadsTyped
  BY DEF TypeOK, ThreadsTyped
<1>2. /\ idleMessage \in Texts
      /\ DefaultText \in Texts
  BY IdleTexts DEF TypeOK
<1>3. CASE UNCHANGED vars
  BY <1>3 DEF TypeOK, vars, clientVars, doorVars, displayVars, processVars
<1>4. ASSUME NEW c \in Clients, NEW command \in Commands, Request(c, command)
      PROVE  TypeOK'
  <2>1. /\ sending' \in [Clients -> Commands \cup {NoCommand}]
        /\ commands' \in 0 .. MaxCommands
    BY <1>4 DEF Request, TypeOK
  <2>2. QED
    BY <1>4, <2>1 DEF Request, TypeOK, doorVars, displayVars, processVars
<1>5. ASSUME NEW c \in Clients, sendConnectionless(c)
      PROVE  TypeOK'
  <2>1. sending[c] \in Commands
    BY <1>5 DEF sendConnectionless, TypeOK
  <2>2. /\ sending' \in [Clients -> Commands \cup {NoCommand}]
        /\ queue' \in Seq(Commands) /\ Len(queue') <= QueueSize
    BY <1>5, <2>1 DEF sendConnectionless, TypeOK
  <2>3. QED
    BY <1>5, <2>2 DEF sendConnectionless, TypeOK, doorVars, displayVars, processVars
<1>6. ASSUME NEW step \in Steps, Proceed(Server, step),
             UNCHANGED <<clientVars, displayVars, processVars>>,
             pin' \in {"locked", "unlocked"}, doorTimer' \in BOOLEAN, UNCHANGED doorCallbacks
      PROVE  TypeOK'
  <2>1. ThreadsTyped'
    BY <1>1, <1>6, Proceeded
  <2>2. QED
    BY <1>6, <2>1 DEF TypeOK, ThreadsTyped, clientVars, displayVars, processVars
<1>7. CASE CheckTerminate \/ TimedOut \/ OpenDoors
  BY <1>6, <1>7 DEF CheckTerminate, TimedOut, OpenDoors, Steps, ServerSteps, doorVars, TypeOK
<1>8. CASE ListenAndParseRequest
  <2> DEFINE request == Head(queue)
  <2>1. /\ request \in Commands
        /\ queue' \in Seq(Commands) /\ Len(queue') <= QueueSize
    BY <1>8 DEF ListenAndParseRequest, TypeOK
  <2>2. request.text \in Texts \cup {NoText}
    BY <2>1 DEF Commands, Texts
  <2> HIDE DEF request
  <2>3. ThreadsTyped' /\ clash' \in BOOLEAN
    <3>1. CASE \E step \in Steps, text \in Texts \cup {NoText} : Begin(Server, step, text)
      BY <1>1, <3>1, Begun
    <3>2. CASE UNCHANGED clash /\ \E step \in Steps : Proceed(Server, step)
      BY <1>1, <3>2, Proceeded DEF TypeOK
    <3>3. QED
      BY <1>8, <2>2, <3>1, <3>2
         DEF ListenAndParseRequest, Steps, ServerSteps, DisplaySteps, request
  <2>4. QED
    BY <1>8, <2>1, <2>3 DEF ListenAndParseRequest, TypeOK, ThreadsTyped, doorVars, processVars
<1>9. CASE Destroy
  <2>1. PICK step \in Steps : Proceed(Server, step)
    BY <1>9 DEF Destroy, Steps, ServerSteps
  <2>2. ThreadsTyped'
    BY <1>1, <2>1, Proceeded
  <2>3. QED
    BY <1>9, <2>2 DEF Destroy, TypeOK, ThreadsTyped, clientVars, processVars
<1>10. ASSUME NEW t \in Threads, Write(t)
       PROVE  TypeOK'
  <2>1. ThreadsTyped'
    BY <1>1, <1>10, WriteMoves
  <2>2. UNCHANGED <<clientVars, doorVars, processVars, clash>>
    BY <1>10 DEF Write, setDefault, StopTimer, ClearDisplay, PutToLCD, CopyMessage,
                        SendCharacters,
                 StartTimer, DisplayStep
  <2>3. idleMessage' \in Prompts \cup {DefaultText} /\ messageTimer' \in BOOLEAN
    BY <1>10 DEF Write, setDefault, StopTimer, ClearDisplay, PutToLCD, CopyMessage,
                        SendCharacters,
                 StartTimer, TypeOK
  <2>4. display' \in Seq(Texts \X {1, 2})
    <3>1. CASE display' = <<>> \/ UNCHANGED display
      <4>1. display \in Seq(Texts \X {1, 2}) /\ <<>> \in Seq(Texts \X {1, 2})
        BY EmptySeq DEF TypeOK
      <4>2. QED
        BY <3>1, <4>1, Zenon
    <3>2. CASE SendCharacters(t)
      <4>1. thread[t].step \in {"first", "second"}
        BY <3>2 DEF SendCharacters, DisplayStep
      <4>2. thread[t].text \in Texts
        BY <1>1, <4>1, FieldsTyped DEF ThreadsTyped, TextsOK
      <4>3. PICK part \in {1, 2} : display' = Append(display, <<thread[t].text, part>>)
        BY <3>2 DEF SendCharacters
      <4>4. display \in Seq(Texts \X {1, 2})
        BY DEF TypeOK
      <4>5. QED
        BY <4>2, <4>3, <4>4, Appended
    <3>3. QED
      BY <1>10, <3>1, <3>2 DEF Write, setDefault, StopTimer, ClearDisplay, PutToLCD, CopyMessage,
                                      StartTimer
  <2>5. /\ sending' = sending /\ queue' = queue /\ commands' = commands
        /\ pin' = pin /\ doorTimer' = doorTimer /\ doorCallbacks' = doorCallbacks
        /\ terminate' = terminate /\ ends' = ends /\ clash' = clash
    BY <2>2 DEF clientVars, doorVars, processVars
  <2>6. QED
    BY <2>1, <2>3, <2>4, <2>5, Zenon DEF TypeOK, ThreadsTyped
<1>11. CASE DoorTimerExpires
  <2>1. doorTimer' = FALSE /\ doorCallbacks' = doorCallbacks + 1 /\ doorCallbacks \in Nat
    BY <1>11, Zenon DEF DoorTimerExpires, TypeOK
  <2>2. UNCHANGED <<clientVars, thread, pin, displayVars, processVars>>
    BY <1>11 DEF DoorTimerExpires
  <2>3. doorTimer' \in BOOLEAN /\ doorCallbacks' \in Nat
    <3>1. \A n \in Nat : n + 1 \in Nat
      OBVIOUS
    <3>2. QED
      BY <2>1, <3>1, Zenon
  <2>4. /\ sending' = sending /\ queue' = queue /\ commands' = commands
        /\ thread' = thread /\ pin' = pin /\ display' = display
        /\ idleMessage' = idleMessage /\ messageTimer' = messageTimer /\ clash' = clash
        /\ terminate' = terminate /\ ends' = ends
    BY <2>2 DEF clientVars, displayVars, processVars
  <2>5. QED
    BY <2>3, <2>4, Zenon DEF TypeOK
<1>12. CASE closeTheDoor_timerCallback
  BY <1>12 DEF closeTheDoor_timerCallback, TypeOK, clientVars, displayVars, processVars
<1>13. CASE MessageTimerExpires
  <2>1. PICK c \in Callbacks : Begin(c, "clear", NoText)
    BY <1>13 DEF MessageTimerExpires
  <2>2. ThreadsTyped' /\ clash' \in BOOLEAN
    BY <1>1, <2>1, Begun DEF Steps, DisplaySteps
  <2>3. QED
    BY <1>13, <2>2 DEF MessageTimerExpires, TypeOK, ThreadsTyped, clientVars, doorVars,
                       processVars
<1>14. CASE SIGTERM
  BY <1>14 DEF SIGTERM, Alive, TypeOK, clientVars, doorVars, displayVars
<1>15. CASE Die
  <2>1. ThreadsTyped'
    BY <1>15, FreshThreads DEF Die
  <2>2. QED
    <3>1. /\ doorTimer' = FALSE /\ doorCallbacks' \in Nat /\ messageTimer' = FALSE
          /\ UNCHANGED <<sending, queue, commands, terminate, pin, display, idleMessage, clash>>
          /\ ends' = ends + 1 /\ ends < MaxEnds
      BY <1>15 DEF Die, clientVars
    <3>2. ends' \in 0 .. MaxEnds
      BY <3>1 DEF TypeOK
    <3>3. QED
      BY <2>1, <3>1, <3>2 DEF TypeOK, ThreadsTyped
<1>16. CASE Restart
  <2>1. ThreadsTyped'
    BY <1>16, FreshThreads DEF Restart
  <2>2. QED
    <3>1. /\ sending' = [c \in Clients |-> NoCommand] /\ queue' = <<>>
          /\ terminate' = FALSE /\ pin' = "locked" /\ doorTimer' = FALSE
          /\ doorCallbacks' = 0 /\ messageTimer' = FALSE /\ clash' = FALSE
          /\ UNCHANGED <<commands, display, idleMessage, ends>>
      BY <1>16 DEF Restart
    <3>2. /\ sending' \in [Clients -> Commands \cup {NoCommand}]
          /\ queue' \in Seq(Commands) /\ Len(queue') <= QueueSize
      BY <3>1
    <3>3. QED
      BY <2>1, <3>1, <3>2 DEF TypeOK, ThreadsTyped
<1>17. QED
  BY <1>3, <1>4, <1>5, <1>7, <1>8, <1>9, <1>10, <1>11, <1>12, <1>13, <1>14, <1>15, <1>16
     DEF Next, ServerStep

(* A step keeps the display in order.                                      *)
LEMMA DisplayStepPreserves ==
    ASSUME TypeOK, ThreadsTyped, DisplayInv, [Next]_vars
    PROVE  DisplayInv'
<1>1. CASE \/ UNCHANGED vars
           \/ \E c \in Clients : \/ sendConnectionless(c)
                                 \/ \E command \in Commands : Request(c, command)
           \/ DoorTimerExpires \/ closeTheDoor_timerCallback \/ SIGTERM
  BY <1>1, Untouched DEF sendConnectionless, Request, DoorTimerExpires,
     closeTheDoor_timerCallback, SIGTERM, vars
<1>2. QED
  BY <1>1, ServerKeepsDisplayInv, WriteKeepsDisplayInv, MessageTimerExpiresPreserves,
     DiePreserves, RestartPreserves, Zenon DEF Next

-----------------------------------------------------------------------------
(* The theorems.                                                           *)

(* The inductive invariant holds in every state: the threads hold the      *)
(* texts that their steps call for, and what is open or shown for a time   *)
(* has somebody to end it.                                                 *)
THEOREM IndicatorsInvariant == Spec => []IndicatorsInv
<1>1. Init => IndicatorsInv
  <2> SUFFICES ASSUME Init PROVE IndicatorsInv
    OBVIOUS
  <2>1. /\ thread[Server] = At("default", NoText)
        /\ \A c \in Callbacks : thread[c] = AtRest
        /\ thread \in [Threads -> ThreadStates]
    BY ServerOrCallback, AtTyped DEF Init, AtRest, Steps, ServerSteps, DisplaySteps
  <2>2. Fresh
    BY <2>1, AtTyped, ServerOrCallback DEF Fresh, AtRest, At
  <2>3. TypeOK
    <3>1. /\ sending = [c \in Clients |-> NoCommand] /\ queue = <<>> /\ display = <<>>
          /\ terminate = FALSE /\ pin = "locked" /\ doorTimer = FALSE
          /\ doorCallbacks = 0 /\ messageTimer = FALSE /\ clash = FALSE
          /\ commands = 0 /\ ends = 0 /\ idleMessage = DefaultText
      BY DEF Init
    <3>2. /\ sending \in [Clients -> Commands \cup {NoCommand}]
          /\ queue \in Seq(Commands) /\ Len(queue) <= QueueSize
      BY <3>1, IndicatorsAssumption
    <3>3. commands \in 0 .. MaxCommands /\ ends \in 0 .. MaxEnds
      BY <3>1, IndicatorsAssumption
    <3>4. display \in Seq(Texts \X {1, 2})
      BY <3>1, EmptySeq, Zenon
    <3>5. /\ idleMessage \in Prompts \cup {DefaultText} /\ doorCallbacks \in Nat
          /\ {terminate, doorTimer, messageTimer, clash} \subseteq BOOLEAN
          /\ pin \in {"locked", "unlocked"}
      BY <3>1
    <3>6. QED
      BY <2>1, <3>2, <3>3, <3>4, <3>5, Zenon DEF TypeOK
  <2>4. OpenDoorIsTimed
    BY DEF Init, OpenDoorIsTimed
  <2>5. QED
    BY <2>2, <2>3, <2>4, FreshDisplay DEF IndicatorsInv
<1>2. IndicatorsInv /\ [Next]_vars => IndicatorsInv'
  <2> SUFFICES ASSUME IndicatorsInv, [Next]_vars PROVE IndicatorsInv'
    OBVIOUS
  <2>1. TypeOK /\ ThreadsTyped /\ OpenDoorIsTimed /\ DisplayInv /\ TextsOK
    BY DEF IndicatorsInv, TypeOK, ThreadsTyped, DisplayInv
  <2>2. QED
    BY <2>1, TypeStep, DoorStep, DisplayStepPreserves, Zenon DEF IndicatorsInv
<1>3. QED
  BY <1>1, <1>2, PTL DEF Spec

(* Every variable has its type; only prompts and the default message are   *)
(* ever kept as the idle message.                                          *)
THEOREM IndicatorsTypeCorrect == Spec => []TypeOK
<1>1. IndicatorsInv => TypeOK
  BY DEF IndicatorsInv
<1>2. QED
  BY <1>1, IndicatorsInvariant, PTL

(* An open door has somebody who is bound to close it, as long as the      *)
(* daemon lives.                                                           *)
THEOREM OpenDoorAlwaysTimed == Spec => []OpenDoorIsTimed
<1>1. IndicatorsInv => OpenDoorIsTimed
  BY DEF IndicatorsInv
<1>2. QED
  BY <1>1, IndicatorsInvariant, PTL

(* A display that is left alone shows no notice and, unless two threads    *)
(* have written at once, exactly the idle message.                         *)
THEOREM DisplayAlwaysSettles == Spec => []DisplaySettles
<1>1. IndicatorsInv => DisplaySettles
  <2> SUFFICES ASSUME IndicatorsInv, Quiet PROVE
                   /\ \A text \in Notices : ~Shown(text)
                   /\ ~clash => display = Whole(idleMessage)
    BY DEF DisplaySettles
  <2>1. /\ thread[Server].step \in {"check", "listen"}
        /\ \A c \in Callbacks : thread[c].step = "rest"
        /\ ~messageTimer
    BY DEF Quiet, AtRest, At
  <2>2. \A t \in Threads : thread[t].step \in {"check", "listen", "rest"}
    BY <2>1, ServerOrCallback
  <2>3. ~Disposed /\ \A t \in Threads : ~WillErase(t) /\ ~Writing(t)
    BY <2>1, <2>2 DEF Disposed, WillErase, Writing, DisplaySteps
  <2>4. \A text \in Notices : ~Shown(text)
    BY <2>1, <2>3 DEF IndicatorsInv, DisplayInv, NoticesAreTimed
  <2>5. ~clash => display = Whole(idleMessage)
    BY <2>1, <2>3 DEF IndicatorsInv, DisplayInv, ContentOK
  <2>6. QED
    BY <2>4, <2>5
<1>2. QED
  BY <1>1, IndicatorsInvariant, PTL
=============================================================================
