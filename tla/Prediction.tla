----------------------------- MODULE Prediction -----------------------------
(***************************************************************************)
(* Local echo (src/session.rs: PredictionState, predict_input,             *)
(* retire_predictions, set_prediction): guesses of what the shell will     *)
(* echo, laid over the display until the server's echo ack covers them.    *)
(*                                                                         *)
(* Of the sender it keeps the numbering: each send of anything new, an     *)
(* empty ack included, takes the next number, and stands for everything    *)
(* typed so far (SspLink proves this of the real queue).  A character is   *)
(* the count of what had been typed before it.  The display is how much    *)
(* of the typing it shows, and its cursor.                                 *)
(***************************************************************************)
EXTENDS Integers, Sequences, FiniteSets, SequencesExt

CONSTANTS
  Sizes,             \* << columns, rows >> of the screen
  PASTE_THRESHOLD,   \* longer bursts are never predicted
  MaxBurst,          \* bound on the length of a burst
  MaxTyped,          \* bound on what is typed
  MaxNum             \* bound on the state numbers

ASSUME PredictionAssumption ==
  /\ Sizes \subseteq (Nat \ {0, 1}) \X (Nat \ {0, 1}) /\ PASTE_THRESHOLD \in Nat
  /\ MaxBurst \in Nat /\ MaxTyped \in Nat /\ MaxNum \in Nat

Bytes == {"print", "return", "erase", "other"}
Bursts == UNION {[1 .. n -> Bytes] : n \in 1 .. MaxBurst}
Positions(size) == (0 .. size[1] - 1) \X (0 .. size[2] - 1)      \* column, row
None == << >>

VARIABLES
  typed,     \* how many bytes were pushed on the user stream
  content,   \* sent number -> how many bytes it stands for
  enabled,
  cells,     \* cells and frames: [at, frame], and as history key and origin
  cursor,    \* the shadow cursor, or None
  display,   \* [shown, cursor, size]
  echo_ack,  \* of the newest host state
  loop       \* "idle", or "fed": the bytes have landed

predictionVars == << enabled, cells, cursor >>
vars == << typed, content, predictionVars, display, echo_ack, loop >>

Init ==
  /\ typed = 0
  /\ content = [n \in {0} |-> 0]
  /\ enabled \in BOOLEAN
  /\ cells = << >> /\ cursor = None
  /\ display \in [shown : {0}, cursor : {<< 0, 0 >>}, size : Sizes]
  /\ echo_ack = 0
  /\ loop = "idle"

sent_state_last == Cardinality(DOMAIN content) - 1

-----------------------------------------------------------------------------
\* One byte of PredictionState::feed.  p is [cells, cursor, over], where over
\* says that the burst has stopped being predictable.
FeedByte(p, byte, cell) ==
  LET col  == p.cursor[1]
      row  == p.cursor[2]
      cols == display.size[1]
      rows == display.size[2]
  IN  IF p.over THEN p
      ELSE CASE byte = "return" ->
                  [p EXCEPT !.cursor = << 0, Min({row + 1, rows - 1}) >>]
             [] byte = "erase" /\ p.cells # << >> ->
                  [p EXCEPT !.cursor = Last(p.cells).at, !.cells = Front(@)]
             [] byte = "print" /\ col < cols - 1 ->
                  [p EXCEPT !.cursor = << col + 1, row >>,
                            !.cells = Append(@, [cell EXCEPT !.at = p.cursor])]
             [] byte = "other" -> [p EXCEPT !.over = TRUE]
             [] OTHER -> p

\* As history a cell keeps its key and, if it starts a run with nothing left
\* to be echoed, where the display's cursor was.
feed(p, frame, burst) ==
  LET fresh(i) == i = 1 /\ cells = << >> /\ display.shown = typed
      cell(i) == [at |-> None, frame |-> frame, key |-> typed + i,
                  origin |-> IF fresh(i) THEN display.cursor ELSE None]
      after[i \in 0 .. Len(burst)] ==
        IF i = 0 THEN p ELSE FeedByte(after[i - 1], burst[i], cell(i))
  IN  after[Len(burst)]

\* Mutant: the tag is one too many.
OneTooMany == sent_state_last + 2

\* The number that the next send will take.
Frame == sent_state_last + 1

predict_input(burst) ==
  IF Len(burst) > PASTE_THRESHOLD \/ ~ enabled
    THEN UNCHANGED << cells, cursor >>
    ELSE LET start == IF cursor = None THEN display.cursor ELSE cursor
             p == feed([cells |-> cells, cursor |-> start, over |-> FALSE], Frame, burst)
         IN  cells' = p.cells /\ cursor' = p.cursor

\* An Input command: pushed on the stream, then predicted.
Input(burst) ==
  /\ loop = "idle" /\ typed + Len(burst) <= MaxTyped
  /\ typed' = typed + Len(burst)
  /\ predict_input(burst)
  /\ UNCHANGED << content, enabled, display, echo_ack, loop >>

\* A tick that sends under a new number.
Send ==
  /\ loop = "idle" /\ sent_state_last < MaxNum
  /\ content' = [n \in 0 .. sent_state_last + 1 |->
                   IF n \in DOMAIN content THEN content[n] ELSE typed]
  /\ UNCHANGED << typed, predictionVars, display, echo_ack, loop >>

\* confirmed_prefix_len: partition_point over frames, which never decrease.
confirmed_prefix_len(ack) == Cardinality({i \in DOMAIN cells : cells[i].frame <= ack})

Retired(ack) == SubSeq(cells, confirmed_prefix_len(ack) + 1, Len(cells))

\* Mutant: guesses are retired before the bytes land.
RetireFirst(ack, shown, size, position) ==
  /\ loop = "idle"
  /\ ack \in echo_ack .. sent_state_last
  /\ shown \in content[ack] .. content[sent_state_last] /\ shown >= display.shown
  /\ cells' = Retired(ack)
  /\ echo_ack' = ack
  /\ loop' = "fed"
  /\ UNCHANGED << typed, content, enabled, cursor, display >>

\* A newest host state, up to its bytes on the display.  The server, external,
\* acknowledges an echo no sooner than its screen has it.
Feed(ack, shown, size, position) ==
  /\ loop = "idle"
  /\ ack \in echo_ack .. sent_state_last
  /\ shown \in content[ack] .. content[sent_state_last] /\ shown >= display.shown
  /\ display' = [shown |-> shown, cursor |-> position, size |-> size]
  /\ echo_ack' = ack
  /\ loop' = "fed"
  /\ UNCHANGED << typed, content, predictionVars >>

\* retire_predictions, under the overlay's own lock.
retire_predictions ==
  /\ loop = "fed"
  /\ cells' = Retired(echo_ack)
  /\ loop' = "idle"
  /\ UNCHANGED << typed, content, enabled, cursor, display, echo_ack >>

\* The embedder resizes the engine, at any time; where that leaves the cursor is
\* the engine's affair.
resize(size, position) ==
  /\ size # display.size
  /\ display' = [display EXCEPT !.size = size, !.cursor = position]
  /\ UNCHANGED << typed, content, predictionVars, echo_ack, loop >>

clear == cells' = << >> /\ cursor' = None

\* The embedder switches predictions on or off, at any time.
set_prediction(on) ==
  /\ enabled' = on
  /\ IF on THEN UNCHANGED << cells, cursor >> ELSE clear
  /\ UNCHANGED << typed, content, display, echo_ack, loop >>

Next ==
  \/ \E burst \in Bursts : Input(burst)
  \/ Send
  \/ \E ack \in 0 .. MaxNum, shown \in 0 .. MaxTyped, size \in Sizes :
       \E position \in Positions(size) : Feed(ack, shown, size, position)
  \/ \E size \in Sizes : \E position \in Positions(size) : resize(size, position)
  \/ retire_predictions
  \/ \E on \in BOOLEAN : set_prediction(on)

Spec == Init /\ [][Next]_vars

-----------------------------------------------------------------------------
\* NoGuessOutlivesEcho: whenever handle_datagram has returned, nothing that the
\* server has echoed is still shown as a guess, whichever bursts, sends and
\* retractions the typing was cut into.
NoGuessOutlivesEcho ==
  loop = "idle" => \A i \in DOMAIN cells : cells[i].key > content[echo_ack]

\* NoEmptySlot: the loop drops a guess only when the display shows the
\* character, so no reader finds neither ("never an empty slot where the guess
\* used to be").
NoEmptySlot ==
  [][loop' # loop =>
       \A i \in DOMAIN cells :
         cells[i] \in Range(cells') \/ cells[i].key <= display'.shown]_vars

\* FreshRunAtCursor: the comment in predict_input - "a fresh guess run starts
\* where the engine cursor sits".
FreshRunAtCursor ==
  \A i \in DOMAIN cells : cells[i].origin \in {None, cells[i].at}
=============================================================================
