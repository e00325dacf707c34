----------------------------- MODULE Corkboard -----------------------------
(***************************************************************************)
(* The evidence board of one case in one browser (stores/boardStore.ts,    *)
(* components/board/CorkboardCanvas.tsx): edits of the officer go to the   *)
(* local layout at once, a debounced flush puts the layout on the server,  *)
(* and the answer of a flush or of a load replaces what is local.  Calls   *)
(* overlap: they are served and answered in any order, or fail.            *)
(***************************************************************************)
EXTENDS Naturals

CONSTANTS
  Card,
  Pinned, \* those of pinned FIRs and suspects, whose pins stand
  Call    \* the calls that can be in flight at once

VARIABLES
  local,  \* layoutByCase and dismissedByCase of the case
  timer,  \* _flushTimers has a timer for the case
  call,   \* the calls in flight
  server  \* case_board_layout

vars == <<local, timer, call, server>>

Board == [cards : SUBSET Card, dismissed : SUBSET Card]
Idle == [kind |-> "none"]

\* deriveBoardCards: what is placed, and the pins that are neither placed nor
\* dismissed.
Shown(b) == b.cards \cup (Pinned \ b.dismissed)

\* The board was opened and loaded before.
Init ==
  /\ \E b \in Board :
       /\ b.cards \cap b.dismissed = {}
       /\ b.dismissed \subseteq Pinned
       /\ local = b
       /\ server = b
  /\ timer = FALSE
  /\ call = [i \in Call |-> Idle]

Loading == \E i \in Call : call[i].kind = "get"

-----------------------------------------------------------------------------
(* Edits, each followed by persistLayout, which restarts the timer         *)

Edit(b) == local' = b /\ timer' = TRUE /\ UNCHANGED <<call, server>>

\* A new note, or a shown card that is dragged, linked or resized.
Place(c) ==
  /\ c \in Shown(local) \cup (Card \ Pinned)
  /\ Edit([local EXCEPT !.cards = @ \cup {c}])

\* removeCard: a note or a photo.
Remove(c) ==
  /\ c \in local.cards \ Pinned
  /\ Edit([local EXCEPT !.cards = @ \ {c}])

\* dismissCard: a FIR or a suspect.
Dismiss(c) ==
  /\ c \in Shown(local) \cap Pinned
  /\ Edit([cards |-> local.cards \ {c}, dismissed |-> local.dismissed \cup {c}])

\* The effect of CorkboardCanvas that writes a derived card into the layout.
Materialize ==
  /\ ~ Loading
  /\ Shown(local) # local.cards
  /\ Edit([local EXCEPT !.cards = Shown(local)])

-----------------------------------------------------------------------------
(* Calls                                                                   *)

Sent(kind, b) ==
  \E i \in Call :
    /\ call[i] = Idle
    /\ call' = [call EXCEPT ![i] = [kind |-> kind, board |-> b, served |-> FALSE]]

\* The timer of persistLayout fires.
Flush ==
  /\ timer
  /\ Sent("put", local)
  /\ timer' = FALSE
  /\ UNCHANGED <<local, server>>

\* The workspace or the board page is mounted: loadCase, fetchLayout.
Open ==
  /\ ~ Loading
  /\ Sent("get", local)
  /\ UNCHANGED <<local, timer, server>>

\* put_case_board_layout replaces the document and answers with it,
\* get_case_board_layout answers with what it finds.
Serve(i) ==
  /\ call[i] # Idle /\ ~ call[i].served
  /\ server' = IF call[i].kind = "put" THEN call[i].board ELSE server
  /\ call' = [call EXCEPT ![i] = [@ EXCEPT !.board = server', !.served = TRUE]]
  /\ UNCHANGED <<local, timer>>

\* The layout and the dismissals are those of the answer.
Answer(i) ==
  /\ call[i] # Idle /\ call[i].served
  /\ local' = call[i].board
  /\ call' = [call EXCEPT ![i] = Idle]
  /\ UNCHANGED <<timer, server>>

\* The local layout stays; the next edit flushes it again.
CallFails(i) ==
  /\ call[i] # Idle
  /\ call' = [call EXCEPT ![i] = Idle]
  /\ UNCHANGED <<local, timer, server>>

Next ==
  \/ \E c \in Card : Place(c) \/ Remove(c) \/ Dismiss(c)
  \/ Materialize
  \/ Flush
  \/ Open
  \/ \E i \in Call : Serve(i) \/ Answer(i) \/ CallFails(i)

Spec == Init /\ [][Next]_vars

-----------------------------------------------------------------------------
\* A removed FIR or suspect "stays off the board even though the pin still
\* stands": no step brings a dismissed card back (deleteCard, dismissCard).
DismissalSticks ==
  [][\A c \in local.dismissed : c \notin Shown(local) => c \notin Shown(local')]_vars
=============================================================================
