----------------------------- MODULE ClientInput -----------------------------
(***************************************************************************)
(* What the user's hands do to a session, and what they see of it: mouse   *)
(* buttons, keys, keyboard layouts and the pointer's image.  The client    *)
(* (client/ltsm_client.cpp) sends pointer and key events and layout        *)
(* changes; the server (librfb_x11server.cpp, the xcb wrapper's keyboard   *)
(* functions) replays them on the session's X server with the TEST         *)
(* extension.  The server sends the image of a cursor once and afterwards  *)
(* only its id; the client keeps the images and says when it has lost one. *)
(***************************************************************************)
EXTENDS Integers, Sequences, FiniteSets

CONSTANTS InLtsm,      \* {TRUE, FALSE}: whether the client speaks the LTSM keyboard and cursor encodings
          InKeymap,    \* InKeymap[keycode][group] = <<keysym, shifted keysym>>, 0 is NoSymbol
          InKeys,      \* the keys of the user: [key |-> [keycode, scancode's keysym in the table or 0]]
          InCursors,   \* the images of the session's cursor
          InEvents     \* bound: how many things the user and the session do

VARIABLES inLtsm, budget, held, keys, layout, toServer, toClient,
          mask, xkeys, group, allow, cursor, sended, cache, shown,
          clean, ptrKept, typed, cleared

inVars == <<inLtsm, budget, held, keys, layout, toServer, toClient,
            mask, xkeys, group, allow, cursor, sended, cache, shown, clean, ptrKept, typed, cleared>>

clientSide == <<held, keys, layout>>
serverKeys == <<xkeys, group, typed, clean>>
cursorSide == <<cursor, sended, cache, shown, cleared>>

Keycodes == DOMAIN InKeymap
Groups == UNION {DOMAIN InKeymap[k] : k \in Keycodes}
MinKeycode == CHOOSE k \in Keycodes : \A j \in Keycodes : k <= j
LeftButton == 1
WheelButton == 4      \* SDL_BUTTON_X1
Least(S) == CHOOSE k \in S : \A j \in S : k <= j

InInit == /\ inLtsm \in InLtsm /\ budget = InEvents
          /\ held = {} /\ keys = {} /\ layout = 0
          /\ toServer = <<>> /\ toClient = <<>>
          /\ mask = {} /\ xkeys = {} /\ group = 0 /\ allow = TRUE
          /\ cursor = 0 /\ sended = {} /\ cache = << >> /\ shown = 0
          /\ clean = TRUE /\ ptrKept = TRUE /\ typed = <<>> /\ cleared = {}

Did == budget > 0 /\ budget' = budget - 1

------------------------------------------------------------------------------
(* The client: every SDL event becomes a message on rfb_strand_. *)

PointerEvent(buttons) == [type |-> "pointer", buttons |-> buttons]

\* sdlMouseMotion: the whole state of the buttons
SdlMouseMotion ==
  /\ Did
  /\ toServer' = Append(toServer, PointerEvent(held))
  /\ UNCHANGED <<inLtsm, toClient, mask, allow, ptrKept, clientSide, serverKeys, cursorSide>>

\* sdlMouseButton: only the button that was pressed, none when one is released
FaultSdlMouseButton(b) ==
  /\ Did
  /\ held' = IF b \in held THEN held \ {b} ELSE held \cup {b}
  /\ toServer' = IF b \in held THEN toServer ELSE Append(toServer, PointerEvent({b}))
  /\ UNCHANGED <<inLtsm, keys, layout, toClient, mask, allow, ptrKept, serverKeys, cursorSide>>

SdlMouseButton(b) ==
  /\ Did
  /\ held' = IF b \in held THEN held \ {b} ELSE held \cup {b}
  /\ toServer' = Append(toServer, PointerEvent(IF b \in held THEN {} ELSE {b}))
  /\ UNCHANGED <<inLtsm, keys, layout, toClient, mask, allow, ptrKept, serverKeys, cursorSide>>

\* sdlMouseWheel: the wheel is pressed and everything is released
SdlMouseWheel ==
  /\ Did
  /\ toServer' = toServer \o <<PointerEvent({WheelButton}), PointerEvent({})>>
  /\ UNCHANGED <<inLtsm, toClient, mask, allow, ptrKept, clientSide, serverKeys, cursorSide>>

\* the keysym SDL gives a key depends on the layout in force on the client
SdlKeysym(key) == InKeymap[InKeys[key].keycode][layout][1]

\* sdlKeyboardEvent, sendKeyEventAwait
SdlKeyboardEvent(key) ==
  /\ Did
  /\ keys' = IF key \in keys THEN keys \ {key} ELSE keys \cup {key}
  /\ toServer' = Append(toServer, [type |-> "key", pressed |-> key \notin keys,
                                   keysym |-> SdlKeysym(key), key |-> key])
  /\ UNCHANGED <<inLtsm, held, layout, toClient, mask, allow, ptrKept, serverKeys, cursorSide>>

\* xcbXkbGroupChangedEvent, sendSystemKeyboardChange; another viewer only sends other keysyms
XkbGroupChanged ==
  /\ Did
  /\ \E g \in Groups \ {layout} :
       /\ layout' = g
       /\ toServer' = IF inLtsm THEN Append(toServer, [type |-> "layout", group |-> g]) ELSE toServer
  /\ UNCHANGED <<inLtsm, held, keys, toClient, mask, allow, ptrKept, serverKeys, cursorSide>>

------------------------------------------------------------------------------
(* The keyboard map of the session's X server. *)

Syms(k, g) == {InKeymap[k][g][1], InKeymap[k][g][2]}

\* keysymGroupToKeycode: the first key that has the keysym in this group; 0 is NULL_KEYCODE
KeysymGroupToKeycode(sym, g) ==
  LET have == {k \in Keycodes : g \in DOMAIN InKeymap[k] /\ sym \in Syms(k, g)}
  IN  IF have = {} THEN 0 ELSE Least(have)

\* keysymToKeycodeGroup: the first group in which a key has the keysym
KeysymToKeycodeGroup(sym) ==
  LET inGroups == {g \in Groups : KeysymGroupToKeycode(sym, g) # 0}
  IN  IF inGroups = {} THEN [keycode |-> 0, group |-> -1]
      ELSE [keycode |-> KeysymGroupToKeycode(sym, Least(inGroups)), group |-> Least(inGroups)]

\* keycodeGroupToKeysym: keycode 0 is before the table, and what is read there may be any value
KeycodeGroupToKeysyms(k, g) ==
  IF k < MinKeycode THEN UNION {Syms(j, h) : j \in Keycodes, h \in Groups} ELSE {InKeymap[k][g][1]}

\* the key's keysym by its scancode where the table has it, moved into the layout in force
KeysymsOf(m) ==
  LET x11sym == InKeys[m.key].table
      kg == KeysymToKeycodeGroup(x11sym)
      plain == IF x11sym = 0 THEN m.keysym ELSE x11sym
  IN  IF ~inLtsm THEN {m.keysym}
      ELSE IF group # kg.group THEN KeycodeGroupToKeysyms(kg.keycode, group) ELSE {plain}

\* keysymToKeycodeAuto: a keysym of another group switches the layout to it
FaultKeysymToKeycodeAuto(sym) ==
  LET kg == KeysymToKeycodeGroup(sym)
  IN  IF KeysymGroupToKeycode(sym, group) # 0
      THEN [keycode |-> KeysymGroupToKeycode(sym, group), group |-> group]
      ELSE [keycode |-> kg.keycode, group |-> group]

KeysymToKeycodeAuto(sym) ==
  LET here == KeysymGroupToKeycode(sym, group)
      kg == KeysymToKeycodeGroup(sym)
  IN  IF here # 0 THEN [keycode |-> here, group |-> group]
      ELSE [keycode |-> kg.keycode, group |-> IF kg.keycode # 0 THEN kg.group ELSE group]

------------------------------------------------------------------------------
(* The server: recvPointer, recvKeyCode and the system channel. *)

Taken(type) == /\ toServer # <<>> /\ Head(toServer).type = type
               /\ toServer' = Tail(toServer)

\* serverRecvPointerEvent: buttons of the mask are pressed, the others of pressedMask released
ServerRecvPointerEvent ==
  /\ Taken("pointer")
  /\ mask' = IF allow THEN Head(toServer).buttons ELSE mask
  /\ ptrKept' = allow
  /\ UNCHANGED <<inLtsm, budget, toClient, allow, clientSide, serverKeys, cursorSide>>

FaultServerRecvKeyEvent ==
  /\ Taken("key")
  /\ LET m == Head(toServer) IN
     IF ~allow THEN clean' = FALSE /\ UNCHANGED <<xkeys, group, typed>>
     ELSE \E sym \in KeysymsOf(m) :
            LET at == KeysymToKeycodeAuto(sym) IN
            /\ group' = at.group
            /\ xkeys' = IF at.keycode = 0 THEN xkeys ELSE xkeys \cup {at.keycode}
            /\ typed' = typed
            /\ clean' = clean
  /\ UNCHANGED <<inLtsm, budget, toClient, mask, allow, ptrKept, clientSide, cursorSide>>

\* serverRecvKeyEvent: nothing while the X server is being changed
ServerRecvKeyEvent ==
  /\ Taken("key")
  /\ LET m == Head(toServer) IN
     IF ~allow THEN clean' = FALSE /\ UNCHANGED <<xkeys, group, typed>>
     ELSE \E sym \in KeysymsOf(m) :
            LET at == KeysymToKeycodeAuto(sym) IN
            /\ group' = at.group
            /\ xkeys' = IF at.keycode = 0 THEN xkeys
                        ELSE IF m.pressed THEN xkeys \cup {at.keycode} ELSE xkeys \ {at.keycode}
            /\ typed' = <<[keycode |-> at.keycode, m |-> m, was |-> group]>>
            /\ clean' = (clean /\ Cardinality(KeysymsOf(m)) = 1)
  /\ UNCHANGED <<inLtsm, budget, toClient, mask, allow, ptrKept, clientSide, cursorSide>>

\* systemKeyboardChange: the layout of that name
SystemKeyboardChange ==
  /\ Taken("layout")
  /\ group' = IF allow THEN Head(toServer).group ELSE group
  /\ clean' = (clean /\ (xkeys = {} \/ ~allow))
  /\ UNCHANGED <<inLtsm, budget, toClient, mask, allow, ptrKept, xkeys, typed, clientSide, cursorSide>>

\* xcbDisableMessages: the connector changes from the login screen to the session
XcbAllowMessages ==
  /\ Did
  /\ allow' = ~allow
  /\ UNCHANGED <<inLtsm, toServer, toClient, mask, ptrKept, clientSide, serverKeys, cursorSide>>

------------------------------------------------------------------------------
(* The cursor. *)

\* sendEncodingLtsmCursor: the image goes only with an id that is not in cursorSended
SendEncodingLtsmCursor(id) ==
  [msg |-> [id |-> id, pixels |-> id \notin sended], sended |-> sended \cup {id}]

FaultSendEncodingRichCursor(id) == [msg |-> [id |-> id, pixels |-> TRUE], sended |-> sended \cup {id}]

\* sendEncodingRichCursor: always the image, its id is computed by the client
SendEncodingRichCursor(id) == [msg |-> [id |-> id, pixels |-> TRUE], sended |-> sended]

\* sendUpdateRichCursor: the session's cursor changed
SendUpdateRichCursor(id) ==
  /\ Did /\ id # cursor
  /\ cursor' = id
  /\ LET s == IF inLtsm THEN SendEncodingLtsmCursor(id) ELSE SendEncodingRichCursor(id)
     IN  toClient' = Append(toClient, s.msg) /\ sended' = s.sended
  /\ UNCHANGED <<inLtsm, toServer, mask, allow, ptrKept, clientSide, serverKeys, cache, shown, cleared>>

Cached == DOMAIN cache

\* recvDecodingLtsmCursorAwait, recvDecodingRichCursorAwait: an id, and its image unless the size was zero
RecvDecodingCursor == Head(toClient)

\* clientRecvLtsmCursorEvent, clientRecvRichCursorEvent: made is whether SDL could make a cursor of the
\* image; an entry without a cursor stays, and only the LTSM client says that it failed
RecvCursorEvent(made) ==
  /\ toClient # <<>>
  /\ toClient' = Tail(toClient)
  /\ LET m == RecvDecodingCursor
         failed == Append(toServer, [type |-> "cursor", id |-> m.id])
     IN  IF m.id \in Cached
         THEN /\ shown' = IF cache[m.id] THEN m.id ELSE shown
              /\ made
              /\ UNCHANGED <<cache, toServer, cleared>>
         ELSE IF ~m.pixels
         THEN /\ toServer' = failed
              /\ cleared' = cleared \ {m.id}
              /\ made
              /\ UNCHANGED <<cache, shown>>
         ELSE /\ cache' = [i \in Cached \cup {m.id} |-> IF i = m.id THEN made ELSE cache[i]]
              /\ shown' = IF made THEN m.id ELSE shown
              /\ toServer' = IF made \/ ~inLtsm THEN toServer ELSE failed
              /\ cleared' = cleared \ {m.id}
  /\ UNCHANGED <<inLtsm, budget, mask, allow, ptrKept, clientSide, serverKeys, cursor, sended>>

FaultCursorFailed ==
  /\ Taken("cursor")
  /\ UNCHANGED <<inLtsm, budget, toClient, mask, allow, ptrKept, clientSide, serverKeys, cursor, sended, cache, shown, cleared>>

\* systemCursorFailed, cursorFailed: the id will go with its image again
CursorFailed ==
  /\ Taken("cursor")
  /\ sended' = sended \ {Head(toServer).id}
  /\ UNCHANGED <<inLtsm, budget, toClient, mask, allow, ptrKept, clientSide, serverKeys, cursor, cache, shown, cleared>>

\* sdlUserEvent: a resize of the window drops every cursor
ClearCursors ==
  /\ Did /\ Cached # {}
  /\ cache' = << >> /\ cleared' = cleared \cup Cached
  /\ UNCHANGED <<inLtsm, toServer, toClient, mask, allow, ptrKept, clientSide, serverKeys, cursor, sended, shown>>

------------------------------------------------------------------------------
InNext == \/ SdlMouseMotion \/ SdlMouseWheel
          \/ \E b \in {LeftButton, 3} : SdlMouseButton(b)
          \/ \E key \in DOMAIN InKeys : SdlKeyboardEvent(key)
          \/ XkbGroupChanged
          \/ ServerRecvPointerEvent \/ ServerRecvKeyEvent \/ SystemKeyboardChange
          \/ XcbAllowMessages
          \/ \E id \in InCursors : SendUpdateRichCursor(id)
          \/ \E made \in BOOLEAN : RecvCursorEvent(made)
          \/ CursorFailed \/ ClearCursors

InSpec == InInit /\ [][InNext]_inVars

------------------------------------------------------------------------------
AtServer(type) == \E i \in 1..Len(toServer) : toServer[i].type = type

\* the buttons and keys are ones there are, and the layout one of the session's keyboard
InTypeOK ==
  /\ inLtsm \in BOOLEAN /\ budget \in 0..InEvents /\ allow \in BOOLEAN
  /\ held \subseteq {LeftButton, 3} /\ keys \subseteq DOMAIN InKeys
  /\ layout \in Groups /\ group \in Groups
  /\ mask \subseteq {LeftButton, 3, WheelButton} /\ xkeys \subseteq Keycodes
  /\ cursor \in InCursors \cup {0} /\ shown \in InCursors \cup {0}
  /\ sended \subseteq InCursors /\ Cached \subseteq InCursors /\ cleared \subseteq InCursors
  /\ ~inLtsm => sended = {}

\* serverRecvPointerEvent: when the user holds nothing and every pointer message was replayed, no button of
\* the session is pressed, whatever buttons and wheel went before (sdlMouseButton does not send the state)
InButtonsReleased ==
  (held = {} /\ ~AtServer("pointer") /\ ptrKept) => mask = {}

\* serverRecvKeyEvent: a key's press and release are translated apart, each with the layout of its moment;
\* when no layout change came in between and none was dropped, no key of the session stays down
InKeysReleased ==
  (keys = {} /\ ~AtServer("key") /\ clean) => xkeys = {}

\* serverRecvKeyEvent: the key that is pressed types, in the layout then in force, what the viewer asked for;
\* an LTSM client's key is the same key of the session when the table knows its scancode or the first layout is
\* in force (for the others see keysymToKeycodeGroup(0) in the README)
InKeyTyped ==
  typed # <<>> =>
    LET t == typed[1]
        key == InKeys[t.m.key]
    IN  IF inLtsm
        THEN (clean /\ (t.was = 0 \/ (key.table # 0 /\ KeysymToKeycodeGroup(key.table).keycode # 0)))
                => t.keycode = key.keycode
        ELSE (t.m.keysym # 0 /\ ~AtServer("layout") /\ t.keycode # 0) => t.m.keysym \in Syms(t.keycode, group)

(* The session's keyboard and mouse do what the user's do: nothing stays   *)
(* pressed, and a key means the symbol that was typed.                     *)
InReplayed == InTypeOK /\ InButtonsReleased /\ InKeysReleased /\ InKeyTyped

\* cursorSended and the client's cursors: with nothing on the way, an id the server sends without its image is
\* one the client has, or one a resize of the window dropped and nobody asked for since
InCursorKnown ==
  (inLtsm /\ toClient = <<>> /\ ~AtServer("cursor")) => sended \subseteq (Cached \cup cleared)
==============================================================================
