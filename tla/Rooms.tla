-------------------------------- MODULE Rooms --------------------------------
(***************************************************************************)
(* The messages of a booking (message.service.ts): a guest opens the room  *)
(* of the booking with a first message, both sides send texts and images,  *)
(* take a message back, and the room is deleted with all it holds.         *)
(*                                                                         *)
(* A room is looked up before it is opened (unique per booking), an image  *)
(* is uploaded before its message is created and deleted before its        *)
(* message is, and the messages of a room are deleted before the room.     *)
(***************************************************************************)
EXTENDS FiniteSets, Integers

CONSTANTS
    RoomRequests,   \* requests at once
    MaxRooms,       \* bound: rooms ever opened for the booking
    MaxMessages     \* bound: messages and uploads

ASSUME RoomsAssumption == MaxRooms \in Nat /\ MaxMessages \in Nat

VARIABLES
    room,        \* id of the booking's room, 0 for none
    opened,      \* rooms opened so far: ids 1..opened
    messages,    \* rows of Message
    sent,        \* messages and uploads so far
    attachments, \* files in the store
    talking,     \* talking[r]: where request r stands
    removed      \* a message of the room was taken back or deleted

roomVars == <<room, opened, messages, sent, attachments, talking, removed>>

None == 0
Message == [id : 1..MaxMessages, room : 1..MaxRooms, file : 0..MaxMessages]
TalkIdle == [pc |-> "idle"]
Talking ==
    [pc : {"open", "upload", "empty", "delete room"}, room : 0..MaxRooms,
     file : {None}]
    \cup [pc : {"say"}, room : 1..MaxRooms, file : 0..MaxMessages]
    \cup [pc : {"unlink", "remove"}, message : Message]

RoomsTypeOK ==
    /\ opened \in 0..MaxRooms
    /\ room \in {0, opened}
    /\ messages \subseteq Message
    /\ sent \in 0..MaxMessages
    /\ attachments \subseteq 1..sent
    /\ talking \in [RoomRequests -> Talking \cup {TalkIdle}]
    /\ removed \in BOOLEAN

RoomsInit ==
    /\ room = None /\ opened = 0
    /\ messages = {} /\ sent = 0 /\ attachments = {}
    /\ talking = [r \in RoomRequests |-> TalkIdle]
    /\ removed = FALSE

-----------------------------------------------------------------------------

Talks(r, state) == talking' = [talking EXCEPT ![r] = state]

TalkAt(pc, id, file) == [pc |-> pc, room |-> id, file |-> file]

StopsTalking(r) == Talks(r, TalkIdle)

(* The room is looked for; whoever finds one says the message there. *)
initiateMessage(r) ==
    /\ talking[r] = TalkIdle
    /\ Talks(r, IF room = None THEN TalkAt("open", None, None)
                ELSE TalkAt("say", room, None))
    /\ UNCHANGED <<room, opened, messages, sent, attachments, removed>>

\* A slip: the message is said once the room is there, by another query.
FirstLater == {}
FirstMessage == {[id |-> sent + 1, room |-> opened + 1, file |-> None]}

(* The room and its first message, in one insert; a room of another request
   fails it. *)
OpenRoom(r) ==
    /\ talking[r].pc = "open"
    /\ IF room = None
       THEN /\ opened < MaxRooms /\ sent < MaxMessages
            /\ room' = opened + 1 /\ opened' = opened + 1
            /\ messages' = messages \cup FirstMessage
            /\ sent' = sent + 1
            /\ removed' = FALSE
       ELSE UNCHANGED <<room, opened, messages, sent, removed>>
    /\ StopsTalking(r)
    /\ UNCHANGED attachments

sendMessage(r, image) ==
    /\ talking[r] = TalkIdle
    /\ room # None
    /\ Talks(r, TalkAt(IF image THEN "upload" ELSE "say", room, None))
    /\ UNCHANGED <<room, opened, messages, sent, attachments, removed>>

(* A file is sent; one that could not be stored gives a message without. *)
UploadAttachment(r) ==
    /\ talking[r].pc = "upload" /\ sent < MaxMessages
    /\ \/ /\ sent' = sent + 1
          /\ attachments' = attachments \cup {sent + 1}
          /\ Talks(r, TalkAt("say", talking[r].room, sent + 1))
       \/ /\ Talks(r, TalkAt("say", talking[r].room, None))
          /\ UNCHANGED <<sent, attachments>>
    /\ UNCHANGED <<room, opened, messages, removed>>

(* The row is created, unless the room has gone (foreign key). *)
Say(r) ==
    /\ talking[r].pc = "say" /\ sent < MaxMessages
    /\ IF talking[r].room = room
       THEN /\ sent' = sent + 1
            /\ messages' = messages \cup {[id |-> sent + 1, room |-> room,
                                           file |-> talking[r].file]}
       ELSE UNCHANGED <<sent, messages>>
    /\ StopsTalking(r)
    /\ UNCHANGED <<room, opened, attachments, removed>>

-----------------------------------------------------------------------------

removeMessage(r, m) ==
    /\ talking[r] = TalkIdle
    /\ m \in messages
    /\ Talks(r, [pc |-> IF m.file # None THEN "unlink" ELSE "remove",
                 message |-> m])
    /\ UNCHANGED <<room, opened, messages, sent, attachments, removed>>

UnlinkAttachment(r) ==
    /\ talking[r].pc = "unlink"
    /\ attachments' = attachments \ {talking[r].message.file}
    /\ Talks(r, [talking[r] EXCEPT !.pc = "remove"])
    /\ UNCHANGED <<room, opened, messages, sent, removed>>

RemoveMessage(r) ==
    /\ talking[r].pc = "remove"
    /\ messages' = messages \ {talking[r].message}
    /\ removed' = (removed \/ talking[r].message \in messages)
    /\ StopsTalking(r)
    /\ UNCHANGED <<room, opened, sent, attachments>>

deleteRoom(r) ==
    /\ talking[r] = TalkIdle
    /\ room # None
    /\ Talks(r, TalkAt("empty", room, None))
    /\ UNCHANGED <<room, opened, messages, sent, attachments, removed>>

EmptyRoom(r) ==
    /\ talking[r].pc = "empty"
    /\ messages' = {m \in messages : m.room # talking[r].room}
    /\ removed' = (removed \/ talking[r].room = room)
    /\ Talks(r, [talking[r] EXCEPT !.pc = "delete room"])
    /\ UNCHANGED <<room, opened, sent, attachments>>

(* A message said in between keeps the room (foreign key). *)
DeleteRoomRow(r) ==
    /\ talking[r].pc = "delete room"
    /\ room' = IF /\ room = talking[r].room
                  /\ \A m \in messages : m.room # room
               THEN None ELSE room
    /\ StopsTalking(r)
    /\ UNCHANGED <<opened, messages, sent, attachments, removed>>

TalkDies(r) ==
    /\ talking[r] # TalkIdle
    /\ StopsTalking(r)
    /\ UNCHANGED <<room, opened, messages, sent, attachments, removed>>

RoomsNext ==
    \E r \in RoomRequests :
        \/ initiateMessage(r) \/ OpenRoom(r)
        \/ \E image \in BOOLEAN : sendMessage(r, image)
        \/ UploadAttachment(r) \/ Say(r)
        \/ \E m \in messages : removeMessage(r, m)
        \/ UnlinkAttachment(r) \/ RemoveMessage(r)
        \/ deleteRoom(r) \/ EmptyRoom(r) \/ DeleteRoomRow(r)
        \/ TalkDies(r)

RoomsSpec == RoomsInit /\ [][RoomsNext]_roomVars

-----------------------------------------------------------------------------
(* Properties. *)

(* A room without a message (the sidebar fails on one) has lost its last to
   somebody who took it back or was deleting the room, and every message is
   in the room that is there: two who open it, or one who deletes it while
   the other writes, leave neither an empty room nor a message in none. *)
RoomsHoldMessages ==
    /\ \A m \in messages : m.room = room
    /\ room # None /\ messages = {} => removed
=============================================================================
