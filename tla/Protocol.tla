------------------------------ MODULE Protocol -------------------------------
(***************************************************************************)
(* usb2ble_proto: how a line of the console becomes a command, and how     *)
(* many bytes a response takes.  A line is kept as the words between its   *)
(* bars, with its length in bytes and whether it is terminated and UTF-8.  *)
(***************************************************************************)
EXTENDS Naturals, Sequences

MAX_FRAME_LEN == 96

PlainCommands == {"GET_INFO", "GET_STATUS", "GET_PROFILE", "REBOOT", "FORGET_BONDS"}

Commands == PlainCommands \cup {"SET_PROFILE"}

FrameErrors == {"Empty", "TooLong", "MissingTerminator", "InvalidUtf8",
                "UnknownCommand", "InvalidFormat", "UnsupportedProfile"}

V1_PROFILE_NAME == "t16000m_v1"

(* A line: its words are never none, since splitting leaves at least one.  *)
Frame(Word) == [len : Nat, ended : BOOLEAN, utf8 : BOOLEAN, words : Seq(Word) \ {<<>>}]

(* What is behind the first bar is one word, and which. *)
Argument(frame, word) == Len(frame.words) = 2 /\ frame.words[2] = word

(* Defective variant: more bars behind the profile are not looked for. *)
NamesV1Somewhere(frame) == frame.words[2] = V1_PROFILE_NAME

NamesV1(frame) == Argument(frame, V1_PROFILE_NAME)

Malformed(frame) == Len(frame.words) > 2 \/ Argument(frame, "")

(* The command of a text, or the error, by its first word and the rest. *)
DecodeText(frame) ==
    LET token == frame.words[1]
        alone == Len(frame.words) = 1
    IN  CASE token \in PlainCommands ->
               IF alone THEN token ELSE "InvalidFormat"
          [] token = "SET_PROFILE" ->
               IF alone THEN "InvalidFormat"
               ELSE IF NamesV1(frame) THEN "SET_PROFILE"
               ELSE IF Malformed(frame) THEN "InvalidFormat" ELSE "UnsupportedProfile"
          [] OTHER -> "UnknownCommand"

(* decode_command, with its checks in order. *)
DecodeCommand(frame) ==
    IF frame.len = 0 THEN "Empty"
    ELSE IF frame.len > MAX_FRAME_LEN THEN "TooLong"
    ELSE IF ~frame.ended THEN "MissingTerminator"
    ELSE IF ~frame.utf8 THEN "InvalidUtf8"
    ELSE DecodeText(frame)

-----------------------------------------------------------------------------
(* Responses.  There is one profile, which is always the active one. *)

Links == {"Idle", "Advertising", "Connected"}

ErrorCodes == {"UnsupportedProfile", "InvalidRequest", "Internal"}

Responses ==
    [kind : {"Info", "Profile", "Ack"}]
      \cup [kind : {"Status"}, link : Links, bonds : BOOLEAN]
      \cup [kind : {"Error"}, code : ErrorCodes]

(* Lengths of the strings a response is put together from: the version is  *)
(* two numbers of one digit with a bar between them, a flag is a digit.    *)
VersionLen == 3
FirmwareLen == 10
ProfileLen == 10
PersonaLen == 22
FlagLen == 1
LinkLen == [Idle |-> 4, Advertising |-> 11, Connected |-> 9]
ErrorLen == [UnsupportedProfile |-> 19, InvalidRequest |-> 15, Internal |-> 8]

(* encode_response: tag, fields behind bars, terminator. *)
EncodedLen(response) ==
    CASE response.kind = "Info" ->
           5 + FirmwareLen + 1 + VersionLen + 1 + ProfileLen + 1 + PersonaLen + 1
      [] response.kind = "Status" ->
           7 + ProfileLen + 1 + PersonaLen + 1 + LinkLen[response.link]
             + 1 + FlagLen + 1
      [] response.kind = "Profile" -> 8 + ProfileLen + 1
      [] response.kind = "Ack" -> 4
      [] response.kind = "Error" -> 6 + ErrorLen[response.code] + 1

(* FrameWriter::finish *)
Encodes(response) == EncodedLen(response) <= MAX_FRAME_LEN

-----------------------------------------------------------------------------
(* The text of each command as the README lists them. *)
Spelling(command) ==
    IF command = "SET_PROFILE" THEN <<command, V1_PROFILE_NAME>> ELSE <<command>>
=============================================================================
