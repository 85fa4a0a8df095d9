------------------------------ MODULE TpMessage ------------------------------
(***************************************************************************)
(* A TP message from CreateMessage to the handlers: sizes are checked, the *)
(* topic and the data are laid out as bytes, and every channel reader      *)
(* parses the bytes back and compares topics.                              *)
(*                                                                         *)
(* A topic is a sequence of characters, none of them NUL (CreateMessage    *)
(* takes a C string); the data of a message may look like a topic.         *)
(* The reader generation, 8 bytes that no code changes, is one element.    *)
(* Sizes are 32 bits wide: where the size of a message wraps, it is laid   *)
(* out past the end of the memory it has, and cut where that ends.         *)
(***************************************************************************)
EXTENDS Integers, Sequences, SequencesExt

CONSTANTS
    Characters,     \* of which topics are made, none of them NUL
    Topics,         \* the topics there are
    Lens,           \* msgLen, a size_t
    MaxMessageSize, \* GetMaxMessageSize()
    Word            \* how many values a uint32_t has

ASSUME MessageAssumption ==
    /\ Lens \subseteq Nat \ {0}                 \* assert of CreateMessage
    /\ MaxMessageSize \in Nat /\ Word \in Nat \ {0}
    /\ Topics \subseteq Seq(Characters) /\ "NUL" \notin Characters

VARIABLES
    stage,      \* "start", "created", "posted", "read", "thrown"; "aborted",
                \* "readAborted": by an assertion of Post, of a reader;
                \* "undefined": past the end of memory, not followed further
    args,       \* what the application asked for
    bytes,      \* rbMsg, of which there is no more than size
    size,       \* topicMsgLen
    called      \* the handlers that were called, and with what data

messageVars == <<stage, args, bytes, size, called>>

ChannelReaders == [name : Topics, descendants : BOOLEAN]

NoArgs == [name |-> <<>>, len |-> 0, descendants |-> FALSE]

MessageInit ==
    /\ stage = "start" /\ args = NoArgs
    /\ bytes = <<>> /\ size = 0
    /\ called = {}

------------------------------------------------------------------------------
(* The data of a message; any bytes, zeros too.                            *)
Data(n) == [i \in 1 .. n |-> IF i % 2 = 1 THEN "/" ELSE "NUL"]

(* Mutant: the terminating zero of the topic is not counted.               *)
SizeOfNoNul(name, dataLen) == (8 + 1 + Len(name) + dataLen) % Word

(* dataLen and the result are 32 bits wide.                                *)
SizeOf(name, dataLen) == (8 + 1 + (Len(name) + 1) + (dataLen % Word)) % Word

(* What SizeOf wraps to leaves no room for what Serialize writes.          *)
Overruns(name, dataLen) == 8 + 1 + (Len(name) + 1) + (dataLen % Word) >= Word

Serialize(gen, pd, name, dataLen) ==
    <<gen, IF pd THEN "1" ELSE "0">> \o name \o <<"NUL">> \o Data(dataLen % Word)

(* The part of n bytes, of which the generation is 8.                      *)
FirstBytes(b, n) == SubSeq(b, 1, n - 7)

(* CreateMessage: throws if the message is too big.  Serialize writes past *)
(* the n bytes allocated where their number has wrapped: the process ends  *)
(* or is corrupted, or goes on with what the n bytes hold.                 *)
CreateMessage(name, len, pd) ==
    /\ stage = "start"
    /\ args' = [name |-> name, len |-> len, descendants |-> pd]
    /\ IF SizeOf(name, len) > MaxMessageSize
       THEN stage' = "thrown" /\ UNCHANGED <<bytes, size>>
       ELSE \/ /\ stage' = "created"
               /\ size' = SizeOf(name, len)
               /\ bytes' = FirstBytes(Serialize("gen", pd, name, len), SizeOf(name, len))
            \/ /\ Overruns(name, len)
               /\ stage' = "undefined"
               /\ UNCHANGED <<bytes, size>>
    /\ UNCHANGED called

(* Post asserts that the message fits once more.                           *)
Post ==
    /\ stage = "created"
    /\ stage' = IF size < MaxMessageSize THEN "posted" ELSE "aborted"
    /\ UNCHANGED <<args, bytes, size, called>>

(* The index of the zero that ends the topic.                              *)
TopicEnd == CHOOSE i \in 3 .. Len(bytes) : bytes[i] = "NUL" /\ "NUL" \notin ToSet(SubSeq(bytes, 3, i - 1))

(* How many characters two topics have in common, by comparing them one by *)
(* one.                                                                    *)
CommonLength(a, b) ==
    LET mlen == IF Len(a) < Len(b) THEN Len(a) ELSE Len(b)
    IN  CHOOSE n \in 0 .. mlen :
            /\ \A i \in 1 .. n : a[i] = b[i]
            /\ n < mlen => a[n + 1] # b[n + 1]

(* Mutant: the flags of reader and writer are mixed up.                    *)
TopicMatchesSwapped(reader, hd, writer, pd) ==
    LET clen == CommonLength(reader, writer)
    IN  \/ clen = Len(reader) /\ clen = Len(writer)
        \/ hd /\ clen = Len(writer)
        \/ pd /\ clen = Len(reader)

TopicMatches(reader, hd, writer, pd) ==
    LET clen == CommonLength(reader, writer)
    IN  \/ clen = Len(reader) /\ clen = Len(writer)
        \/ pd /\ clen = Len(writer)
        \/ hd /\ clen = Len(reader)

(* Of a message that arrived, what follows its topic.                      *)
Topic == SubSeq(bytes, 3, TopicEnd - 1)
Payload == SubSeq(bytes, TopicEnd + 1, Len(bytes))

(* ReadRmp gives a copy of the bytes to every channel reader, whose        *)
(* handler is called with the data if the topics match.  It asserts that   *)
(* there is room for an empty topic; where no zero ends the topic, strlen  *)
(* reads past the end.                                                     *)
DeserializeAndFilter ==
    /\ stage = "posted"
    /\ \/ /\ size < SizeOf(<<>>, 0)
          /\ stage' = "readAborted"
          /\ UNCHANGED called
       \/ /\ size >= SizeOf(<<>>, 0)
          /\ \A i \in 3 .. Len(bytes) : bytes[i] # "NUL"
          /\ stage' = "undefined"
          /\ UNCHANGED called
       \/ /\ size >= SizeOf(<<>>, 0)
          /\ \E i \in 3 .. Len(bytes) : bytes[i] = "NUL"
          /\ stage' = "read"
          /\ called' = {[reader |-> r, data |-> Payload] :
                          r \in {r \in ChannelReaders :
                                  TopicMatches(r.name, r.descendants, Topic, bytes[2] = "1")}}
    /\ UNCHANGED <<args, bytes, size>>

MessageNext ==
    \/ \E name \in Topics, len \in Lens, pd \in BOOLEAN : CreateMessage(name, len, pd)
    \/ Post
    \/ DeserializeAndFilter

MessageSpec == MessageInit /\ [][MessageNext]_messageVars

------------------------------------------------------------------------------
(* The size of the message asked for, as a number.                         *)
WholeSize == 8 + 1 + (Len(args.name) + 1) + args.len

(* Exactly the handlers whose topic is the topic of the message, or is     *)
(* reached from it by one of the two descendant flags, are called, and     *)
(* with the data that was posted: what Serialize writes is what            *)
(* DeserializeAndFilter finds, for every topic and flag, whenever the size *)
(* of the whole message has 32 bits.                                       *)
Delivered ==
    stage = "read" /\ WholeSize < Word =>
        called = {[reader |-> r, data |-> Data(args.len)] :
                    r \in {r \in ChannelReaders :
                            \/ r.name = args.name
                            \/ args.descendants /\ IsPrefix(args.name, r.name)
                            \/ r.descendants /\ IsPrefix(r.name, args.name)}}

(* The two size checks (asyncWriter.hpp:119 and 138), of sizes of 32 bits: *)
(* CreateMessage throws for exactly the messages that do not fit, and the  *)
(* assertion of Post fails at one size only, that of the largest.  Nothing *)
(* is then written or read past the end of the message.                    *)
SizesChecked ==
    WholeSize < Word =>
        /\ stage = "thrown" => WholeSize > MaxMessageSize
        /\ stage \in {"created", "aborted", "posted", "read"} => WholeSize <= MaxMessageSize
        /\ stage \in {"posted", "read"} => WholeSize < MaxMessageSize
        /\ stage = "aborted" => WholeSize = MaxMessageSize
        /\ stage \notin {"undefined", "readAborted"}

------------------------------------------------------------------------------
(* What the documentation says and the code does not do.                   *)

(* "posting to channel /a, then readers of /a/'*' will also get the        *)
(* message", "reader listens for topic /a, receive also messages for       *)
(* topics /a/'*'": the topics of a handler that is called and of the       *)
(* message are equal, or one is below the other in the hierarchy.          *)
Below(a, b) ==
    IF a[Len(a)] = "/" THEN IsPrefix(a, b) ELSE IsPrefix(a \o <<"/">>, b)

OnlyDescendants ==
    \A c \in called :
        \/ c.reader.name = args.name
        \/ Below(args.name, c.reader.name)
        \/ Below(c.reader.name, args.name)

(* CreateMessage: "Throws if message data is too big".                     *)
TooBigThrows ==
    stage \in {"created", "posted", "read"} => WholeSize <= MaxMessageSize

(* Post takes what CreateMessage returned: its assertion does not fail.    *)
CreatedCanBePosted == stage # "aborted"
==============================================================================
