------------------------------- MODULE MCWire -------------------------------
(***************************************************************************)
(* Instances of Exchange and of Buffers for TLC: what documents say, or    *)
(* how long they are. Neither depends on the other.                        *)
(***************************************************************************)
EXTENDS Exchange, Buffers

CONSTANTS MaxText, MaxList   \* bounds of the length of names and lists

\* Neither leaves its initial state while the other is at work.
WireInit == Idle /\ BuffersInit

WireNext ==
  \/ last.kind = "none" /\ ExchangeNext /\ UNCHANGED buffersVars
  \/ phase = "idle" /\ BuffersNext /\ UNCHANGED exchangeVars

WireSpec == WireInit /\ [][WireNext]_<<exchangeVars, buffersVars>>

-----------------------------------------------------------------------------
(* Exchange.                                                               *)

\* Texts that client.exe is given, one with a space, one with a comma, and
\* the empty one.
SomeTexts == {<<>>, <<"a">>, <<"a", Space, "a">>, <<"a", Comma>>}

\* Lists of different names with any characters.
AnyLists ==
  {l \in BoundedSeq(BoundedSeq({"a", Comma, Space}, MaxText) \ {<<>>}, MaxList) :
     IsInjective(l)}

document(identifier, arguments) ==
  Object([command |-> identifier, arguments |-> arguments])

topicName(t) == <<"topicName", String(t)>>
news == <<"a">>

port(value) == <<"clientPort", value>>
half == Real(0, <<"0", ".", "5">>)
huge == Real(OutOfRange, <<"1", "e", "9", "9">>)

\* No JSON; no object; no command, or no arguments; a command that is no
\* number, or too large; arguments that are no object, or not those of the
\* command; one that has no text, or an empty one; a port that is no number.
Malformed ==
  {NoJson, Null, Bool(TRUE), Number(1), half, String(news), Array,
   Object([arguments |-> Null]), Object([command |-> Number(0)]),
   document(String(news), Null), document(Object(<<>>), Null),
   document(Array, Null), document(Number(OutOfRange), Null), document(huge, Null),
   document(Number(0), Number(1)), document(Number(3), Array), document(Number(4), Null),
   document(Number(3), Object(<<topicName(news)>>)),
   document(Number(2), Object(<<topicName(news)>>)),
   document(Number(4), Object(<< <<"topicName", Object(<<>>)>> >>)),
   document(Number(4), Object(<< <<"topicName", Array>> >>)),
   document(Number(4), Object(<<topicName(<<>>)>>)),
   document(Number(2), Object(<<port(String(news)), topicName(news)>>)),
   document(Number(0), Object(<<port(String(<<>>)), topicName(news)>>))}

\* As far from the format, but taken: a command that there is not, or that
\* is null, a truth value or a fraction; another name for topicName; a
\* member too many; values that are no texts.
Lenient ==
  {document(Number(7), Null), document(Number(7), Object(<<>>)),
   document(Null, Object(<<port(String(decimal(1))), topicName(news)>>)),
   document(Bool(TRUE), Object(<<port(Number(1)), topicName(news)>>)),
   document(half, Object(<<port(half), topicName(news)>>)),
   document(Real(4, <<"4", ".", "2">>), Object(<< <<"name", String(news)>> >>)),
   document(Number(2), Object(<< <<"message", Null>>, <<"message", Bool(TRUE)>>,
                                 <<"topicName", half>> >>)),
   Object([command |-> Number(3), arguments |-> Null, version |-> Array])}

\* A port that is no number meets the format, and is refused as well; one
\* with a space before it, or with something behind it, is taken.
Ports ==
  {document(Number(1), Object(<<port(String(text)), topicName(news)>>)) :
     text \in {news, <<"-", Space, "1">>, <<Space, "-", "1">>, <<"1", "a">>}}

Strange == Malformed \cup Lenient \cup Ports

-----------------------------------------------------------------------------
(* Buffers.                                                                *)

size(p, q, w) == [plain |-> p, quoted |-> q, wide |-> w]

\* The longest topic name that can be subscribed to (1985 bytes), the
\* longest message for a name of one byte (1992: it fills the buffers of
\* server and client to the last byte), one byte less and one more, and a
\* name and a message of 1700 characters together; then some with quotes
\* or characters outside ASCII, which fill a buffer earlier.
Sizes ==
  {size(n, 0, 0) : n \in {1, 8, 9, 700, 1000, 1699, 1985, 1986, 1991, 1992, 1993}}
    \cup {size(0, 996, 0), size(0, 996, 1), size(0, 0, 332), size(1, 0, 332)}

\* As many topics as the README promises, with names up to the limit and one
\* byte longer; and the longest name.
ManyTopics ==
  {[n \in 1..k |-> size(p, 0, 0)] : k \in {0, 1, 31, 32}, p \in {61, 62, 63, 1985}}
=============================================================================
