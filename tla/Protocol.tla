------------------------------ MODULE Protocol ------------------------------
(***************************************************************************)
(* What travels between client and server: the classes Command, Response   *)
(* and Message as operators that encode to and decode from JSON values     *)
(* (src/shared), the switch of handleApproachingClient between them, and   *)
(* logResponse. A text is a sequence of characters; a number written as a  *)
(* text has one digit here. Decoding yields a value, or an exception of    *)
(* some C++ type.                                                          *)
(***************************************************************************)
EXTENDS ArrayNotation

CONSTANTS
  Digit,       \* numbers: ports and timestamps
  OutOfRange,  \* a number that no int can hold
  Unset        \* what a statusCode that was never set may be

ASSUME ProtocolAssumption ==
  Digit \subseteq 0..9 /\ OutOfRange \notin Int /\ Unset \subseteq Int

-----------------------------------------------------------------------------
(* Enumerations, and the dictionaries of the two sides.                    *)

CommandIdentifier ==
  [subscribe |-> 0, unsubscribe |-> 1, publish |-> 2, listTopics |-> 3,
   getTopicStatus |-> 4]

Statuscode == [success |-> 0, failed |-> 1, invalidParameter |-> 2, internalError |-> 3]

CommunicationParameters ==
  {"topicName", "clientPort", "message", "topics", "messageTimestamp", "subscribers"}

\* A map yields an empty vector for a key that it does not have.
commandDictionary(identifier) ==
  CASE identifier \in {0, 1} -> {"topicName", "clientPort"}
    [] identifier = 2        -> {"topicName", "message"}
    [] identifier = 4        -> {"topicName"}
    [] OTHER                 -> {}

responseDictionary(identifier) ==
  CASE identifier = 3 -> {"topics"}
    [] identifier = 4 -> {"messageTimestamp", "subscribers"}
    [] OTHER          -> {}

\* A plausible bug of the next one: an entry is missing.
parameterNamedShort(key) ==
  IF key \in CommunicationParameters \ {"message"} THEN key ELSE "topicName"

\* A key that the map does not have is taken for the enumerator 0.
parameterNamed(key) ==
  IF key \in CommunicationParameters THEN key ELSE "topicName"

-----------------------------------------------------------------------------
(* JSON values, and what jsoncpp converts them to.                         *)

Null == [type |-> "null"]
Bool(b) == [type |-> "boolean", truth |-> b]
Number(n) == [type |-> "int", number |-> n]
\* Its integer part, or OutOfRange, and how it is written.
Real(n, t) == [type |-> "real", number |-> n, text |-> t]
String(t) == [type |-> "string", text |-> t]
\* Its members: a record, or a sequence of names and values in their order.
Object(m) == [type |-> "object", members |-> m]
Array == [type |-> "array"]   \* whatever is in it
NoJson == [type |-> "none"]

Throw(exception) == [throws |-> exception]
throws(result) == "throws" \in DOMAIN result

decimal(n) == <<ToString(n)>>

\* std::to_string: different numbers are written differently.
ASSUME DecimalAssumption ==
  \A m, n \in Digit : decimal(m) = decimal(n) => m = n

\* asString and asInt of what can be converted. Other values throw a
\* Json::LogicError, which is an exception, but no runtime_error.
isScalar(v) == v.type \notin {"object", "array"}
asString(v) ==
  CASE v.type = "null"    -> <<>>
    [] v.type = "boolean" -> IF v.truth THEN <<"t", "r", "u", "e">>
                             ELSE <<"f", "a", "l", "s", "e">>
    [] v.type = "int"     -> decimal(v.number)
    [] v.type \in {"real", "string"} -> v.text
isInt(v) ==
  \/ v.type \in {"null", "boolean"}
  \/ v.type \in {"int", "real"} /\ v.number # OutOfRange
asInt(v) ==
  CASE v.type = "null"    -> 0
    [] v.type = "boolean" -> IF v.truth THEN 1 ELSE 0
    [] OTHER              -> v.number

\* What stoi and stoll convert: digits, behind spaces and a sign, whatever
\* comes after them.
isNumeral(text) ==
  \E k \in DOMAIN text :
    /\ \E n \in Digit : text[k] = ToString(n)
    /\ \A j \in 1..(k - 1) :
         text[j] = Space \/ (j = k - 1 /\ text[j] \in {"+", "-"})

-----------------------------------------------------------------------------
(* Command.                                                                *)

Command(identifier, values) == [commandIdentifier |-> identifier, values |-> values]
NoCommand == Command(-1, <<>>)

\* Plausible bug of the next one: an argument may be left out.
isValidAlways(values) == TRUE

isValid(values) == \A name \in DOMAIN values : values[name] # <<>>

\* Those a command has, in the order of jsoncpp.
argumentNames(values) ==
  LET ifGiven(name) == IF name \in DOMAIN values THEN <<name>> ELSE <<>>
  IN  ifGiven("clientPort") \o ifGiven("message") \o ifGiven("topicName")

\* serialize of a valid command: each argument under its own name, and a
\* null for arguments when there are none.
serialize(c) ==
  LET names   == argumentNames(c.values)
      members == [i \in DOMAIN names |-> <<names[i], String(c.values[names[i]])>>]
  IN  Object([command   |-> Number(c.commandIdentifier),
              arguments |-> IF names = <<>> THEN Null ELSE Object(members)])

\* One call of setCommandArgument; result is what the calls so far have made.
setCommandArgument(result, member) ==
  LET name == parameterNamed(member[1])
  IN  IF throws(result) THEN result
      ELSE IF ~ isScalar(member[2]) THEN Throw("Json::LogicError")
      ELSE IF name \notin DOMAIN result.values THEN Throw("runtime_error")
      ELSE [result EXCEPT !.values[name] = asString(member[2])]

\* What the first n calls have made.
argumentsSet(identifier, members) ==
  LET after[n \in 0..Len(members)] ==
        IF n = 0
        THEN Command(identifier, [name \in commandDictionary(identifier) |-> <<>>])
        ELSE setCommandArgument(after[n - 1], members[n])
  IN  after

setCommandArguments(identifier, members) ==
  argumentsSet(identifier, members)[Len(members)]

\* Command::deserialize of a document with both members.
deserializeMembers(document) ==
  LET arguments == document.arguments
      members   == IF arguments.type = "null" THEN <<>> ELSE arguments.members
      result    == setCommandArguments(asInt(document.command), members)
  IN  IF ~ isInt(document.command) \/ arguments.type \notin {"null", "object"}
      THEN Throw("Json::LogicError")
      ELSE IF throws(result) \/ isValid(result.values) THEN result
      ELSE Throw("runtime_error")

\* isMember throws if the document is neither an object nor null.
deserialize(doc) ==
  IF doc.type \notin {"object", "null", "none"} THEN Throw("Json::LogicError")
  ELSE IF doc.type = "object" /\ {"command", "arguments"} \subseteq DOMAIN doc.members
  THEN deserializeMembers(doc.members)
  ELSE Throw("runtime_error")   \* no JSON, or a member is missing

-----------------------------------------------------------------------------
(* Response, and the server between Command and Response.                  *)

Response(status, arguments) == [statusCode |-> status, arguments |-> arguments]

\* The subscribers of a topic, by address and port.
subscribersOf == << <<"a", ":", "1">>, <<"b", ":", "1">> >>

\* What the handlers answer, when list is what the registry holds.
handlerResponses(c, list) ==
  LET known == c.values.topicName \in Range(list)
  IN  CASE c.commandIdentifier = CommandIdentifier.subscribe ->
             {Response(Statuscode.success, <<>>), Response(Statuscode.failed, <<>>)}
        [] c.commandIdentifier = CommandIdentifier.listTopics ->
             {Response(Statuscode.success, [topics |-> arrayText(list)])}
        [] c.commandIdentifier = CommandIdentifier.getTopicStatus /\ known ->
             {Response(Statuscode.success,
                       [messageTimestamp |-> decimal(n), subscribers |-> arrayText(subscribersOf)]) :
                n \in Digit}
        [] c.commandIdentifier = CommandIdentifier.getTopicStatus /\ ~ known ->
             {Response(Statuscode.invalidParameter,
                       [messageTimestamp |-> <<>>, subscribers |-> <<>>])}
        [] OTHER ->   \* unsubscribe and publish
             {Response(IF known THEN Statuscode.success
                       ELSE Statuscode.invalidParameter, <<>>)}

isKnownCommand(c) == c.commandIdentifier \in Range(CommandIdentifier)

\* stoi, which a subscribe or unsubscribe request calls for its port.
portIsWrong(c) ==
  "clientPort" \in DOMAIN c.values /\ ~ isNumeral(c.values.clientPort)

\* The body of the try block: what was called, and the Responses it may yield.
\* The default case of the switch leaves the Response as it was declared.
dispatch(doc, list) ==
  LET c == deserialize(doc)
  IN  IF throws(c) THEN c
      ELSE IF portIsWrong(c) THEN Throw("invalid_argument")
      ELSE IF isKnownCommand(c) THEN [called |-> c, made |-> handlerResponses(c, list)]
      ELSE [called |-> NoCommand, made |-> {Response(n, <<>>) : n \in Unset}]

serializeResponse(r) ==
  [statusCode |-> Number(r.statusCode),
   arguments |-> [name \in DOMAIN r.arguments |-> String(r.arguments[name])]]

\* Response::deserialize: what the document does not have is null, so empty.
deserializeResponse(identifier, doc) ==
  Response(asInt(doc.statusCode),
           [name \in responseDictionary(identifier) |->
              IF name \in DOMAIN doc.arguments THEN asString(doc.arguments[name])
              ELSE <<>>])

(* logResponse reads the arguments of a successful reply only. substr(1)   *)
(* of an empty text throws out_of_range, stoll invalid_argument.           *)
logResponse(r) ==
  IF r.statusCode # Statuscode.success THEN [status |-> r.statusCode, lists |-> <<>>]
  ELSE IF \E name \in DOMAIN r.arguments \cap {"topics", "subscribers"} :
            r.arguments[name] = <<>>
       THEN Throw("out_of_range")
  ELSE IF \E name \in DOMAIN r.arguments \cap {"messageTimestamp"} :
            ~ isNumeral(r.arguments[name])
       THEN Throw("invalid_argument")
  ELSE [status |-> r.statusCode,
        lists |-> [name \in DOMAIN r.arguments \cap {"topics", "subscribers"} |->
                     arrayStringToVectorString(r.arguments[name])]]

-----------------------------------------------------------------------------
(* Message.                                                                *)

Message(topic, time, message) ==
  [topic |-> topic, messageTimestamp |-> time, message |-> message]
NoMessage == Message(<<>>, -1, <<>>)

\* A plausible bug of the next one: topic and message change places.
serializeMessageSwapped(m) ==
  Object([topic |-> String(m.message), messageTimestamp |-> Number(m.messageTimestamp),
          message |-> String(m.topic)])

serializeMessage(m) ==
  Object([topic |-> String(m.topic), messageTimestamp |-> Number(m.messageTimestamp),
          message |-> String(m.message)])

\* Of a document of the server, or of what is no JSON because it was cut.
deserializeMessage(doc) ==
  IF doc = NoJson THEN Throw("runtime_error")
  ELSE Message(asString(doc.members.topic),
               CHOOSE n \in Digit :
                 decimal(n) = asString(doc.members.messageTimestamp),
               asString(doc.members.message))
=============================================================================
