----------------------------- MODULE JnlpDocument -----------------------------
(***************************************************************************)
(* ClientMode.applyCustomJnlpArgs (modes/client.go:320): how the JNLP      *)
(* document of Jenkins is rewritten, token by token, so that the client    *)
(* goes through the tunnel: arguments of the names in util.JnlpArgs are    *)
(* taken out together with their values, and the launcher's own appended.  *)
(*                                                                         *)
(* A token is a pair of a kind and a text. Elements other than the         *)
(* arguments are copied as they are; application-desc stands for them.     *)
(* White space between elements, trimmed, is an empty text: it is read and *)
(* leaves nothing behind.                                                  *)
(***************************************************************************)
EXTENDS Integers, SequencesExt

CONSTANTS
    Names,         \* the domain of util.JnlpArgs
    Words,         \* what else an argument may be
    MaxArguments   \* bound: how many arguments the document of Jenkins has

ASSUME DocumentAssumption ==
    IsFiniteSet(Names) /\ MaxArguments \in Nat

Start(n) == <<"start", n>>
End(n) == <<"end", n>>
Text(x) == <<"text", x>>

Blank == Text("")
ValueOf(n) == <<"the launcher's value of", n>>  \* util.JnlpArgs[n]

Element(x) == <<Start("argument"), Text(x), End("argument")>>

(* Arguments one after the other, three tokens each.                       *)
Elements(words) ==
    [k \in 1..3 * Len(words) |-> Element(words[(k + 2) \div 3])[1 + ((k - 1) % 3)]]

Within(tokens) == <<Start("application-desc")>> \o tokens \o <<End("application-desc")>>

(* The document of Jenkins, as the decoder delivers it: between its ends,  *)
(* white space and an argument in turn.                                    *)
Sent(words) ==
    LET last == 4 * Len(words) + 3
    IN  [k \in 1..last |->
            CASE k = 1 -> Start("application-desc")
              [] k = last -> End("application-desc")
              [] k \in 2..last - 1 /\ k % 4 = 2 -> Blank
              [] k \in 2..last - 1 /\ k % 4 = 3 -> Start("argument")
              [] k \in 2..last - 1 /\ k % 4 = 0 -> Text(words[k \div 4])
              [] k \in 2..last - 1 /\ k % 4 = 1 -> End("argument")]

(* The arguments of the launcher, in the order in which the map is walked: *)
(* names and values in turn, whose ends match, so that all is written.     *)
Overrides(order) ==
    Elements([j \in 1..2 * Len(order) |->
                IF j % 2 = 1 THEN order[(j + 1) \div 2] ELSE ValueOf(order[j \div 2])])

-----------------------------------------------------------------------------
VARIABLES
    arguments,              \* those of the document that Jenkins sends
    at,                     \* the token to read next, 0 outside of the loop
    skipArguments,          \* how many arguments are still to be left out
    nextIsArgumentContent,  \* an argument was opened and its text is next
    out,                    \* what was written so far
    open,                   \* the encoder's stack of open elements
    kept,                   \* history: the arguments read so far that have to stay
    custom                  \* what is written to ~slave-agent.jnlp

encoder == <<out, open>>
loopVars == <<at, skipArguments, nextIsArgumentContent, encoder, kept>>
documentVars == <<arguments, loopVars, custom>>

NoFile == <<Blank>>

DocumentInit ==
    /\ arguments = <<>> /\ kept = <<>> /\ custom = NoFile
    /\ at = 0 /\ skipArguments = 0 /\ nextIsArgumentContent = FALSE
    /\ out = <<>> /\ open = <<>>

(* Without a usable answer, the file is written all the same, empty.       *)
FetchFails ==
    /\ at = 0 /\ custom = NoFile /\ custom' = <<>>
    /\ UNCHANGED <<arguments, loopVars>>

Fetches ==
    /\ at = 0 /\ custom = NoFile
    /\ arguments' \in SeqOf(Names \cup Words, MaxArguments)
    /\ at' = 1 /\ kept' = <<>>
    /\ UNCHANGED <<skipArguments, nextIsArgumentContent, encoder, custom>>

Token == Sent(arguments)[at]

Decodes(kind) ==
    /\ at \in 1..Len(Sent(arguments)) /\ Token[1] = kind
    /\ at' = at + 1
    /\ UNCHANGED <<arguments, custom>>

EncodesStart(tokens) == out' = out \o tokens /\ open' = Append(open, tokens[1][2])

(* Whether an argument is written is decided when its text is read.        *)
StartElement ==
    /\ Decodes("start")
    /\ nextIsArgumentContent' = (Token[2] = "argument")
    /\ IF Token[2] # "argument" /\ skipArguments = 0 THEN EncodesStart(<<Token>>) ELSE UNCHANGED encoder
    /\ UNCHANGED <<skipArguments, kept>>

WhiteSpace ==
    /\ Decodes("text") /\ ~ nextIsArgumentContent
    /\ UNCHANGED <<skipArguments, nextIsArgumentContent, encoder, kept>>

(* Mutant: the value of an argument that is taken out stays. *)
TakesNameOnly ==
    /\ Decodes("text") /\ nextIsArgumentContent /\ Token[2] \in Names
    /\ skipArguments' = 1 /\ nextIsArgumentContent' = FALSE
    /\ UNCHANGED <<encoder, kept>>

(* The name of a pair that the launcher has its own value for.             *)
TakesName ==
    /\ Decodes("text") /\ nextIsArgumentContent /\ Token[2] \in Names
    /\ skipArguments' = 2 /\ nextIsArgumentContent' = FALSE
    /\ UNCHANGED <<encoder, kept>>

(* Neither a name that is overridden nor the value of one.                 *)
Stays(i) == arguments[i] \notin Names /\ (i > 1 => arguments[i - 1] \notin Names)

OtherArgument ==
    /\ Decodes("text") /\ nextIsArgumentContent /\ Token[2] \notin Names
    /\ nextIsArgumentContent' = FALSE
    /\ IF skipArguments = 0 THEN EncodesStart(<<Start("argument"), Token>>) ELSE UNCHANGED encoder
    /\ kept' = IF Stays(at \div 4) THEN Append(kept, Token[2]) ELSE kept
    /\ UNCHANGED skipArguments

(* xml.Encoder: an end that does not match the open element is an error,   *)
(* which applyCustomJnlpArgs ignores, and nothing is written.              *)
EncodesEnd(written) ==
    IF skipArguments' = 0 /\ open # <<>> /\ Last(open) = Token[2]
    THEN out' = Append(written, Token) /\ open' = Front(open)
    ELSE out' = written /\ open' = open

EndArgument ==
    /\ Decodes("end") /\ Token[2] = "argument"
    /\ skipArguments' = IF skipArguments > 0 THEN skipArguments - 1 ELSE 0
    /\ EncodesEnd(out)
    /\ UNCHANGED <<nextIsArgumentContent, kept>>

(* The map of the launcher's arguments is walked in any order.             *)
EndElement ==
    /\ Decodes("end") /\ Token[2] = "application-desc"
    /\ UNCHANGED <<skipArguments, nextIsArgumentContent, kept>>
    /\ \E order \in SetToSeqs(Names) : EncodesEnd(out \o Overrides(order))

IsWritten ==
    /\ at = Len(Sent(arguments)) + 1 /\ at' = 0
    /\ custom' = out
    /\ skipArguments' = 0 /\ nextIsArgumentContent' = FALSE
    /\ out' = <<>> /\ open' = <<>>
    /\ UNCHANGED <<arguments, kept>>

FileIsRemoved ==
    /\ custom # NoFile /\ custom' = NoFile
    /\ arguments' = <<>> /\ kept' = <<>>
    /\ UNCHANGED <<at, skipArguments, nextIsArgumentContent, encoder>>

applyCustomJnlpArgs ==
    \/ StartElement \/ WhiteSpace \/ TakesName \/ OtherArgument
    \/ EndArgument \/ EndElement \/ IsWritten

DocumentNext == FetchFails \/ Fetches \/ applyCustomJnlpArgs \/ FileIsRemoved

DocumentSpec == DocumentInit /\ [][DocumentNext]_documentVars

-----------------------------------------------------------------------------
(* A name and the argument after it are a pair; only a document that ends  *)
(* in the middle of one is rewritten to something else.                    *)
Paired == arguments # <<>> => Last(arguments) \notin Names

(* The client is told where the tunnel is, exactly once, and nothing that  *)
(* would lead it past the tunnel; the other arguments come through in      *)
(* their order, and the document is well-formed (client.go:332-376).       *)
LeadsThroughTunnel ==
    custom \notin {NoFile, <<>>} /\ Paired =>
        \E order \in SetToSeqs(Names) : custom = Within(Elements(kept) \o Overrides(order))
=============================================================================
