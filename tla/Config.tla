-------------------------------- MODULE Config --------------------------------
(***************************************************************************)
(* util/config.go: the configuration, the document it is stored in, and    *)
(* what is read back from a document, whole or cut off.                    *)
(*                                                                         *)
(* A document is the set of the elements it contains with their values, in *)
(* the order in which the encoder writes them. Each setting stands for     *)
(* those that are treated alike: "lists" for the arguments, tokens and     *)
(* cleanup settings, each of which has an element for every item; "url"    *)
(* for the connection and its credentials. Text comes back as it was       *)
(* written, control characters excepted.                                   *)
(***************************************************************************)
EXTENDS Integers, Sequences, Functions

CONSTANTS
    Names,     \* names of nodes: [host, domain, caps], the domain a sequence of labels
    Hostname   \* what util.Hostname() returns; NoName when it fails

NoName == [host |-> "", domain |-> <<>>, caps |-> FALSE]

ASSUME NameAssumption ==
    /\ Names \subseteq [host : STRING, domain : Seq(STRING), caps : BOOLEAN]
    /\ NoName \in Names
    /\ Hostname \in Names

(* The items of a list are written one after the other: the first of them, *)
(* and the rest.                                                           *)
Document == <<"mode", "url", "tunnel", "name", "secret", "auth", "create", "head", "tail">>
Elements == {Document[i] : i \in 1..Len(Document)}
Plain    == Elements \ {"head", "tail"}
Settings == Plain \cup {"lists"}

Modes == {"client", "ssh-server", "unknown"}
Urls  == {"", "http://ci"}

(* What an SSH tunnel puts into CIHostURI, an address of this machine.     *)
LocalUrl == "http://localhost"

(* Whose items a list has, and whether it has all of them.                 *)
Lists == [of : {"default", "custom"}, whole : BOOLEAN]

Configs ==
    [mode   : Modes,
     url    : Urls \cup {LocalUrl},
     tunnel : BOOLEAN,
     name   : Names,
     secret : {"", "key"},
     auth   : BOOLEAN,
     create : BOOLEAN,
     lists  : Lists]

Default == [mode |-> "client", url |-> "", tunnel |-> FALSE, name |-> Hostname, secret |-> "",
            auth |-> FALSE, create |-> FALSE, lists |-> [of |-> "default", whole |-> TRUE]]

HasCIConnection(config) == config.url # ""

-----------------------------------------------------------------------------
(* The file launcher.config.                                               *)

Absent == [exists |-> FALSE, complete |-> FALSE, settings |-> <<>>]
Emptied == [exists |-> TRUE, complete |-> FALSE, settings |-> <<>>]
Complete(settings) == [exists |-> TRUE, complete |-> TRUE, settings |-> settings]

(* What may be left of a document when writing it ends early.              *)
Cut(file) ==
    {[file EXCEPT !.complete = FALSE,
                  !.settings = Restrict(@, DOMAIN @ \cap {Document[i] : i \in 1..n})] :
        n \in 0..Len(Document)}

(* The lists are emptied before the document is decoded; one that is still *)
(* empty then has the default items again, one that was cut off stays so.  *)
LoadedLists(settings) ==
    IF "head" \in DOMAIN settings
    THEN [of |-> settings["head"], whole |-> "tail" \in DOMAIN settings]
    ELSE Default.lists

(* NewConfig: the settings the decoder comes to replace the defaults, also *)
(* when it stops with an error later.                                      *)
Loaded(file) ==
    [s \in Settings |-> IF s = "lists" THEN LoadedLists(file.settings)
                       ELSE IF s \in DOMAIN file.settings THEN file.settings[s]
                       ELSE Default[s]]

(* Mutants: an incomplete file counts as loaded; a complete one does not.  *)
NeedsSaveIfMissing(file) == ~file.exists
NeedsSaveAlways(file) == TRUE

NeedsSave(file) == ~file.complete

(* The elements that the encoder writes; lists have no element of their own*)
(* but those of their items.                                               *)
ElementsOf(config) ==
    [e \in Plain \cup {"head"} \cup (IF config.lists.whole THEN {"tail"} ELSE {}) |->
        IF e \in Plain THEN config[e] ELSE config.lists.of]

(* Mutant: the secret is not part of the document. *)
EncodedWithoutSecret(config) ==
    Complete(Restrict(ElementsOf(config), (DOMAIN ElementsOf(config)) \ {"secret"}))

Encoded(config) == Complete(ElementsOf(config))
=============================================================================
