------------------------------ MODULE LiveTools ------------------------------
(***************************************************************************)
(* One tool call of the assistant: tools.py with the live-tools service    *)
(* behind it.  A page is fetched in up to four hops, each of which is      *)
(* checked, resolved and then contacted at the addresses that were checked *)
(* while name service may change at any moment.  The other tools ask a     *)
(* local service and validate the URLs they will cite, all at once.        *)
(*                                                                         *)
(* A URL is a record of what _validated_page_url() looks at; a text is     *)
(* represented by its length, a body by its number of bytes.               *)
(***************************************************************************)
EXTENDS Integers, Sequences, FiniteSets, SequencesExt, Selection

CONSTANTS
    Urls,               \* URLs that users, pages and results name
    Hosts, Public,      \* host names; the addresses that are public
    Answers,            \* what name service may say: sequences of addresses
    Calls,              \* [tool, length, number, option, gguf, url]: calls of
                        \* the model
    Results,            \* sequences of items that a service answers with:
                        \* [object, named, gguf, title, url]
    MaxBytes,           \* fetch_max_bytes
    Rebinds             \* bound: how often name service changes

MAX_REDIRECTS == 3
NoHost == ""

\* Name service and the services answer with lists; a URL that is called for
\* is one of Urls, and name service can be asked for any host that they name.
Elements(lists) == UNION {ToSet(s) : s \in lists}
ASSUME AnswersAssumption ==
    Answers \subseteq Seq(Elements(Answers)) /\ Results \subseteq Seq(Elements(Results))
ASSUME UrlsAssumption ==
    /\ \A c \in Calls : c.tool = "page" => c.url \in Urls
    /\ \A u \in Urls : u.host # NoHost => u.host \in Hosts
ASSUME BoundsAssumption == MaxBytes \in Nat /\ Rebinds \in Nat

VARIABLES
    call, stage,        \* the call, and where it is suspended
    dns, rebinds,       \* external: name service, and how often it changed
    url, hop, targets,  \* page: current URL, redirects, addresses left
    got,                \* page: bytes of the body so far
    contacts, checked,  \* history: connections made, addresses checked
    items, verdicts,    \* search: items and the validation of their URLs
    answer              \* what the call ends with

network == <<dns, rebinds>>
page == <<url, hop, targets, got, contacts, checked>>
found == <<items, verdicts>>
ltVars == <<call, stage, network, page, found, answer>>

NoAnswer == [kind |-> "none"]
ToolError == [kind |-> "error"]
Escaped == [kind |-> "escaped"]     \* an exception that is no ToolError
NoUrl == [scheme |-> "", host |-> NoHost, port |-> 0, credentials |-> FALSE, length |-> 0]

LtInit ==
    /\ call = [tool |-> "none"] /\ stage = "idle"
    /\ dns \in [Hosts -> Answers] /\ rebinds = 0
    /\ url = NoUrl /\ hop = 0 /\ targets = <<>> /\ got = 0
    /\ contacts = {} /\ checked = {}
    /\ items = <<>> /\ verdicts = <<>>
    /\ answer = NoAnswer

Finish(result) == stage' = "over" /\ answer' = result

-----------------------------------------------------------------------------
(* Arguments: what ToolRunner lets through, and what the service accepts.  *)

InRange(n, low, high) == low <= n /\ n <= high

\* run() and its helpers, in two parts: number is forecast_days or limit,
\* option is what units or sort_by is, one of the "known" values or not.
UpToOption(c) ==
    CASE c.tool = "weather" -> InRange(c.length, 2, 120) /\ InRange(c.number, 1, 7)
      [] c.tool = "models" -> c.length <= 100
      [] OTHER -> FALSE
ArgumentsAllowed(c) ==
    CASE c.tool = "weather" -> UpToOption(c) /\ c.option = "known"
      [] c.tool = "models" ->
            UpToOption(c) /\ c.option = "known" /\ InRange(c.number, 1, 10)
      [] c.tool = "search" -> InRange(c.length, 1, 300)
      [] c.tool = "page" -> InRange(c.length, 1, 2048)
      [] OTHER -> FALSE
\* A list or an object is "unhashable": asking whether a set has it raises.
Refusal(c) ==
    IF UpToOption(c) /\ c.option = "unhashable" THEN Escaped ELSE ToolError

\* The Query() constraints of the two endpoints of the live-tools service.
ServiceAccepts(c) ==
    CASE c.tool = "weather" -> InRange(c.length, 2, 120) /\ InRange(c.number, 1, 7)
      [] c.tool = "models" -> c.length <= 100 /\ InRange(c.number, 1, 15)
      [] OTHER -> TRUE

\* A call of the model begins.
Begin(c) ==
    /\ stage = "idle"
    /\ call' = c
    /\ IF ~ArgumentsAllowed(c) THEN Finish(Refusal(c)) /\ UNCHANGED url
       ELSE /\ UNCHANGED answer
            /\ IF c.tool = "page" THEN stage' = "resolving" /\ url' = c.url
               ELSE stage' = "asking" /\ UNCHANGED url
    /\ UNCHANGED <<network, hop, targets, got, contacts, checked, found>>

-----------------------------------------------------------------------------
(* Name service and URL checks.                                            *)

\* External: a host name gets other addresses.
Rebind(host, addresses) ==
    /\ rebinds < Rebinds /\ addresses # dns[host]
    /\ dns' = [dns EXCEPT ![host] = addresses] /\ rebinds' = rebinds + 1
    /\ UNCHANGED <<call, stage, page, found, answer>>

StandardPort(scheme) == IF scheme = "https" THEN 443 ELSE 80
\* _validated_page_url(): port 0 stands for none.
ValidatedUrl(u) ==
    /\ u.scheme \in {"http", "https"} /\ u.host # NoHost /\ ~u.credentials
    /\ u.port \in {0, StandardPort(u.scheme)} /\ u.length <= 2048

\* _resolve_public(): one address that is not public condemns them all.
ResolvesPublic(host) == dns[host] # <<>> /\ ToSet(dns[host]) \subseteq Public
Distinct(s) == Picked(s, {i \in DOMAIN s : \A j \in 1 .. i - 1 : s[j] # s[i]})

-----------------------------------------------------------------------------
(* The page tool.                                                          *)

\* slip: a redirect to the same scheme is followed without a new look at it.
ChecksFirstHop(u) == hop = 0 => ValidatedUrl(u)
ChecksHop(u) == ValidatedUrl(u)

\* The current URL is checked and its host resolved.
Resolve ==
    /\ stage = "resolving"
    /\ IF ChecksHop(url) /\ ResolvesPublic(url.host)
       THEN /\ stage' = "connecting"
            /\ targets' = Distinct(dns[url.host])
            /\ checked' = checked \cup ({url.host} \X ToSet(dns[url.host]))
            /\ UNCHANGED answer
       ELSE Finish(ToolError) /\ UNCHANGED <<targets, checked>>
    /\ UNCHANGED <<call, network, url, hop, got, contacts, found>>

\* slip: the connection is made by name, which is resolved once more.
TargetByName == IF dns[url.host] = <<>> THEN Head(targets) ELSE Head(dns[url.host])
\* _pinned_url(): the connection goes to an address that was checked.
Target == Head(targets)

Attempt == [url |-> url, address |-> Target, hop |-> hop]

\* A fresh connection to the next address opens, and its headers arrive.
Connect ==
    /\ stage = "connecting" /\ targets # <<>>
    /\ contacts' = contacts \cup {Attempt}
    /\ got' = 0
    /\ \/ stage' = "reading" /\ UNCHANGED answer
       \/ Finish(ToolError)     \* Content-Length exceeds maximum_bytes
    /\ UNCHANGED <<call, network, url, hop, targets, checked, found>>

\* The connection cannot be made, or breaks: the next address, if any.
TransportError ==
    /\ stage \in {"connecting", "reading"}
    /\ contacts' = contacts \cup {Attempt}
    /\ targets' = Tail(targets)
    /\ IF Len(targets) > 1 THEN stage' = "connecting" /\ UNCHANGED answer
       ELSE Finish(ToolError)
    /\ UNCHANGED <<call, network, url, hop, got, checked, found>>

\* A URL that httpx refuses before it connects, or a body that does not decode:
\* neither error is caught, and the call ends.
FetchEscapes ==
    /\ stage \in {"connecting", "reading"}
    /\ Finish(Escaped)
    /\ UNCHANGED <<call, network, page, found>>

Chunk ==
    /\ stage = "reading"
    /\ IF got + 1 > MaxBytes THEN Finish(ToolError) /\ UNCHANGED got
       ELSE got' = got + 1 /\ UNCHANGED <<stage, answer>>
    /\ UNCHANGED <<call, network, url, hop, targets, contacts, checked, found>>

MayRedirect == hop < MAX_REDIRECTS

\* The body is complete and redirects to location.
Redirect(location) ==
    /\ stage = "reading"
    /\ IF MayRedirect
       THEN stage' = "resolving" /\ url' = location /\ hop' = hop + 1 /\ UNCHANGED answer
       ELSE Finish(ToolError) /\ UNCHANGED <<url, hop>>
    /\ UNCHANGED <<call, network, targets, got, contacts, checked, found>>

\* slip: the page is cited by the URL the model asked for.
PageSourceAsked == [title |-> "page", url |-> call.url]
\* The page is cited by the URL it was read from.
PageSource == [title |-> "page", url |-> url]

\* The body is complete: a status or type that is refused; a Location that is
\* absent, or that urljoin() cannot parse, whose ValueError is no ToolError;
\* or a page that is read.
PageEnds ==
    /\ stage = "reading"
    /\ \/ Finish(ToolError)
       \/ Finish(Escaped)
       \/ Finish([kind |-> "page", sources |-> <<PageSource>>])
    /\ UNCHANGED <<call, network, page, found>>

-----------------------------------------------------------------------------
(* Search, weather and models.                                             *)

\* search_huggingface_models(): entries without an id are skipped, and with
\* require_gguf those without the tag.
Models(raw, gguf) ==
    Picked(raw, {i \in DOMAIN raw : raw[i].named /\ (gguf => raw[i].gguf)})

\* At most this many items of an answer are considered.
Considered(tool) == CASE tool = "search" -> 8 [] tool = "weather" -> 5 [] OTHER -> 10

\* The service is down, slow, refuses the parameters, or its answer is too
\* large, no JSON or no object: every case becomes a ToolError, those of the
\* live-tools service by way of a 404, 422, 500 or 502.  Only the list in an
\* object of that service is not checked: to slice anything else raises.
ServiceFails ==
    /\ stage = "asking"
    /\ \/ Finish(ToolError)
       \/ call.tool \in {"weather", "models"} /\ Finish(Escaped)
    /\ UNCHANGED <<call, network, page, found>>

\* The answer is there; the URLs of its first items are validated at once.
ServiceAnswers(raw) ==
    /\ stage = "asking" /\ ServiceAccepts(call)
    /\ LET shaped == IF call.tool = "models" THEN Models(raw, call.gguf) ELSE raw
           first == SubSeq(shaped, 1, Min({Len(shaped), Considered(call.tool)}))
       IN items' = Picked(first, {i \in DOMAIN first : first[i].object})
    /\ verdicts' = [n \in DOMAIN items' |-> "pending"]
    /\ stage' = "validating"
    /\ UNCHANGED <<call, network, page, answer>>

\* _public_source_url() of one item ends: valid and public now, or not, or
\* not within its five seconds.
Validate(n) ==
    /\ stage = "validating" /\ n \in DOMAIN verdicts /\ verdicts[n] = "pending"
    /\ \E v \in {"yes", "no"} :
          /\ v = "yes" => ValidatedUrl(items[n].url) /\ ResolvesPublic(items[n].url.host)
          /\ verdicts' = [verdicts EXCEPT ![n] = v]
    /\ UNCHANGED <<call, stage, network, page, items, answer>>

Valid == Picked([n \in DOMAIN items |-> n], {n \in DOMAIN items : verdicts[n] = "yes"})

\* slip: the valid URLs are paired with the first items.
SourcesOfFirst ==
    [k \in DOMAIN Valid |-> [title |-> items[k].title, url |-> items[Valid[k]].url]]
\* zip() of the items with their validated URLs; the others are left out.
Sources ==
    [k \in DOMAIN Valid |-> [title |-> items[Valid[k]].title, url |-> items[Valid[k]].url]]

Cite ==
    /\ stage = "validating" /\ \A n \in DOMAIN verdicts : verdicts[n] # "pending"
    /\ Finish([kind |-> "cited", sources |-> Sources])
    /\ UNCHANGED <<call, network, page, found>>

\* fetch_deadline_seconds, or the deadline of the chat.
Deadline ==
    /\ stage \in {"resolving", "connecting", "reading"}
    /\ Finish(ToolError)
    /\ UNCHANGED <<call, network, page, found>>

LtNext ==
    \/ \E c \in Calls : Begin(c)
    \/ \E host \in Hosts : \E addresses \in Answers : Rebind(host, addresses)
    \/ Resolve \/ Connect \/ TransportError \/ FetchEscapes \/ Chunk \/ PageEnds
    \/ \E location \in Urls : Redirect(location)
    \/ ServiceFails
    \/ \E raw \in Results : ServiceAnswers(raw)
    \/ \E n \in DOMAIN verdicts : Validate(n)
    \/ Cite \/ Deadline

LtSpec == LtInit /\ [][LtNext]_ltVars

-----------------------------------------------------------------------------
(* Properties.                                                             *)

\* Every variable has its type.
LtTypeOK ==
    /\ stage \in {"idle", "resolving", "connecting", "reading", "asking",
                  "validating", "over"}
    /\ dns \in [Hosts -> Answers] /\ url \in Urls \cup {NoUrl}
    /\ got \in 0 .. MaxBytes /\ DOMAIN verdicts = DOMAIN items

\* Wherever redirects lead and however often name service changes its mind,
\* a connection is only made to a public address that the host of a checked
\* URL had when it was checked, and at most three redirects are followed.
ContactsWereChecked ==
    \A c \in contacts :
        /\ ValidatedUrl(c.url) /\ <<c.url.host, c.address>> \in checked
        /\ c.address \in Public /\ c.hop <= MAX_REDIRECTS

\* What a call hands to the model is cited by where it was read.  A page has
\* the URL of the last contact, not one before a redirect.  For the others,
\* however the concurrent validations end, every item whose URL was found
\* good is cited in its place under its own title, and no other.
CitesWhatItRead ==
    /\ answer.kind = "page" =>
          \E c \in contacts : /\ answer.sources = <<[title |-> "page", url |-> c.url]>>
                              /\ \A d \in contacts : d.hop <= c.hop
    /\ answer.kind = "cited" =>
          LET good == {n \in DOMAIN items : verdicts[n] = "yes"}
              Place(n) == Cardinality({m \in good : m <= n})
          IN /\ Len(answer.sources) = Cardinality(good)
             /\ \A n \in good : answer.sources[Place(n)] =
                                  [title |-> items[n].title, url |-> items[n].url]

=============================================================================
