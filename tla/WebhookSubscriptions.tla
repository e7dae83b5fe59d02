------------------------ MODULE WebhookSubscriptions ------------------------
(***************************************************************************)
(* The /v1/webhooks/subscriptions API: its schemas, WebhookSubscription-   *)
(* Service and PrismaWebhookSubscriptionRepository. Several handlers serve *)
(* requests at the same time. Creating and listing is one statement each;  *)
(* a PATCH updates the row and then reads it back in a second one.         *)
(*                                                                         *)
(* As in SubmissionInput a text is a word among white space, with its      *)
(* length in characters and in UTF-16 units. A URL is what the schema and  *)
(* the service ask of it. Its form as the URL class prints it, the dates   *)
(* and the order of a listing are left out; so is a statement that fails   *)
(* before it did anything, unless its values make it fail.                 *)
(***************************************************************************)
EXTENDS Naturals

CONSTANTS
    Handlers,
    SubscriptionIds,    \* identifiers the database may generate
    Creations,          \* bodies of POST: customerId, url, signingSecret
    Customers,          \* customerId of GET, a text
    MaxLength,          \* of customerId: 255
    MaxParam,           \* of a part of a path that Fastify takes for a parameter: 100
    MaxUrl,             \* 2048
    MinSecret, MaxSecret,   \* 16 and 1024
    Production,         \* NODE_ENV is production
    NULL

Word == [chars: STRING, length: Nat, units: Nat, nul: BOOLEAN]
Text == {t \in [word: Word, pad: Nat] : t.word.length <= t.word.units}

\* uri: it has the format of that name; parsed: the URL class takes it.
Url == [uri: BOOLEAN, parsed: BOOLEAN, length: Nat,
        protocol: STRING, host: STRING, credentials: BOOLEAN]
Creation == [customerId: Text, url: Url, signingSecret: Text]
SubscriptionRow ==
    [customerId: Text, url: Url, signingSecret: Text, enabled: BOOLEAN]

\* An absent row is told apart from every present one.
ASSUME SubscriptionsAssumption ==
    /\ {MaxLength, MaxParam, MaxUrl, MaxSecret} \subseteq Nat /\ MinSecret \in Nat \ {0}
    /\ Creations \subseteq Creation /\ Customers \subseteq Text
    /\ NULL \notin SubscriptionRow

VARIABLES
    rows,               \* [SubscriptionIds -> NULL or the WebhookSubscription row]
    sent,               \* history: the body that created the row
    pc, call,           \* per handler: the await it is at, the PATCH it serves
    overwritten,        \* history: the PATCHes another one has meanwhile undone
    answer              \* the last answer sent, by any handler

vars == <<rows, sent, pc, call, overwritten, answer>>

Init ==
    /\ rows = [s \in SubscriptionIds |-> NULL]
    /\ sent = [s \in SubscriptionIds |-> NULL]
    /\ pc = [h \in Handlers |-> "idle"]
    /\ call = [h \in Handlers |-> NULL]
    /\ overwritten = {}
    /\ answer = NULL

-----------------------------------------------------------------------------
(* Validation                                                              *)

RawLength(t) == t.word.length + t.pad
trim(t) == [t EXCEPT !.pad = 0]

requiredString(t) == trim(t)
Required(t, maxLength) == trim(t).word.units \in 1 .. maxLength

createWebhookSubscriptionSchema(body) ==
    /\ body.customerId.word.length > 0 /\ RawLength(body.customerId) <= MaxLength
    /\ body.url.uri /\ body.url.length <= MaxUrl
    /\ RawLength(body.signingSecret) \in MinSecret .. MaxSecret

\* Mutant: the host is taken as it is written.
HostAsWritten(host) == host

\* What the URL class gives for a host: names in lower case, an IPv4 address
\* in its four parts, an IPv6 address in its short form and in brackets.
hostname(host) ==
    CASE host = "LOCALHOST" -> "localhost"
      [] host = "127.1" -> "127.0.0.1"
      [] host = "[0:0:0:0:0:0:0:1]" -> "[::1]"
      [] OTHER -> host

isLoopback(url) == hostname(url.host) \in {"localhost", "127.0.0.1", "::1"}

\* Mutant: loopback is not asked for.
allowedHttpAnywhere(url) == ~Production /\ url.protocol = "http:"

allowedLocalHttp(url) == ~Production /\ url.protocol = "http:" /\ isLoopback(url)

normalizedWebhookUrl(url) ==
    /\ url.parsed
    /\ url.protocol = "https:" \/ allowedLocalHttp(url)
    /\ ~url.credentials

LongEnough(secret) == trim(secret).word.units \in MinSecret .. MaxSecret

Valid(body) ==
    /\ createWebhookSubscriptionSchema(body)
    /\ Required(body.customerId, MaxLength)
    /\ LongEnough(body.signingSecret)
    /\ normalizedWebhookUrl(body.url)

-----------------------------------------------------------------------------
(* The handlers                                                            *)

Respond(request, code, shown) ==
    answer' = [request |-> request, code |-> code, shown |-> shown]

\* PostgreSQL takes no text with a NUL, neither to store nor to look for.
FitsColumns(t) == ~t.word.nul

\* POST: 201, or 400 for what the schema or the service refuses.
create(h, body) ==
    /\ pc[h] = "idle"
    /\ IF ~Valid(body)
       THEN Respond(<<"POST", body>>, 400, NULL) /\ UNCHANGED <<rows, sent>>
       ELSE IF ~FitsColumns(body.customerId) \/ ~FitsColumns(body.signingSecret)
       THEN Respond(<<"POST", body>>, 500, NULL) /\ UNCHANGED <<rows, sent>>
       ELSE \E s \in SubscriptionIds :
            /\ rows[s] = NULL
            /\ rows' = [rows EXCEPT ![s] =
                    [customerId |-> requiredString(body.customerId), url |-> body.url,
                     signingSecret |-> requiredString(body.signingSecret), enabled |-> TRUE]]
            /\ sent' = [sent EXCEPT ![s] = body]
            /\ Respond(<<"POST", body>>, 201, s)
    /\ UNCHANGED <<pc, call, overwritten>>

\* Mutant: disabled subscriptions are listed too.
findByCustomer(customerId) ==
    {s \in SubscriptionIds : rows[s] # NULL /\ rows[s].customerId = customerId}

findEnabledByCustomer(customerId) ==
    {s \in SubscriptionIds :
        rows[s] # NULL /\ rows[s].customerId = customerId /\ rows[s].enabled}

\* GET: the schema lets white space through, the service does not, and a long
\* customerId does not reach either.
listEnabled(h, customer) ==
    /\ pc[h] = "idle"
    /\ LET Reply(code, shown) == Respond(<<"GET", customer>>, code, shown) IN
       IF customer.word.units + customer.pad > MaxParam THEN Reply(404, NULL)
       ELSE IF ~(RawLength(customer) \in 1 .. MaxLength /\ Required(customer, MaxLength))
       THEN Reply(400, NULL)
       ELSE IF ~FitsColumns(customer) THEN Reply(500, NULL)
       ELSE Reply(200, findEnabledByCustomer(requiredString(customer)))
    /\ UNCHANGED <<rows, sent, pc, call, overwritten>>

\* Mutant: the update lacks its condition on the identifier.
UpdatedEverywhere(s, enabled) ==
    [t \in SubscriptionIds |->
        IF rows[t] = NULL THEN NULL ELSE [rows[t] EXCEPT !.enabled = enabled]]

Updated(s, enabled) == [rows EXCEPT ![s].enabled = enabled]

\* PATCH, first statement: updateMany. No row is changed: 404.
setEnabled(h, s, enabled) ==
    /\ pc[h] = "idle"
    /\ IF rows[s] = NULL
       THEN /\ Respond(<<"PATCH", enabled>>, 404, NULL)
            /\ UNCHANGED <<rows, pc, call, overwritten>>
       ELSE /\ rows' = Updated(s, enabled)
            /\ pc' = [pc EXCEPT ![h] = "reading"]
            /\ call' = [call EXCEPT ![h] = [subscription |-> s, enabled |-> enabled]]
            /\ overwritten' = overwritten \cup
                {g \in Handlers : pc[g] = "reading" /\ call[g].subscription = s
                                    /\ call[g].enabled # enabled}
            /\ UNCHANGED answer
    /\ UNCHANGED sent

Done(h) ==
    /\ pc' = [pc EXCEPT ![h] = "idle"]
    /\ call' = [call EXCEPT ![h] = NULL]
    /\ overwritten' = overwritten \ {h}
    /\ UNCHANGED <<rows, sent>>

\* Second statement: findUnique.
ReadBack(h) ==
    /\ pc[h] = "reading"
    /\ LET row == rows[call[h].subscription] IN
       IF row = NULL
       THEN Respond(<<"PATCH", call[h].enabled>>, 404, NULL)
       ELSE Respond(<<"PATCH", call[h].enabled>>, 200,
                [enabled |-> row.enabled, overwritten |-> h \in overwritten])
    /\ Done(h)

\* A database error between the two, or the death of the process.
Fail(h) ==
    /\ pc[h] = "reading"
    /\ Respond(<<"PATCH", call[h].enabled>>, 500, NULL)
    /\ Done(h)

Next ==
    \E h \in Handlers :
        \/ \E body \in Creations : create(h, body)
        \/ \E customer \in Customers : listEnabled(h, customer)
        \/ \E s \in SubscriptionIds, enabled \in BOOLEAN : setEnabled(h, s, enabled)
        \/ ReadBack(h)
        \/ Fail(h)

Spec == Init /\ [][Next]_vars

-----------------------------------------------------------------------------
(* Properties                                                              *)

Rows == {s \in SubscriptionIds : rows[s] # NULL}

TypeOK ==
    /\ rows \in [SubscriptionIds -> SubscriptionRow \cup {NULL}]
    /\ sent \in [SubscriptionIds -> Creations \cup {NULL}]
    /\ \A s \in Rows : rows[s].customerId.pad = 0 /\ rows[s].signingSecret.pad = 0
    /\ pc \in [Handlers -> {"idle", "reading"}]
    /\ call = [h \in Handlers |-> call[h]]
    /\ \A h \in Handlers : pc[h] = "reading" =>
        call[h] \in [subscription: Rows, enabled: BOOLEAN]
    /\ overwritten \subseteq {h \in Handlers : pc[h] = "reading"}

LoopbackHost(host) ==
    host \in {"localhost", "LOCALHOST", "127.0.0.1", "127.1", "::1", "[::1]",
              "[0:0:0:0:0:0:0:1]"}

AllowedUrl(url) ==
    /\ url.uri /\ url.parsed /\ ~url.credentials
    /\ \/ url.protocol = "https:"
       \/ url.protocol = "http:" /\ LoopbackHost(url.host) /\ ~Production

(* Whatever is stored can be used by the workers: its URL is HTTPS, or     *)
(* HTTP to the machine itself outside production, without credentials, and *)
(* its secret has 16 UTF-16 units or more besides the white space around   *)
(* it, and at most 1024.                                                   *)
StoredIsAllowed ==
    \A s \in Rows :
        /\ AllowedUrl(rows[s].url)
        /\ rows[s].signingSecret.word.units \in MinSecret .. MaxSecret
        /\ rows[s].customerId.word.units \in 1 .. MaxLength

\* A body that keeps the rules of docs/api-design.md and of the columns.
Allowed(body) ==
    /\ AllowedUrl(body.url) /\ body.url.length <= MaxUrl
    /\ body.customerId.word.length > 0 /\ RawLength(body.customerId) <= MaxLength
    /\ body.customerId.word.units <= MaxLength
    /\ body.signingSecret.word.length >= MinSecret
    /\ RawLength(body.signingSecret) <= MaxSecret
    /\ body.signingSecret.word.units <= MaxSecret
    /\ ~body.customerId.word.nul /\ ~body.signingSecret.word.nul

(* HTTPS is allowed always, and HTTP to the machine itself outside         *)
(* production. A body that keeps every rule creates a subscription,        *)
(* however localhost or 127.0.0.1 are written in its URL. The loopback     *)
(* address of IPv6 is excepted: hostname keeps its brackets, so HTTP to it *)
(* is always refused, whatever README.md:284 says of loopback.             *)
AllowedIsAccepted ==
    answer # NULL /\ answer.request[1] = "POST" =>
        LET body == answer.request[2] IN
        /\ Allowed(body)
        /\ body.url.protocol = "https:" \/ hostname(body.url.host) # "[::1]"
        => answer.code = 201

(* A PATCH answers with the value it wrote, unless another PATCH of the    *)
(* same subscription wrote the opposite between its update and its read.   *)
UpdateShowsItsValue ==
    answer # NULL /\ answer.request[1] = "PATCH" /\ answer.code = 200 =>
        \/ answer.shown.enabled = answer.request[2]
        \/ answer.shown.overwritten

(* A listing shows the subscriptions of that customer, however the client  *)
(* wrote the customer then or writes it now, that are enabled at that      *)
(* moment, and no other.                                                   *)
ListingIsExact ==
    [][answer' # answer /\ answer'.request[1] = "GET" /\ answer'.code = 200 =>
          answer'.shown = {s \in Rows :
              /\ rows[s].enabled
              /\ sent[s].customerId.word = answer'.request[2].word}]_vars
=============================================================================
