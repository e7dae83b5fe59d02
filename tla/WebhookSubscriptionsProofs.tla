--------------------- MODULE WebhookSubscriptionsProofs ---------------------
(***************************************************************************)
(* Theorems about WebhookSubscriptions, for any number of handlers and     *)
(* subscriptions. The inductive invariant adds to the properties why a     *)
(* PATCH shows its own value: between its update and its read the row has  *)
(* that value, or another PATCH is on record as having overwritten it.     *)
(***************************************************************************)
EXTENDS WebhookSubscriptions, TLAPS

Tracked ==
    \A h \in Handlers : pc[h] = "reading" =>
        \/ rows[call[h].subscription].enabled = call[h].enabled
        \/ h \in overwritten

\* A row's customer is the one of the body that created it.
AsSent ==
    \A s \in Rows :
        sent[s] \in Creations /\ rows[s].customerId = trim(sent[s].customerId)

SubscriptionsInv ==
    TypeOK /\ StoredIsAllowed /\ Tracked /\ AsSent /\ UpdateShowsItsValue

LEMMA InitInv == Init => SubscriptionsInv
BY SubscriptionsAssumption
   DEF Init, SubscriptionsInv, TypeOK, StoredIsAllowed, Rows, Tracked, AsSent,
       UpdateShowsItsValue

\* Only the answers to a PATCH matter to UpdateShowsItsValue.
LEMMA OtherAnswer ==
    ASSUME NEW method \in {"POST", "GET"}, NEW what, NEW code, NEW shown,
           Respond(<<method, what>>, code, shown)
    PROVE  UpdateShowsItsValue'
BY DEF UpdateShowsItsValue, Respond

\* A PATCH that answers with an error shows nothing.
LEMMA ErrorAnswer ==
    ASSUME NEW value \in BOOLEAN, NEW code \in {404, 500}, NEW shown,
           Respond(<<"PATCH", value>>, code, shown)
    PROVE  UpdateShowsItsValue'
BY DEF UpdateShowsItsValue, Respond

\* What passes validation keeps the rules.
LEMMA ValidIsAllowed ==
    ASSUME NEW body \in Creations, Valid(body)
    PROVE  /\ AllowedUrl(body.url)
           /\ trim(body.signingSecret).word.units \in MinSecret .. MaxSecret
           /\ trim(body.customerId).word.units \in 1 .. MaxLength
<1>1. body.url \in Url
  BY SubscriptionsAssumption DEF Creation
<1>2. isLoopback(body.url) => LoopbackHost(body.url.host)
  BY <1>1 DEF isLoopback, hostname, LoopbackHost, Url
<1> QED
  BY <1>1, <1>2 DEF Valid, createWebhookSubscriptionSchema, normalizedWebhookUrl,
     allowedLocalHttp, AllowedUrl, LongEnough, Required, Url

LEMMA CreateInv ==
    ASSUME SubscriptionsInv, NEW h \in Handlers, NEW body \in Creations, create(h, body)
    PROVE  SubscriptionsInv'
<1> USE DEF SubscriptionsInv
<1>1. UpdateShowsItsValue'
  BY OtherAnswer DEF create
<1> DEFINE Stores == /\ Valid(body) /\ FitsColumns(body.customerId)
                     /\ FitsColumns(body.signingSecret)
<1>2. CASE ~Stores
  <2>1. UNCHANGED <<rows, sent, pc, call, overwritten>>
    BY <1>2 DEF create
  <2> QED
    BY <1>1, <2>1 DEF TypeOK, StoredIsAllowed, Rows, Tracked, AsSent
<1>3. CASE Stores
  <2> DEFINE row == [customerId |-> requiredString(body.customerId), url |-> body.url,
                     signingSecret |-> requiredString(body.signingSecret), enabled |-> TRUE]
  <2>1. PICK s \in SubscriptionIds :
            /\ rows[s] = NULL
            /\ rows' = [rows EXCEPT ![s] = row]
            /\ sent' = [sent EXCEPT ![s] = body]
    BY <1>3 DEF create
  <2>2. UNCHANGED <<pc, call, overwritten>>
    BY DEF create
  <2>3. /\ row \in SubscriptionRow
        /\ row.customerId.pad = 0 /\ row.signingSecret.pad = 0
    BY SubscriptionsAssumption
       DEF Creation, Text, SubscriptionRow, requiredString, trim
  <2>4. TypeOK'
    BY <1>1, <2>1, <2>2, <2>3 DEF TypeOK, Rows
  <2>5. StoredIsAllowed'
    <3>1. /\ AllowedUrl(row.url)
          /\ row.signingSecret.word.units \in MinSecret .. MaxSecret
          /\ row.customerId.word.units \in 1 .. MaxLength
      BY <1>3, ValidIsAllowed DEF requiredString
    <3> HIDE DEF row
    <3> QED
      BY <2>1, <3>1 DEF StoredIsAllowed, Rows, TypeOK
  <2>6. Tracked'
    <3>1. \A t \in Rows : rows'[t] = rows[t]
      BY <2>1 DEF Rows, TypeOK
    <3> QED
      BY <2>2, <3>1 DEF Tracked, TypeOK
  <2>7. AsSent'
    BY <2>1 DEF AsSent, Rows, TypeOK, requiredString
  <2> QED
    BY <1>1, <2>4, <2>5, <2>6, <2>7
<1> QED
  BY <1>2, <1>3

LEMMA ListInv ==
    ASSUME SubscriptionsInv, NEW h \in Handlers, NEW customer \in Customers,
           listEnabled(h, customer)
    PROVE  SubscriptionsInv'
<1>1. UpdateShowsItsValue'
  BY OtherAnswer DEF listEnabled, SubscriptionsInv
<1> QED
  BY <1>1 DEF listEnabled, SubscriptionsInv, TypeOK, StoredIsAllowed, Rows, Tracked, AsSent

LEMMA SetInv ==
    ASSUME SubscriptionsInv, NEW h \in Handlers, NEW s \in SubscriptionIds,
           NEW enabled \in BOOLEAN, setEnabled(h, s, enabled)
    PROVE  SubscriptionsInv'
<1> USE DEF SubscriptionsInv
<1>1. CASE rows[s] = NULL
  <2>1. UpdateShowsItsValue'
    BY <1>1, ErrorAnswer DEF setEnabled
  <2> QED
    BY <1>1, <2>1 DEF setEnabled, TypeOK, StoredIsAllowed, Rows, Tracked, AsSent
<1>2. CASE rows[s] # NULL
  <2>1. /\ rows' = [rows EXCEPT ![s].enabled = enabled]
        /\ pc' = [pc EXCEPT ![h] = "reading"]
        /\ call' = [call EXCEPT ![h] = [subscription |-> s, enabled |-> enabled]]
        /\ overwritten' = overwritten \cup
            {g \in Handlers : pc[g] = "reading" /\ call[g].subscription = s
                                /\ call[g].enabled # enabled}
        /\ UNCHANGED <<sent, answer>>
        /\ pc[h] = "idle"
    BY <1>2 DEF setEnabled, Updated
  <2>2. rows[s] \in SubscriptionRow
    BY <1>2 DEF TypeOK
  <2>3. /\ rows'[s] = [rows[s] EXCEPT !.enabled = enabled]
        /\ \A t \in SubscriptionIds : t # s => rows'[t] = rows[t]
    BY <2>1 DEF TypeOK
  <2>4. /\ rows'[s] \in SubscriptionRow
        /\ rows'[s].enabled = enabled
        /\ rows'[s].customerId = rows[s].customerId
        /\ rows'[s].signingSecret = rows[s].signingSecret
        /\ rows'[s].url = rows[s].url
    BY <2>2, <2>3 DEF SubscriptionRow
  <2>5. TypeOK'
    <3>1. rows' \in [SubscriptionIds -> SubscriptionRow \cup {NULL}]
      BY <2>1, <2>3, <2>4 DEF TypeOK
    <3>2. \A t \in SubscriptionIds : rows'[t] # NULL =>
            rows'[t].customerId.pad = 0 /\ rows'[t].signingSecret.pad = 0
      <4>1. rows[s].customerId.pad = 0 /\ rows[s].signingSecret.pad = 0
        BY <1>2 DEF TypeOK, Rows
      <4> QED
        BY <2>3, <2>4, <4>1 DEF TypeOK, Rows
    <3>3. Rows' = Rows
      BY <1>2, <2>3, <2>4, SubscriptionsAssumption DEF Rows
    <3>4. \A g \in Handlers : pc'[g] = "reading" =>
            call'[g] \in [subscription: Rows, enabled: BOOLEAN]
      BY <1>2, <2>1 DEF TypeOK, Rows
    <3>5. overwritten' \subseteq {g \in Handlers : pc'[g] = "reading"}
      BY <2>1 DEF TypeOK
    <3>6. /\ sent' \in [SubscriptionIds -> Creations \cup {NULL}]
          /\ pc' \in [Handlers -> {"idle", "reading"}]
          /\ call' = [g \in Handlers |-> call'[g]]
      BY <2>1 DEF TypeOK
    <3> QED
      BY <3>1, <3>2, <3>3, <3>4, <3>5, <3>6 DEF TypeOK, Rows
  <2>6. StoredIsAllowed'
    BY <1>2, <2>3, <2>4 DEF StoredIsAllowed, Rows
  <2>7. Tracked'
    <3> SUFFICES ASSUME NEW g \in Handlers, pc'[g] = "reading"
                 PROVE  \/ rows'[call'[g].subscription].enabled = call'[g].enabled
                        \/ g \in overwritten'
      BY DEF Tracked
    <3>1. CASE g = h
      BY <2>1, <2>4, <3>1 DEF TypeOK
    <3>2. CASE g # h /\ call[g].subscription = s
      BY <2>1, <2>4, <3>2 DEF TypeOK
    <3>3. CASE g # h /\ call[g].subscription # s
      BY <2>1, <2>3, <3>3 DEF TypeOK, Tracked
    <3> QED
      BY <3>1, <3>2, <3>3
  <2>8. UpdateShowsItsValue'
    BY <2>1 DEF UpdateShowsItsValue
  <2>9. AsSent'
    BY <1>2, <2>1, <2>3, <2>4 DEF AsSent, Rows, TypeOK
  <2> QED
    BY <2>5, <2>6, <2>7, <2>8, <2>9
<1> QED
  BY <1>1, <1>2

\* A handler that is done keeps everything but what UpdateShowsItsValue says.
LEMMA DoneInv ==
    ASSUME SubscriptionsInv, NEW h \in Handlers, Done(h)
    PROVE  TypeOK' /\ StoredIsAllowed' /\ Tracked' /\ AsSent'
BY DEF SubscriptionsInv, Done, TypeOK, StoredIsAllowed, Rows, Tracked, AsSent

LEMMA ReadInv ==
    ASSUME SubscriptionsInv, NEW h \in Handlers, ReadBack(h)
    PROVE  SubscriptionsInv'
<1> USE DEF SubscriptionsInv
<1>1. /\ pc[h] = "reading" /\ Done(h)
      /\ rows[call[h].subscription] # NULL
  BY DEF ReadBack, TypeOK, Rows
<1> DEFINE row == rows[call[h].subscription]
<1>2. answer' = [request |-> <<"PATCH", call[h].enabled>>, code |-> 200,
                 shown |-> [enabled |-> row.enabled, overwritten |-> h \in overwritten]]
  BY <1>1 DEF ReadBack, Respond
<1>3. row.enabled = call[h].enabled \/ h \in overwritten
  BY <1>1 DEF Tracked
<1>4. UpdateShowsItsValue'
  BY <1>2, <1>3 DEF UpdateShowsItsValue
<1> QED
  BY <1>1, <1>4, DoneInv

LEMMA FailInv ==
    ASSUME SubscriptionsInv, NEW h \in Handlers, Fail(h)
    PROVE  SubscriptionsInv'
<1>1. call[h].enabled \in BOOLEAN /\ Done(h)
  BY DEF Fail, SubscriptionsInv, TypeOK
<1>2. UpdateShowsItsValue'
  BY <1>1, ErrorAnswer DEF Fail, SubscriptionsInv
<1> QED
  BY <1>1, <1>2, DoneInv DEF SubscriptionsInv

LEMMA StepInv == SubscriptionsInv /\ [Next]_vars => SubscriptionsInv'
<1> SUFFICES ASSUME SubscriptionsInv, [Next]_vars PROVE SubscriptionsInv'
  OBVIOUS
<1>1. CASE Next
  BY <1>1, CreateInv, ListInv, SetInv, ReadInv, FailInv DEF Next
<1>2. CASE UNCHANGED vars
  BY <1>2 DEF vars, SubscriptionsInv, TypeOK, StoredIsAllowed, Rows, Tracked, AsSent,
     UpdateShowsItsValue
<1> QED
  BY <1>1, <1>2

\* The invariant of the subscriptions holds in every reachable state.
THEOREM SubscriptionsCorrect == Spec => []SubscriptionsInv
BY InitInv, StepInv, PTL DEF Spec

-----------------------------------------------------------------------------
\* Rows, calls and answers keep their types, and a PATCH between its two
\* statements has a row to read.
THEOREM SubscriptionsTypeCorrect == Spec => []TypeOK
BY SubscriptionsCorrect, PTL DEF SubscriptionsInv

\* Whatever is stored keeps the rules for URLs, secrets and customers.
THEOREM SubscriptionsAllowed == Spec => []StoredIsAllowed
BY SubscriptionsCorrect, PTL DEF SubscriptionsInv

\* A PATCH shows its own value unless another one overwrote it.
THEOREM UpdatesShowTheirValue == Spec => []UpdateShowsItsValue
BY SubscriptionsCorrect, PTL DEF SubscriptionsInv

\* Two texts are the same customer when they are the same word.
LEMMA SameCustomer ==
    ASSUME NEW t \in Text, NEW u \in Text
    PROVE  trim(t) = trim(u) <=> t.word = u.word
BY DEF trim, Text

LEMMA ListingStep ==
    ASSUME SubscriptionsInv, [Next]_vars, answer' # answer,
           answer'.request[1] = "GET", answer'.code = 200
    PROVE  answer'.shown = {s \in Rows :
                /\ rows[s].enabled
                /\ sent[s].customerId.word = answer'.request[2].word}
<1>1. PICK g \in Handlers :
        \/ \E body \in Creations : create(g, body)
        \/ \E customer \in Customers : listEnabled(g, customer)
        \/ \E s \in SubscriptionIds, enabled \in BOOLEAN : setEnabled(g, s, enabled)
        \/ ReadBack(g)
        \/ Fail(g)
  BY DEF Next, vars
<1>2. PICK customer \in Customers : listEnabled(g, customer)
  BY <1>1 DEF create, listEnabled, setEnabled, ReadBack, Fail, Respond,
     SubscriptionsInv, TypeOK
<1>3. answer' = [request |-> <<"GET", customer>>, code |-> 200,
                 shown |-> findEnabledByCustomer(requiredString(customer))]
  BY <1>2 DEF listEnabled, Respond, SubscriptionsInv, TypeOK
<1>4. \A s \in Rows : rows[s].customerId = requiredString(customer) <=>
            sent[s].customerId.word = customer.word
  BY SameCustomer, SubscriptionsAssumption
     DEF SubscriptionsInv, AsSent, requiredString, Creation
<1> QED
  BY <1>3, <1>4 DEF findEnabledByCustomer, Rows

\* A listing shows the enabled subscriptions of the customer and no other,
\* however the customer was and is written.
THEOREM ListingsAreExact == Spec => ListingIsExact
<1>1. SubscriptionsInv /\ [Next]_vars =>
        [answer' # answer /\ answer'.request[1] = "GET" /\ answer'.code = 200 =>
            answer'.shown = {s \in Rows :
                /\ rows[s].enabled
                /\ sent[s].customerId.word = answer'.request[2].word}]_vars
  BY ListingStep
<1> QED
  BY <1>1, SubscriptionsCorrect, PTL DEF Spec, ListingIsExact

-----------------------------------------------------------------------------
\* What keeps the rules passes validation and fits the columns.
LEMMA AllowedIsValid ==
    ASSUME NEW body \in Creations, Allowed(body),
           body.url.protocol = "https:" \/ hostname(body.url.host) # "[::1]"
    PROVE  Valid(body) /\ FitsColumns(body.customerId) /\ FitsColumns(body.signingSecret)
<1>1. body.url \in Url /\ body.customerId \in Text /\ body.signingSecret \in Text
  BY SubscriptionsAssumption DEF Creation
<1>2. LoopbackHost(body.url.host) /\ hostname(body.url.host) # "[::1]" => isLoopback(body.url)
  BY <1>1 DEF isLoopback, hostname, LoopbackHost, Url
<1>3. normalizedWebhookUrl(body.url)
  BY <1>2 DEF Allowed, AllowedUrl, normalizedWebhookUrl, allowedLocalHttp
<1>4. \A t \in Text : /\ trim(t).word = t.word
                      /\ t.word.length \in Nat /\ t.word.units \in Nat
                      /\ t.word.length <= t.word.units
                      /\ RawLength(t) \in Nat /\ RawLength(t) >= t.word.length
  BY DEF Text, Word, trim, RawLength
<1>5. createWebhookSubscriptionSchema(body)
  BY <1>1, <1>4, SubscriptionsAssumption
     DEF createWebhookSubscriptionSchema, Allowed, AllowedUrl
<1>6. Required(body.customerId, MaxLength) /\ LongEnough(body.signingSecret)
  BY <1>1, <1>4, SubscriptionsAssumption DEF Required, LongEnough, Allowed
<1> QED
  BY <1>3, <1>5, <1>6 DEF Valid, Allowed, FitsColumns

LEMMA AcceptedStep == AllowedIsAccepted /\ [Next]_vars => AllowedIsAccepted'
<1> SUFFICES ASSUME AllowedIsAccepted, [Next]_vars PROVE AllowedIsAccepted'
  OBVIOUS
<1>1. ASSUME NEW h \in Handlers, NEW body \in Creations, create(h, body)
      PROVE  AllowedIsAccepted'
  <2>1. /\ answer'.request[2] = body
        /\ Valid(body) /\ FitsColumns(body.customerId) /\ FitsColumns(body.signingSecret)
                => answer'.code = 201
    BY <1>1 DEF create, Respond
  <2> QED
    BY <2>1, AllowedIsValid DEF AllowedIsAccepted, Allowed, AllowedUrl, hostname, RawLength, LoopbackHost
\* The other answers are not to a POST.
<1>2. ASSUME NEW method \in {"GET", "PATCH"}, NEW what, NEW code, NEW shown,
             Respond(<<method, what>>, code, shown)
      PROVE  AllowedIsAccepted'
  BY <1>2 DEF Respond, AllowedIsAccepted
<1>3. CASE UNCHANGED answer
  BY <1>3 DEF AllowedIsAccepted, Allowed, AllowedUrl, hostname, RawLength, LoopbackHost
<1>4. ASSUME NEW h \in Handlers, NEW customer \in Customers, listEnabled(h, customer)
      PROVE  AllowedIsAccepted'
  BY <1>2, <1>4 DEF listEnabled
<1>5. ASSUME NEW h \in Handlers, NEW s \in SubscriptionIds, NEW enabled \in BOOLEAN,
             setEnabled(h, s, enabled)
      PROVE  AllowedIsAccepted'
  BY <1>2, <1>3, <1>5 DEF setEnabled
<1>6. ASSUME NEW h \in Handlers, ReadBack(h) \/ Fail(h) PROVE AllowedIsAccepted'
  BY <1>2, <1>6 DEF ReadBack, Fail
<1> QED
  BY <1>1, <1>3, <1>4, <1>5, <1>6 DEF Next, vars

\* A body that keeps every rule creates a subscription, whatever other requests
\* are being served, unless its URL is HTTP to the loopback address of IPv6, which
\* is allowed by the documentation and refused by the code.
THEOREM AllowedAreAccepted == Spec => []AllowedIsAccepted
<1>1. Init => AllowedIsAccepted
  BY DEF Init, AllowedIsAccepted
<1> QED
  BY <1>1, AcceptedStep, PTL DEF Spec
=============================================================================
