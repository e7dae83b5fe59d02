----------------------- MODULE MCWebhookSubscriptions -----------------------
(* WebhookSubscriptions for TLC: one part of a body varies at a time.      *)
EXTENDS WebhookSubscriptions, TLC

Txt(chars, length, pad) ==
    [word |-> [chars |-> chars, length |-> length, units |-> length, nul |-> FALSE],
     pad |-> pad]
Emoji(length) == [Txt("emoji", length, 0) EXCEPT !.word.units = 2 * length]
Nul(length) == [Txt("nul", length, 0) EXCEPT !.word.nul = TRUE]

UrlTo(protocol, host) ==
    [uri |-> TRUE, parsed |-> TRUE, length |-> MaxUrl, protocol |-> protocol,
     host |-> host, credentials |-> FALSE]

Hosts == {"example.com", "LOCALHOST", "127.1", "[::1]"}

Plain ==
    [customerId |-> Txt("a", 1, 0), url |-> UrlTo("https:", "example.com"),
     signingSecret |-> Txt("s", MinSecret, 0)]

MCCustomers ==
    {Txt("a", 1, 0), Txt("a", 1, 1), Txt("b", 1, 0), Txt("", 0, 1), Emoji(1), Emoji(2),
     Nul(1), Txt("a", MaxLength, 0), Txt("a", MaxLength + 1, 0)}

MCCreations ==
    {[Plain EXCEPT !.customerId = t] : t \in MCCustomers}
    \cup {[Plain EXCEPT !.url = UrlTo(protocol, host)] :
            protocol \in {"https:", "http:", "ftp:"}, host \in Hosts}
    \cup {[Plain EXCEPT !.url.credentials = TRUE], [Plain EXCEPT !.url.uri = FALSE],
           [Plain EXCEPT !.url.parsed = FALSE], [Plain EXCEPT !.url.length = MaxUrl + 1]}
    \cup {[Plain EXCEPT !.signingSecret = Txt("s", length, pad)] :
            length \in {MinSecret - 1, MinSecret, MaxSecret, MaxSecret + 1}, pad \in 0 .. 1}
    \cup {[Plain EXCEPT !.signingSecret = t] : t \in {Emoji(MinSecret), Nul(MinSecret)}}

Symmetry == Permutations(Handlers) \cup Permutations(SubscriptionIds)
=============================================================================
