-------------------------------- MODULE Webhook --------------------------------
(***************************************************************************)
(* Webhook validation: the platform signs the URL it posts to and the body; *)
(* WrapWithSignatureValidation rebuilds the URL from the request, and runs  *)
(* the handler when ValidateWebhookSignature finds the signature right.     *)
(* ValidateRequest is the second entry point, for parameters the            *)
(* application has parsed.                                                  *)
(*                                                                         *)
(* A signature stands for the key and the text it was made with (no two     *)
(* texts collide), a hash of a body for the body. Paths, which are carried  *)
(* along, and url-encoding, which is undone, are left out.                  *)
(***************************************************************************)
EXTENDS Lists

CONSTANTS
  Names,        \* the names of parameters, in ASCII order
  BodyHash,     \* one of them: "bodySHA256"
  Urls,         \* what the platform may post to
  Bodies,       \* what it may post
  Keys, Key,    \* the keys it may sign with, and the one of this agent
  Options,      \* the options of the wrapper
  None

VARIABLE hook   \* at: how far the request is; sent: what the platform signed;
                \* request: what has arrived; outcome, raw, parsed: the verdicts

-------------------------------------------------------------------------------
(* Faults: what a plausible mistake would make of a definition that follows. *)

\* The hash in the URL is not looked at.
AnyBody(u, body) == TRUE
\* Only the URL as it is.
AsItIs(u) == {u}
-------------------------------------------------------------------------------
(* Texts. A URL is [scheme, host, port, query], a body [id, form, items]; a  *)
(* query, the items of a form, and what is put together from them to be      *)
(* signed are sequences of [name, value].                                    *)

Named(items, n) == Only(items, {p \in ToSet(items) : p.name = n})

\* A stable sort by name.
ByName(items) == FlattenSeq([i \in DOMAIN Names |-> Named(items, Names[i])])

\* sorted_concat_pairs
SortedConcat(items) == ByName(items)

Raw(body) == <<[name |-> body.id, value |-> ""]>>

\* parse_form_body takes any text for a form: JSON is one name without a value.
ParsedConcat(body) == IF body.form THEN SortedConcat(body.items) ELSE Raw(body)

\* FormParams: the values of each name, in the order they came.
FormParams(items) ==
  [n \in ToSet(Names) |-> [j \in DOMAIN Named(items, n) |-> Named(items, n)[j].value]]

\* sorted_concat_form_params
ConcatFormParams(params) ==
  FlattenSeq([i \in DOMAIN Names |->
    [j \in DOMAIN params[Names[i]] |-> [name |-> Names[i], value |-> params[Names[i]][j]]]])

StandardPort(scheme) == IF scheme = "https" THEN "443" ELSE "80"

CandidateUrls(u) ==
  {u} \cup (IF u.port = "" THEN {[u EXCEPT !.port = StandardPort(u.scheme)]} ELSE {})
      \cup (IF u.port = StandardPort(u.scheme) THEN {[u EXCEPT !.port = ""]} ELSE {})

CheckBodySha256(u, body) ==
  LET i == SelectInSeq(u.query, LAMBDA p : p.name = BodyHash)
  IN  i # 0 => u.query[i].value = body.id
-------------------------------------------------------------------------------
(* The validator. *)

Signature(key, code, url, text) == [key |-> key, code |-> code, url |-> url, text |-> text]

ValidateWebhookSignature(sig, url, body) ==
  \/ sig = Signature(Key, "hex", url, Raw(body))
  \/ \E u \in CandidateUrls(url), text \in {ParsedConcat(body), <<>>} :
       sig = Signature(Key, "base64", u, text) /\ CheckBodySha256(u, body)

\* ValidateRequest of parsed parameters: there is no body to compare a hash with.
ValidateRequest(sig, url, params) ==
  \E u \in CandidateUrls(url) :
    sig = Signature(Key, "base64", u, ConcatFormParams(params))
-------------------------------------------------------------------------------
(* The middleware. *)

\* httplib drops a pair that is there twice.
Once(items) == At(items, {i \in DOMAIN items : \A j \in 1..(i - 1) : items[j] # items[i]})

\* req.params is a multimap: sorted by name, and a form is parsed into it, too.
Params(r) == ByName(Once(r.query) \o (IF r.body.form THEN Once(r.body.items) ELSE <<>>))

ReconstructUrl(r, opts) ==
  LET base == IF opts.base # None THEN opts.base ELSE opts.env
      origin == IF base # None THEN base
                ELSE IF opts.trustProxy /\ r.forwarded # None THEN r.forwarded
                ELSE [scheme |-> "https", host |-> r.host.host, port |-> r.host.port]
  IN  [scheme |-> origin.scheme, host |-> origin.host, port |-> origin.port,
       query |-> Params(r)]

\* The legacy header counts when there is no other.
SignatureOf(r) == IF r.signalwire # None THEN r.signalwire ELSE r.twilio

Verdict(r, opts) ==
  IF /\ SignatureOf(r) # None
     /\ ValidateWebhookSignature(SignatureOf(r), ReconstructUrl(r, opts), r.body)
  THEN "ran" ELSE "forbidden"
-------------------------------------------------------------------------------
(* One webhook. *)

\* What the platform signs: a body as it is; a form; JSON on the surface for
\* forms, with or without the hash of the body in the URL.
Signed(key, scheme, u, body) ==
  CASE scheme = "json" -> Signature(key, "hex", u, Raw(body))
    [] scheme = "form" -> Signature(key, "base64", u, SortedConcat(body.items))
    [] OTHER           -> Signature(key, "base64", u, <<>>)

Schemes(body) == IF body.form THEN {"json", "form"} ELSE {"json", "url", "hashed"}

Init ==
  \E o \in Options : hook = [at |-> "wrapped", options |-> o]

Post ==
  /\ hook.at = "wrapped"
  /\ \E u \in Urls, body \in Bodies, key \in Keys : \E scheme \in Schemes(body) :
       LET hash == IF scheme = "hashed" THEN <<[name |-> BodyHash, value |-> body.id]>>
                                        ELSE <<>>
           url  == [u EXCEPT !.query = @ \o hash]
       IN  hook' = [at |-> "posted", options |-> hook.options,
                    sent |-> [scheme |-> scheme, url |-> url, body |-> body, key |-> key,
                              signature |-> Signed(key, scheme, url, body)]]

\* The Host header of a URL leaves the standard port out.
HostHeader(u) == [host |-> u.host,
                  port |-> IF u.port = StandardPort(u.scheme) THEN "" ELSE u.port]

\* On its way the request may pass a proxy, which knows the agent under another
\* name and may tell the first one, or something that writes the body anew.
Deliver ==
  /\ hook.at = "posted"
  /\ \E body \in Bodies, proxy \in {"none", "silent", "forwarding"},
        header \in {"signalwire", "twilio", "neither"} :
       LET s == hook.sent
           h == HostHeader(s.url)
       IN  hook' = [at |-> "arrived", options |-> hook.options, sent |-> s,
             request |->
               [query |-> s.url.query, body |-> body,
                host |-> IF proxy = "none" THEN h ELSE [host |-> "internal", port |-> "3000"],
                forwarded |-> IF proxy # "forwarding" THEN None
                              ELSE [scheme |-> s.url.scheme, host |-> h.host, port |-> h.port],
                signalwire |-> IF header = "signalwire" THEN s.signature ELSE None,
                twilio     |-> IF header = "twilio" THEN s.signature ELSE None]]

Handle ==
  /\ hook.at = "arrived"
  /\ hook' = [at |-> "handled", options |-> hook.options, sent |-> hook.sent,
               request |-> hook.request, outcome |-> Verdict(hook.request, hook.options)]

\* An application that knows the URL validates by itself, in both ways.
Validate ==
  /\ hook.at = "handled" /\ hook.request.body.form
  /\ LET s == hook.sent
         r == hook.request
     IN  hook' = [at |-> "validated", options |-> hook.options, sent |-> s,
           request |-> r, outcome |-> hook.outcome,
           raw    |-> ValidateWebhookSignature(s.signature, s.url, r.body),
           parsed |-> ValidateRequest(s.signature, s.url, FormParams(r.body.items))]

Next == Post \/ Deliver \/ Handle \/ Validate

Spec == Init /\ [][Next]_hook
-------------------------------------------------------------------------------
(* Properties. *)

Handled == hook.at \in {"handled", "validated"}

\* The handler of the middleware ran, or an entry point said yes.
Accepted == \/ Handled /\ hook.outcome = "ran"
            \/ hook.at = "validated" /\ (hook.raw \/ hook.parsed)

\* Only a body the key was used for passes, by the middleware and by both entry points
\* of the validator: nothing between the platform and the handler can change the body
\* unseen, unless the platform signed the URL alone.
ChangedIsRefused ==
  Accepted =>
    /\ hook.sent.key = Key
    /\ \/ hook.request.body = hook.sent.body
       \/ hook.sent.scheme = "url"
       \/ hook.sent.scheme = "form"
            /\ ParsedConcat(hook.request.body) = ParsedConcat(hook.sent.body)

\* What the platform has sent with the key of this agent, and has arrived as it was.
Genuine ==
  /\ hook.sent.key = Key /\ hook.request.body = hook.sent.body
  /\ SignatureOf(hook.request) # None

Unported(u) == [u EXCEPT !.port = IF @ = StandardPort(u.scheme) THEN "" ELSE @]

\* The request, or the configuration, tells the origin the platform posted to; for
\* a body that is signed as it is, port included.
OriginIsKnown ==
  LET o == ReconstructUrl(hook.request, hook.options)
      u == [hook.sent.url EXCEPT !.query = o.query]
  IN  u = o \/ (hook.sent.signature.code = "base64" /\ Unported(u) = Unported(o))

\* A genuine request reaches the handler: header or legacy header, behind a proxy or
\* not, port written or not, JSON signed in any of the three ways. Only for URLs
\* whose query is sorted and without repetition, and for bodies that are no forms.
GenuineJsonIsAccepted ==
  /\ Handled /\ Genuine /\ OriginIsKnown /\ ~hook.request.body.form
  /\ hook.sent.url.query = ByName(Once(hook.sent.url.query))
  => hook.outcome = "ran"

\* webhook_middleware.hpp: "Reconstruct the public URL the platform POSTed to". It
\* does not: the query is sorted, and the fields of a form become part of it.
GenuineIsAccepted == Handled /\ Genuine /\ OriginIsKnown => hook.outcome = "ran"
===============================================================================
