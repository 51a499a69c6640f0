-------------------------------- MODULE Curl --------------------------------
(* curl (src/internal/commands/curl/curl.go) under a network policy          *)
(* (src/pkg/network/policy.go): one request, the redirects it leads to, each *)
(* checked, dialled and answered anew, and the delivery of the last answer.  *)
(* Names resolve differently each time, addresses are out of reach, answers  *)
(* are late, broken off or too long. The HTTP client is net/http's: what it  *)
(* does with a redirect is external. A URL's host is the sequence of its     *)
(* labels, its path the sequence of its components before cleaning.          *)
EXTENDS CommandRun

CONSTANTS
  CurlPolicies,  \* rules, maxRedirects, maxRequest, maxResponse, allowPrivate, ownClient
  CurlOptions,   \* url, method ("" without -X), body, headers and the flags
  CurlUrls,      \* where servers redirect to
  CurlAnswers,   \* statuses and sizes of answers
  DefaultMaxRedirects,
  MaxAddresses   \* a name resolves to at most so many addresses

\* A policy is what parsing one gives; a status and a size are numbers.
ASSUME CurlAssumption ==
  /\ \A policy \in CurlPolicies :
       /\ DOMAIN policy = {"rules", "maxRedirects", "maxRequest", "maxResponse", "allowPrivate", "ownClient"}
       /\ policy.maxRedirects \in Int /\ policy.maxResponse \in Nat
  /\ \A answer \in CurlAnswers : answer.status \in Nat /\ answer.size \in Nat
  /\ DefaultMaxRedirects \in Nat /\ MaxAddresses \in Nat

Addresses == {"public", "private"}

CurlStart(policy, opts) ==
  [phase |-> "request", policy |-> policy, opts |-> opts, req |-> [method |-> ""], sent |-> <<>>,
   answer |-> [status |-> 0, size |-> 0, to |-> <<>>],
   made |-> FALSE, output |-> "old", stdout |-> <<>>, code |-> 0]
CurlStarts == {CurlStart(policy, opts) : policy \in CurlPolicies, opts \in CurlOptions}
CurlInit == command = "curl" /\ state \in CurlStarts

-----------------------------------------------------------------------------
(* The policy.                                                               *)

Normalized(policy) ==
  IF policy.maxRedirects = 0 THEN [policy EXCEPT !.maxRedirects = DefaultMaxRedirects] ELSE policy

canonicalPort(url) ==
  IF url.port # 0 THEN url.port ELSE IF url.scheme = "https" THEN 443
  ELSE IF url.scheme = "http" THEN 80 ELSE 0

\* "*" is any host, "*.x" any strictly below x.
hostMatches(host, rule) ==
  \/ rule.any
  \/ ~rule.wild /\ host = rule.labels
  \/ rule.wild /\ Len(host) > Len(rule.labels) /\ Seqs!IsSuffix(rule.labels, host)

Clean(path) ==
  Seqs!FoldLeft(LAMBDA done, part : IF part # ".." THEN Append(done, part)
                                    ELSE IF done = <<>> THEN done ELSE Seqs!Front(done),
                <<>>, path)
pathAllowed(path, allowed) == Seqs!IsPrefix(Clean(allowed), Clean(path))

\* An empty field of a rule stands for anything.
ruleAllows(policy, req) ==
  \E rule \in policy.rules :
    /\ rule.scheme \in {"", req.url.scheme}
    /\ hostMatches(req.url.host, rule.host)
    /\ rule.port \in {0, canonicalPort(req.url)}
    /\ pathAllowed(req.url.path, rule.path)
    /\ rule.methods = {} \/ req.method \in rule.methods
    /\ rule.headers = {} \/ req.headers \subseteq rule.headers

Check(policy, req) ==
  /\ req.url.scheme \in {"http", "https"}
  /\ ~req.url.user /\ req.url.host # <<>>
  /\ ruleAllows(policy, req)

\* Takes the first hop for all of them.
redirectUnchecked(policy, req, via) == Len(via) < Normalized(policy).maxRedirects

redirectChecker(policy, req, via) ==
  Len(via) < Normalized(policy).maxRedirects /\ Check(policy, req)

-----------------------------------------------------------------------------
(* The run.                                                                  *)

CurlFails == Becomes(Done(1))

\* A body makes GET, asked for or not, a PUT or a POST.
Method(opts) ==
  LET method == IF opts.method = "" THEN "GET" ELSE opts.method
  IN  IF method # "GET" \/ opts.body.kind = "none" THEN method
      ELSE IF opts.body.kind = "upload" THEN "PUT" ELSE "POST"

\* request: reads the files of the body and of the cookies, builds and checks.
CurlRequest(readable) ==
  /\ Runs("curl", "request")
  /\ LET opts == state.opts
         req == [method |-> Method(opts), url |-> opts.url, size |-> opts.body.size,
                 headers |-> opts.headers \cup (IF opts.body.kind \in {"form", "data"}
                                                THEN {"Content-Type"} ELSE {})]
     IN  IF (opts.body.file /\ ~readable) \/ req.size > state.policy.maxRequest
              \/ ~Check(Normalized(state.policy), req)
         THEN CurlFails
         ELSE Becomes([state EXCEPT !.phase = "dial", !.req = req])

Asked(address) ==
  Becomes([state EXCEPT !.phase = "answer",
                        !.sent = Append(@, [req |-> state.req, address |-> address])])

dials(policy, ips) == {i \in DOMAIN ips : policy.allowPrivate \/ ips[i] = "public"}

\* dialContext: the first address that is allowed and can be reached. A client
\* the host brought along dials on its own.
CurlDial(ips, reached) ==
  /\ Runs("curl", "dial")
  /\ LET candidates == (IF state.policy.ownClient THEN DOMAIN ips ELSE dials(state.policy, ips)) \cap reached
     IN  IF candidates = {} THEN CurlFails ELSE Asked(ips[Sets!Min(candidates)])

\* The connection of an earlier hop to the same server is used again.
CurlReuse(h) ==
  /\ Runs("curl", "dial")
  /\ h \in DOMAIN state.sent
  /\ LET url == state.sent[h].req.url
     IN  url.scheme = state.req.url.scheme /\ url.host = state.req.url.host
         /\ canonicalPort(url) = canonicalPort(state.req.url)
  /\ Asked(state.sent[h].address)

\* What net/http asks next: 307 and 308 send the same again, the others get; the
\* page that was left is named unless it was safer.
Redirected(req, answer) ==
  LET same == answer.status = 307
      referer == IF req.url.scheme = "https" /\ answer.to.scheme = "http" THEN {} ELSE {"Referer"}
  IN  [method |-> IF same \/ req.method = "HEAD" THEN req.method ELSE "GET",
       url |-> answer.to, size |-> IF same THEN req.size ELSE 0,
       headers |-> req.headers \cup referer]

Replies == {[status |-> a.status, size |-> a.size, to |-> to] : a \in CurlAnswers, to \in CurlUrls}
IsRedirect(answer) == answer.status \in {302, 307}

CurlAnswer(answer) ==
  /\ Runs("curl", "answer")
  /\ LET next == Redirected(state.req, answer) IN
     IF ~IsRedirect(answer) \/ ~state.opts.location
     THEN IF state.opts.fail /\ answer.status >= 400 THEN CurlFails
          ELSE Becomes([state EXCEPT !.phase = "body", !.answer = answer])
     ELSE IF redirectChecker(state.policy, next, state.sent)
     THEN Becomes([state EXCEPT !.phase = "dial", !.req = next])
     ELSE CurlFails

\* Reads one byte more than it may keep, to know.
CurlBody ==
  /\ Runs("curl", "body")
  /\ IF ~state.opts.headOnly /\ state.answer.size > state.policy.maxResponse THEN CurlFails
     ELSE Becomes([state EXCEPT !.phase = "deliver"])

\* The connection breaks or the deadline passes.
CurlLate == /\ command = "curl" /\ state.phase \in {"dial", "answer", "body"}
            /\ CurlFails

Delivered == [head |-> state.opts.includeHeaders \/ state.opts.headOnly,
              size |-> IF state.opts.headOnly THEN 0 ELSE state.answer.size]
WriteOut == IF state.opts.writeOut THEN <<state.answer.status>> ELSE <<>>

\* The directory of the output file, then the file.
CurlDirectory(works) ==
  /\ Runs("curl", "deliver") /\ state.opts.output /\ ~state.made
  /\ IF works THEN Becomes([state EXCEPT !.made = TRUE]) ELSE CurlFails

CurlWrites(works) ==
  /\ Runs("curl", "deliver") /\ state.opts.output /\ state.made
  /\ IF works THEN Becomes([Done(0) EXCEPT !.output = Delivered, !.stdout = WriteOut]) ELSE CurlFails

CurlPrints ==
  /\ Runs("curl", "deliver") /\ ~state.opts.output
  /\ Becomes([Done(0) EXCEPT !.stdout = <<Delivered>> \o WriteOut])

CurlNext ==
  \/ \E works \in BOOLEAN : CurlRequest(works) \/ CurlDirectory(works) \/ CurlWrites(works)
  \/ \E ips \in UNION {[1 .. n -> Addresses] : n \in 0 .. MaxAddresses} :
       \E reached \in SUBSET DOMAIN ips : CurlDial(ips, reached)
  \/ command = "curl" /\ \E h \in DOMAIN state.sent : CurlReuse(h)
  \/ \E answer \in Replies : CurlAnswer(answer)
  \/ CurlBody \/ CurlLate \/ CurlPrints

CurlSpec == CurlInit /\ [][CurlNext]_commandVars

-----------------------------------------------------------------------------
\* Whatever servers answer and names resolve to, each request that leaves, the
\* redirected ones too, is one the policy allows by itself, goes to an address
\* it allows unless the host brought its own client, and there are never more
\* of them than maxRedirects, or one without -L; a body is sent again only
\* where it was sent before; a run that fails leaves the output as it was and
\* prints nothing, and one that succeeds delivers the whole last answer, no
\* larger than allowed (policy.go:85-103, 196-230, curl.go:233-306).
CurlObeys ==
  command = "curl" =>
    /\ \A h \in DOMAIN state.sent :
         /\ Check(state.policy, state.sent[h].req)
         /\ state.policy.allowPrivate \/ state.policy.ownClient \/ state.sent[h].address = "public"
         /\ state.sent[h].req.size > 0 => \A g \in 1 .. h : state.sent[g].req.size = state.sent[h].req.size
    /\ Len(state.sent) <= IF state.opts.location THEN Larger(Normalized(state.policy).maxRedirects, 1) ELSE 1
    /\ state.code # 0 => state.output = "old" /\ state.stdout = <<>>
    /\ state.phase = "done" /\ state.code = 0 =>
         /\ Len(state.sent) > 0
         /\ IF state.opts.output THEN state.output = Delivered /\ state.stdout = WriteOut
            ELSE state.output = "old" /\ state.stdout = <<Delivered>> \o WriteOut
         /\ Delivered.size <= state.policy.maxResponse
         /\ state.opts.fail => state.answer.status < 400
         /\ state.opts.location => ~IsRedirect(state.answer)
=============================================================================
