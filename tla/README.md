# minidp in TLA+

minidp is a small OpenID Connect provider: one Go process that signs users in,
issues authorization codes, access, id and refresh tokens, and can take them
back, plus two command line tools that change files the process reads when it
starts (`minidp rotate-keys`, `clientctl`). This directory holds TLA+ models of
the parts that keep state, TLC runs on small instances, and TLAPS proofs of
their safety properties for all instances. `PROJECT.json` maps every definition to the lines it models.

## The system

| part | state | operations | shared with |
|---|---|---|---|
| token store (`store.go`) | codes, live and used refresh tokens, known and denied jtis, one mutex | add/take code, add/take refresh, register/deny jti, revoke family or token, lazy sweep | every handler |
| token endpoint, issuance (`handlers.go`, `tokens.go`) | none of its own | three grants; `issueTokens` makes several store calls | store, keys |
| `/revoke`, `/introspect`, `/userinfo`, `/end_session` | none | deny a jti, revoke a family, answer for a token | store |
| authorization endpoint (`handlers.go`, `csrf.go`) | CSRF secret per process; nonce cookie and forms in the browsers | validate the request, render form, verify, limit, authenticate, issue code, redirect | limiter, store, clients |
| client address (`server.go`) | none; trusted proxy ranges | `clientIP` from socket, `X-Forwarded-For`, `X-Real-IP` | limiter |
| rate limiter (`ratelimit.go`) | buckets, time of last sweep, one mutex | `allow`, sweep | login only |
| client authentication (`handlers.go`) | none | Basic and form credentials | clients |
| claims (`tokens.go`, `handlers.go`) | the clients file as loaded at start; the tokens out there | what goes into a token, `/userinfo`, logout redirect | clients, tokens of earlier processes |
| signing keys (`key.go`) | key directory; key set loaded at start | first start, rotation, prune, sign | several processes, through the directory |
| clients file (`clients.go`, `jsonfile.go`, `cmd/clientctl`) | one JSON file, temp files | add, update, remove clients and users; load at start | several processes, through the file |
| configuration, discovery, CORS, templates | constant after start | read-only; `LoadKeyRetention` for the rotation command | |

`net/http` runs every request on its own goroutine. Store and limiter methods
hold their mutex throughout, so each is one step; what is hard is what happens
*between* two store calls of one handler. Everything on disk is changed by
temp file and rename, by processes that know nothing of each other and can die
anywhere. The store lives in memory: a restart forgets it, while a persistent
key keeps delivered tokens verifiable. Every map entry and form has an expiry,
tested at several places with slightly different comparisons. And tokens
outlive the clients file they were minted from: an operator edits it, restarts,
and the endpoints judge old tokens by new entries.

What makes each part correct is stated as properties next to its model; the
list of hazards in `PROJECT.json` says which property is for which line.

## Modules

| module | models | notes |
|---|---|---|
| `TokenService` | store, token endpoint, the endpoints that end a token's life | the core |
| `RefreshChain` | abstract: the life of a refresh chain (unborn, held, live, over) | |
| `TokenServiceChain` | refinement mapping `TokenService` -> `RefreshChain` | |
| `TokenServiceInv` | the inductive invariant, in parts | |
| `KeyBoot` | `persistentSigningKey`: first start with peers and crashes | names and inodes |
| `KeyRotation` | `RotateKeys`, `keySetFromDir`, running servers | |
| `RateLimiter` | `allow`, `sweepLocked` | |
| `IdealLimiter` | abstract: one bucket per address, no sweeping | |
| `Login` | GET and POST `/authorize`: request validation, CSRF token, nonce cookie, tabs, redirects, `clientIP` | EXTENDS `RateLimiter` |
| `Claims` | the content of tokens, and the endpoints that read it after the clients file changed | endpoints are functions of token and file |
| `ClientAuth` | `authenticateClient`, `requireClientAuth` | a function of one request |
| `ClientsFile` | clients file, `clientctl`, the server's load | |
| `MC...` | constants and instances for TLC | `MCRateLimiter` also holds the refinement mapping to `IdealLimiter` |
| `...Proofs` | theorems about `TokenService`, `KeyBoot`, `KeyRotation`, `RateLimiter`, `Login`, `Claims`, `ClientAuth`, `ClientsFile` | TLAPS |

Each component has one module and one action per operation. Operators marked
`Fault:` are not part of any specification: each is a plausible mistake in the
operation that follows it, kept to show that a property would notice it.

### TokenService

A Go map is the set of its entries. A handler with one store call is one
action. A handler with several runs in a `Worker` slot, whose `pc` says which
store call comes next:

* `HandleCodeGrant` (takeCode, validateCodeGrant) -> `IssueRegister`
  (registerJTI) -> `IssueRefresh` (id_token, addRefresh, response), or
  `IssueFails` at either point;
* `HandleRefreshGrant` (takeRefresh) -> the same, or `MismatchRevoke` when a
  foreign client presented the token;
* `ParseAccess` (signature, expiry) -> `CheckDenied` (denylist) -> `Respond`,
  or `DenyJTI` for `/revoke`.

`dropExpired` runs inside the operations that call it in the code and nowhere
else. Ids are numbers never drawn before, standing for 256-bit random values.
`bearer` and `idTokens` are the JWTs clients hold. `grants`, `spent`, `revoked`,
`closed` and `boot` are history. `closed` is the set of families revoked while
no issuance for them was in flight: the code keeps its promise about revocation
for these (`ClosedIsFinal`), not for all (`RevokedIsFinal` is violated).

A token's `exp` is the expiry of its jti record. In the code `exp` is in whole
seconds, truncated, and the record in nanoseconds (`tokens.go`): the record
outlives the token by a fraction of a second, which is the safe side. A PKCE
challenge is named by its only preimage. `HandleClientCredentials` is
one action: its single store call is followed by the response.

### KeyBoot and KeyRotation

Files are inodes that names refer to, as an open file survives the removal or
the rename of its name; this is where the surprises are. `KeyBoot` writes in
two steps so that a partial file is visible, `KeyRotation` truncates an
existing temp file as `O_TRUNC` does. `overlap` is a history variable in both:
whether two starts, two rotations, or a rotation and the very first start ever
ran at once. `faults` counts deaths and failed writes in `KeyBoot`. `TimeOut`
assumes that generating a key takes less than the ten seconds of `awaitFile`: a
waiter gives up only when the instance whose temp file it saw is no longer at
work. In `KeyRotation` the clock ticks in units of token lifetimes and stands
still while a rotation or a load is under way. The horizon is the one
`LoadKeyRetention` computes from the configured lifetimes; `retired` remembers
when a key was first retiring on disk, so that `RetentionCovers` can be stated
without it. Expired tokens are forgotten.

### RateLimiter and Login

Bucket levels are integers in units of 1/`Minute` token. `Login` gives the
browsers their cookie and the pages they have open; a GET and the arrival of
its answer are two steps, so tabs race. A form may be submitted by a browser it
was not rendered for, and a form of no page of ours (`Foreign`) may carry any
parameters: the answer is a form again, signed for what the POST carried, so
what a verified token covers need never have been validated. A submission has a
body, the fields of the form or what came in their place, and a URL that may
have parameters too (`Submission`): the fingerprint is taken over both
(`OAuthParamsOf`, `r.Form`), while the request that is validated, echoed and
turned into a code is the body alone (`Context`, `r.PostForm`). POST validates again, in
the order of the code: client and redirect URI first (an error page), then the
rest (an error for the client). `sent` is the redirect the last step made.

A request reaches the server directly, through trusted proxies that append to
`X-Forwarded-For`, or through one that only sets `X-Real-IP` (`Arriving`), with
whatever the browser put into those headers; `ClientIP` picks the address the
limiter is asked about, `callers` remembers the true one.

### Claims

A scope is an authority and a name, so that `api://<audience>/<name>`, the
`.default` form and the OpenID scopes are told apart without strings. A process
loads a file, users authorize, `IssueTokens` and `ClientCredentials` mint, and
`Restart` loads another file: grants are gone, tokens are not, and each keeps
in `by` the file it was minted from. `/userinfo` and `/end_session` change
nothing here; they are operators on a token and the file loaded now, and the
properties quantify over every token in every state.
Expiry, denial and single use are left to `TokenService`.

### ClientsFile

A client entry keeps the fields validation relates to each other; a malformed
id, user name or URL is one member of its set. The flags of `client add` and
`client update` are records; `Overlay` puts those given over those the entry
has. A command loads, edits in
memory, validates and saves; the load and the three steps of the save
interleave with other invocations. `ReadClients` drops the role registry and
the save writes the bare array. After a failed write or rename the temp file is
removed, or stays and a warning names it (`logged`), as `removeTempFile` is
best effort; `dead` remembers the temp files of invocations that died.

## Runs

Passing:

| run | shows | bounds |
|---|---|---|
| `token_life` | no fork, replays recognised, tokens tracked, denials hold, a closed family is final and not answered for; `IInv`, the invariant of the proofs | 2 workers, 1 grant, 1 client_credentials token, 6 draws (a code, its family, two token sets), 1 restart |
| `token_codes` | one family per code, tokens bound to it, `TokenService` implements `RefreshChain` | 2 codes, 2 clients, wrong redirects and verifiers, 1 restart |
| `key_boot` | starts end, without a fault all come up; unless starts overlapped the key is whole and stable and everybody signs with it | 2 instances started again and again, 4 crashes or failed writes |
| `rotation` | one active key, on disk; without overlap starts succeed, staged keys stay, keys in use stay listed, and the default horizon covers every token of a server restarted in time | 2 rotators, 2 servers, 2 rotated keys, old and fresh directory, 6 ticks: the horizons of both rotations pass |
| `limiter` | window bound, no lockout, idle buckets go, sweeping changes nobody's budget (`IdealLimiter`) | 2 addresses, 9 ticks, 5 attempts, sweep at 2 buckets |
| `login_forms` | codes from one's own form and a valid request, redirects to registered URIs, retries verify, junk is free, one budget per real address | 2 browsers at 1 address, 2 forms, submitted as they are or with one field moved to the URL and a second value of another there; 4 requests (good, with a blank and an unechoed parameter, with two redirect URIs, with `prompt=none` and a scope of another client), foreign forms, 3 routes, misleading headers, 2 starts |
| `client_auth` | only one's own secret counts | 8 texts, all requests |
| `claims` | tokens say what their file allowed, `/userinfo` answers from the right record and only for tokens with `openid`, logout follows the right client | every pair of some 90 files: 2 clients sharing ids, audiences and user names; 1 grant per process, 1 token set, 2 starts |
| `clients_edits` | file stays readable, every leftover temp file has a death or a warning to explain it, edits keep the server's invariants, a command changes the entry it names | 3 commands, 2 at once, 1 crash, write errors, 1 failed removal |

Some run properties are conjunctions of named parts: `KeyInv` of `FinalComplete`
and `SignsWithDiskKey`, `DiskInv` of `ActiveOnDisk`, `ToolInv` of `NoStrayTemp`,
each with its module's `TypeOK`; `LoadedSound` of `GrantGuarded` and
`Serviceable`; `IInv` of the parts listed under Proofs.

Two workers suffice for races on one family because a store method touches one
family and a handler holds at most one; the proofs lift the bound. Six draws
are a code, its family, a first token set and a complete rotation, after which
both refresh tokens can be replayed. The clock bounds let every TTL (0 or 1)
run out after the last draw. One minted set is enough in `claims` because no
endpoint relates two tokens; two starts because an endpoint sees a token's own
file and the current one. Deadlock is not checked where the bounds
themselves stop the model (clock, draws, attempts, commands).

Runs that end in a counterexample, each against a sentence of the repository
(quoted in `PROJECT.json` under findings):

| run | the code |
|---|---|
| `token_revocation_race` | an exchange in flight revives a revoked family |
| `key_boot_two_winners` | look and create are two steps; a second key replaces the first |
| `clients_roles` | `clientctl` drops and does not enforce the role registry |

### Where the properties stop

Several properties carry a condition that the code makes necessary. Dropping it
gives a counterexample within the bounds above or slightly larger ones:

* `ClosedIsFinal` speaks of families revoked with no issuance in flight
  (`token_revocation_race`).
* `FinalComplete`, `KeyStable` and `SignsWithDiskKey` need `~overlap`: no two
  instances in the middle of a start at once. When they are, a take-over lets
  the instance that was taken over rename its successor's unfinished file,
  which stays truncated if the successor dies.
* `StartsSucceed`, `StagedKept`, `RetentionCovers` and `SignerTracked` need
  `~overlap`: no two rotations at once, which share `keyring.json.tmp` and each
  work on the ring they read, and no rotation beside the very first start,
  whose key it may fail to adopt. The comment of `persistKeyPEM`
  (`key.go:490-493`) says that `O_EXCL` "also serializes concurrent rotations:
  the loser gets an explicit error". It does not: the temp file is named after
  the new key's random id, so no two rotations meet there, both report success,
  and the later rename of the keyring drops the key the earlier one staged.
* `RetentionCovers` is about signers restarted within a refresh token's
  lifetime of the rotation. The horizon counts from the rotation, and a server
  that is not restarted goes on signing with the retiring key beyond it.
* `CodeFromOwnForm` allows a parameter to be missing from a code when the POST
  had it in its URL: the fingerprint covers it there, `oauthContextOf` does not
  look there. No other value can take its place. A form rendered in answer to
  such a POST is signed for the URL as well and does not verify when it is
  submitted; `RetryVerifies` is about forms that answer one submitted as it was
  rendered (the form's own action has no parameters).
* `RetryVerifies` is about forms whose nonce the browser still carries. Two
  first GETs in flight draw two nonces and the second cookie wins; the cookie
  is not renewed when a form is rendered again. The form of a first GET with a
  blank parameter does not verify (it is signed with the blank and echoed
  without), nor does the answer to a foreign form with one; the form rendered
  in answer to either does.
* `WindowPerAddress` supposes that proxies append to the `X-Forwarded-For` they
  got or replace it: `Header.Get` reads the first line of several.
* `OwnRecord` is about tokens whose client is still registered. When it is not,
  `userinfoClaims` falls back to the first client with the token's audience and
  answers from its user of the same name. It is also about user tokens: an app
  token whose client id is a user name, with `openid` and `email` among its
  configured scopes, gets that user's record. `LogoutOwnPolicy` has the same
  condition for the same fallback in `parseIDTokenHint`.
* A comment in `handleUserinfo` says that a token without a scope claim grants
  nothing; `parseScopes` reads an absent claim as `openid`.
  `UserinfoFailsClosed` holds because no path mints a token without scopes, not
  because of that check.
* `NoStrayTemp` does not say that temp files go: a removal that fails is logged
  and the file stays, as does that of a process that died.
* `OneEntryPerCommand` is about a save over the file the command loaded.
* `requireClientAuth` compares the Basic password as it came while
  `authClientBasic` decodes it; `NoFreeProbe` and `OwnSecretOnly` hold of both.
* `handleCodeGrant` and `handleRefreshGrant` do not consult `grant_types`, so
  no property of `TokenService` relies on it.

### Fairness

Only `KeyBoot` states liveness. `FairSpec` asks for weak fairness of each
instance's own steps: the operating system schedules a live process, and a ten
second deadline passes. Crashes and write errors are not fair. `EveryoneUp`
supposes that there are none, `StartsTerminate` does not.

## Proofs

Every safety property that a passing run checks, invariants, action properties
and both refinements, is also a theorem: it holds for every value of the
constants that meets the assumptions below. The theorems are listed in
`PROJECT.json`; each proof module starts with its inductive invariant, then
come lemmas about single operators, one lemma or step per action, and the
theorems.

### TokenServiceProofs

`Invariance` is `Spec => []IInv`, for any sets of workers, clients, contexts
and URIs and any lifetimes; the other theorems follow from it. None of the
properties is inductive alone. `FreshInv` (nothing mentions an id
not yet drawn) is what makes a new family new. `CodeInv` adds that a pending
code has opened no family. `BindInv` extends `FamilyBinding` to the handlers
that carry a family on. `JTIInv` is the largest part: all records of one access
token agree on expiry and family (`JTIAgree`), what a handler checks is a token
somebody holds (`JTIChecked`), and a token signed but not yet delivered is
tracked and in nobody's hands (`JTIMinted`): without it `LiveTracked` breaks at
`IssueRefresh` and `ClosedIsFinal` breaks when a family is revoked while a
token is on its way. The parts are proved in that order, each by one step per
action; frame lemmas (`JTIFrame`, `DeniedFrame`, `QuietStep`) deal with the
many actions that only shrink maps.

`ServiceImplementsChain` is the step simulation of `RefreshChain`. A step that
claims no chain (`Unclaimed`) maps to `End` or to nothing; the three that do
claim one (`HandleCodeGrant`, `HandleRefreshGrant`, `IssueRefresh`) map to
`Open`, `Exchange` and `HandOut`, because by `ChainLinear` nobody else has it.

### KeyBootProofs and KeyRotationProofs

`BootInv` says of starts that do not overlap what one start at a time knows:
its temp file is the one it opened, and nobody else has a key in the making.

For rotations there are two layers. `RingInv` holds for any number of rotations
at once: every document that is the keyring or may become it (`Live`) has one
active key, whose file is there, unique kids, and no entry that a prune of one
document would delete from under another. It gives `DiskInv`. `SoloInv` is what
holds besides as long as rotations did not overlap: the temp file is the one
command's own, that command has every key the keyring has, staged and signing
keys are in it, retiring entries expire a retention after their retirement, and
a key not past its horizon is on disk and published. It
gives the other four properties; `RetentionSuffices` needs the dates to compare
a token's expiry with the horizon.

### RateLimiterProofs and LoginProofs

The properties speak of histories, so the invariants relate the history to the
level of a bucket, which a sweep does not change (`LevelStored`). `WindowLevel`
bounds attempts in every window that ends now by what is missing from the
bucket; `WindowBound` follows, and windows in the past stay as they are.
`Recovers` says the same of the time since the last attempt let through.
`LimiterImplementsIdeal` supposes a positive rate: at rate zero the limiter is
off and `allow` touches no bucket. The division by sixty of the code is
avoided by counting tokens in `Minute`ths.

`ClientIPIsReal` is the fact behind both budget theorems of `Login`: whatever
the headers, a request that came through trusted proxies is counted on the
address that reached the first of them. `FormInv` says that a nonce belongs to
one browser, and that the fields of a form rendered again for an unchanged one
are those it was signed for; `HiddenIdempotent` is why a retry verifies. A body
that verifies is a prefix of what was signed, so the code has for each
parameter the first signed value, or none when the URL had it.
`LoginWindowInv`
carries the limiter's invariant through the login handlers and restarts.

### ClaimsProofs, ClientAuthProofs and ClientsFileProofs

`ClaimsInv`: every grant is for the file loaded now and has some scope, and
every token is as its own file says (`Minted`); the endpoints are then functions of a token and
the two files. `AnswerInv` says that an answer is the one for the request.

`FileInv`: every invocation that writes has a temp file of its own, and before
the rename the whole document is in it (`WriterInv`); what it saves was
validated and is the list it loaded but for the entry its command names
(`ToolOK`); what the server loaded was validated (`ServerInv`). `CommandDoes`
reduces the six commands to that. `TempsMove` is the step of one invocation as
the temp files see it: a new one has its writer, and one that loses its writer
goes, or is on one of the two lists.

### Assumptions

* `ClientAssumption`, `BoundAssumption`: a well-formed registration, lifetimes
  that are naturals, an access token that lives at least one tick. That ids do
  not repeat is part of the model (`Draw`).
* `BootAssumption`, `RotationAssumption`, `LimiterAssumption`: bounds, rates
  and lifetimes are naturals, lifetimes positive.
* `LoginAssumption`: a browser's own address is not a trusted proxy, a route
  consists of trusted proxies, a blank names no client and no URI, the
  parameters of requests and of changed submissions are sequences of values.
* `FilesAssumption` (`Claims`): the files are ones `ReadClientsFile` accepts.
* `CredentialAssumption`: texts, secrets and escapes have their types.
* `FileAssumption` (`ClientsFile`): flags have their types, and a file written
  by hand parses; it need not be valid.

TLC evaluates all of them on the instances of the runs. The proofs do not rest
on the bounds that the guards name: those are arbitrary naturals.

### Only model-checked

Liveness of `KeyBoot` (`StartsTerminate`, `EveryoneUp`): it needs fairness and
`ENABLED`, which the prover does not handle. The three counterexamples.

## Not modelled

CORS, templates, logging, errors, the discovery document (a function of the
loaded clients, which never change in a process) and the environment variables other than the lifetimes hold no state after
start and are decided by one request or none. `clientctl list`, `show` and
`hash`, flag parsing and prompts change no file. `/readyz` reports what
`StartsSucceed` already requires of a running server. An explicit
`IDP_RSA_PEM` and the in-memory key involve one process and nothing shared.
Lifetimes are naturals: that a number of seconds near 2^63 wraps when it
becomes a `time.Duration` is left out.
Cryptography is perfect: a signature verifies exactly under its key, a PKCE
challenge has one preimage, random ids are distinct. Power failure with
unsynced data, and the rounding of `float64` in the limiter, are left out.

## Plan

1. Done: the token core with its proofs, keys, limiter, login, client
   authentication, clients file.
2. Done: client addresses behind proxies and request validation in `Login`;
   claims and their later reading in `Claims`; repeated starts of two instances
   in `KeyBoot`; the configured horizon in `KeyRotation`.
3. Done: proofs of all safety properties of the runs and of both refinements.
4. Next: invariants towards `StartsTerminate` (one take-over per start, a
   bounded number of waits), which would leave only the fairness argument to
   TLC.
