# Verification of the MeetGo server

TLA+ models of the Go server in `src/`, checked with TLC on small instances and,
where marked, proved with TLAPS for every instance. Every definition is taken
from the source; `PROJECT.json` maps each one to its lines.

## 1. Inventory

The server is one HTTP process (chi) over one PostgreSQL database (pgx pool,
READ COMMITTED, no server-wide lock) and an object storage for photos. Every
request is a goroutine that runs a handler, a service method and a few SQL
statements; its context is cancelled after 30 seconds (`server/router.go:42`).
Components interact through the tables only: no queue, no background worker,
no callback. All that is lazy (expiry of ads, of codes) happens inside a request.
A second program, the import of the cities, is run by hand beside the server and
writes one of its tables.

| component | state | operations | module |
|---|---|---|---|
| meeting: ads, likes, chats (`internal/meeting`) | `meeting_ads`, `meeting_ad_tags`, `meeting_candidates`, `chats` | Create, GetMine, GetByID, Update, Delete; Like, ListLikes, Accept, Reject | `Meeting`, `MeetingBoard` |
| auth (`internal/auth`) | `users`, `otp_codes`, `otp_send_events`, `refresh_sessions` | SendCode, CheckCode, Refresh, Logout | `Auth`, `SessionStore` |
| profile and photos (`internal/profile`) | `users.onboarding_step`, `users.is_created_profile`, `profiles`, `profile_interests`, `photos` | SaveBasics, SaveAbout, UploadPhoto, SetCrop, Reorder, DeletePhoto, Complete | `Profile` |
| photo storage (`platform/storage`) | objects | Put, Delete | `Profile` |
| geo (`internal/geo`) | `user_geo` | UpdateGPS, SetLocation | `Geo` |
| feed (`meeting/feed_*.go`) | none; a cursor at the client | Feed | `Feed` |
| e-mail rules (`auth/dto.go`) | none | canonicalEmail, isRussianEmail | `EmailRules` |
| city import (`cmd/geonames-import`) | `cities` (and, by CASCADE, `user_geo`) | a run of the command | `CityImport`, `Geo` |
| server process (`cmd/server`, `internal/server`, `database`, `platform/geoip`, `handler`) | run(), listener, error channel, pool, GeoIP file, requests in flight | start, accept, shut down, close | `Server` |
| access tokens (`auth/token.go`, `middleware.go`) | none | sign, verify, hash | not modelled |
| http helpers, config, interests, swagger | none of their own | encoding, settings, lookups | not modelled |

How they interact: meeting asks the profile component's tables whether a profile
is complete (`stage` of `Meeting`, moved by `Onboard`); the feed reads ads,
likes, photos and `user_geo`; the photo service calls the storage, outside any
transaction; auth creates the `users` row the others key on; geo finds cities in the
table the import writes, and the row of a user references two of them. The server process owns the pool and the GeoIP
file that all requests use.

What is hard in this code, and what each part must keep:

* **meeting** – a check and the write it is for are different statements:
  activeAdByProfile before the INSERT, candidateForAuthor before the UPDATE,
  adByID before the like. Expiry is decided by the database's clock in SQL and by
  the server's in Go. A transaction may die between its statements. Correct: one
  active ad per author, a chat exactly for accepted likes, decisions final, no
  overdue ad used as a live one, content never half edited, nobody waits forever.
* **auth** – nearly everything is check-then-act without a transaction: codes are
  read, compared, counted and deleted by four statements. Correct: only a good
  code or token lets anybody in, what a login or logout must end is ended, limits
  and lockouts hold as far as concurrency allows.
* **profile** – the storage cannot roll back, positions are unique and swapped in
  two phases, the completion is counted and set in different statements. Correct:
  steps in order and never back, photos have objects, objects have owners, the
  ceiling, the main photo.
* **geo** – the city is worked out from a position read earlier than it is
  written, the guard against jumps likewise. Correct: the place follows the mode.
* **city import** – one statement per city and no transaction, beside a server at work;
  TRUNCATE … CASCADE takes the users' rows with it; which Russian name wins depends on the
  order of the lines. Correct: a finished run leaves the table as the dump says, whatever died
  before; no user is left in a city that is gone.
* **server** – shutdown waits for 10 seconds, requests may take 30, pool.Close has no limit;
  the listener reports through a channel that may have no reader. Correct: what requests use outlives them, a signal ends
  the process.
* **feed** – keyset pages over ads that come and go and authors that move, with
  nothing kept at the server between two pages. Correct: what stays on the list is shown
  once, neither twice nor never, however the list and the viewer change.

`PROJECT.json` lists each hazard at its line, with the properties about it.

## 2. Plan

| module | purpose | state |
|---|---|---|
| `MeetingBoard` | abstract promise: publish, edit, close, expire, respond, accept, reject, each atomic | done |
| `Meeting`, `MCMeeting` | the statements of nine endpoints; implements `MeetingBoard` | done |
| `MeetingProofs` | types, the three main invariants, the refinement | done |
| `MeetingAnswerProofs` | what requests were answered: ContentWhole, DecisionStands, LiveAtStart, NoResurrection | done |
| `EmailRules` | which spellings are one inbox, which addresses are Russian | done |
| `SessionStore` | abstract promise: login, refresh and logout, each atomic | done |
| `Auth`, `MCAuth` | codes, accounts, sessions; implements `SessionStore` | done |
| `AuthProofs` | types, PriorRevoked, GoodAtStart, CodeLostForCause, the refinement | done |
| `AuthRulesProofs` | the limits, the lockout, canonical addresses and their accounts | done |
| `Profile`, `MCProfile`, `ProfileProofs` | onboarding and photos | done |
| `Geo` | position and city over a table of cities that changes | done |
| `CityImport`, `MCGeo` | the import beside the server; implements `Geo` | done |
| `GeoProofs` | the properties of `Geo`, and of the import beside it | done |
| `Feed`, `MCFeed`, `FeedProofs` | keyset paging over changing ads: no ad twice in a scan, none that stays is skipped | done |
| `Server`, `MCServer`, `ServerProofs` | start, serving and shutdown of the process | done |

Two compositions bind the modules: `CityImport` extends `Geo` and runs beside its
requests, `Auth` extends `EmailRules`. `Meeting` and `Feed` take
what they need of the other components as actions of the environment (`Onboard`, `Move`, `ViewerChanges`).

## 3. How code becomes actions

One action is one SQL statement (or one call of the storage), named for the
repository method that issues it. `req[r]` is a request: `op` its endpoint, `pc`
the statement it issues next, the other fields its local variables. So every
interleaving of statements of different requests is a behaviour, and what a
request holds in local variables may be stale when it uses it.

* *READ COMMITTED.* A statement sees what is committed. An UPDATE that finds its
  rows in a snapshot and then waits for locks is two actions where it matters
  (`ToRevoke`/`LockSessions`, `ShiftPositions`/`LockPhotos`, `InsertPhoto`/`PlacePhoto`);
  elsewhere it waits until the rows are free and acts on them at once, which
  is what re-evaluating the WHERE clause on the locked row gives.
* *Transactions.* The writes of an open transaction are in its request until the
  statement that commits them; its row locks are read off the `pc`
  (`AdLocked`, `CandLocked`, `Locked`, `PhotoLocked`). So when a request ends in any way,
  its locks and unwritten changes are gone.
* *Unique indexes.* An INSERT whose key is held by an open transaction waits
  (`Inserting`, `Pending`), then succeeds or violates the index.
* *Failure.* `Fail` may end a request before any statement: an error, a cancelled
  context, the death of the process. Restart needs nothing more, as all state is in the tables
  (an import that died is run again from its first line).
  Where the answer to a statement may be lost after its effect (the INSERT of a
  photo), the action has that outcome too.
* *Time.* `now` is the clock of the database. In `Meeting` the server's clock may
  differ by `Skew`; `Deadline` is the 30-second context, shorter than the 24-hour TTL.
  In `Auth` and `Geo` one clock serves both.
* *Answers.* `out` is kept only where a property asks for it; the other
  fields of an answered slot are reset, so that states do not differ in what nobody reads.

Abstracted data: descriptions and tags are one `Text`, ids are model values,
positions on the earth are points with distances `Dist` and a relation `Far`; the local part of an address is
a sequence of characters, as `canonicalEmail` takes it apart, and a domain is a name. `Auth` takes generated codes to be distinct
(the six digits may coincide, and in development mode every code is 000000: then a
second request for a code does not invalidate the first by its value).

## 4. Modules

**Meeting.** `Start` issues a request, `ProfileForUser`, `ExpireStale`, `ActiveAdFound`/
`NoActiveAd`, `CountTags`, `CreateAd`, `InsertAd`/`InsertConflict`, `InsertAdTags` (COMMIT)
are Create; `UpdateAdRow`, `ReplaceTags` (COMMIT) an edit; `CloseActiveAd` a delete;
`LikeAdByID`, `CreateCandidate` a like; `CandidateForAuthor`, then `MarkAccepted`,
`OpenChat` (COMMIT) or `RejectCandidate` a decision. `stage` stands for the profile
component. The refinement mapping to `MeetingBoard` is the identity on the tables:
what makes the refinement hold is that everything else stutters.

**Auth.** SendCode: `LastSendAt`, `CountByEmail`, `CountByIP`, `UpsertOTP`, `SendOTP`,
`InsertSendEvent`. CheckCode: `OtpByEmail`, then `ExpireOTP`, or `IncrementOTPAttempts` and
`LockOut`, or `ConsumeOTP`, `UserByCanonicalEmail`, `CreateUser`, `RevokeSessions`,
`LockSessions`, `InsertSession`, `Reply`. Refresh: `SessionByHash`, `UserByID`, `RevokeOld`,
`InsertSession`. Logout: `RevokeSessions`, `LockSessions`. History variables (`wrong`, `kept`,
and `first`, `live` and `prior` in a request) record what the properties compare with.
`Canon` is `canonicalEmail` of `EmailRules`; an initial state may hold accounts of addresses in `Old`, with
the canonical_email migration 000005 gave them (`Backfill`). `RussianIPs` are the client addresses GeoIP places in Russia.

The refinement to `SessionStore` is the identity on clock and table; `leaving` is worked
out of the requests (`Leaving`: logouts that are about to write). What makes it hold is that
a login or refresh writes old and new sessions in one commit, that a logout is the only other writer,
and that a session never changes its user.

**EmailRules.** `canonicalEmail` as the code computes it, and `SameInbox` as its comment explains it: a dot in a Gmail name, the other
Gmail domain, a character of a tag make no difference (`Plainer`, one change at a time).
`CanonicalIsTheInbox`, a conjunct of AccountPerInbox, compares the two: TLC over all local parts of up to four
of the characters `a`, `b`, `.` and `+` at three domains, `CanonicalForms` proves it for every address.

**Profile.** One user, as every statement is restricted to one user or profile.
`store` is the storage. An upload is `Put`, `InsertPhoto`, `PlacePhoto`, perhaps `CleanUp`;
a deletion `DeleteRow`, `DeleteStored`; a new order `PhotosByProfileID`, `ShiftPositions`,
`LockPhotos`, `PlacePhotos`. `lost` and `unheard` are history: objects whose request
broke off, rows whose INSERT was not confirmed.

**Geo.** One user: `CurrentGeo`, `Plausible` (which reads the clock, perhaps much later),
`NearestCityID`, `ApplyGPS`; `CityExists`, `SetManual`; `SetAuto`; `ModeAndCity`. The rows of `cities` are
inserted, overwritten (`Upsert`) or all removed (`Truncate`, with the user's row) at any moment; `Referable` is
the foreign key that a write of a city meets. `been` is history: the centroids a row has had.

**CityImport.** `Kept` is the filter of parseCities, `Scan` one line of parseRuNames; `StartImport`, perhaps
`TruncateCities`, one `UpsertCity` per city, `FinishImport`, and `FailImport` at any point. Which files a run reads and
whether it truncates is chosen at its start. `ImplementsGeo` shows that a running import does to
the table no more than `Geo` allows for, so that the proofs about `Geo` hold beside it.

**Server.** `main` is what run() does next, the deferred calls included (`ipGeo.Close`, `pool.Close`, `stop`). The goroutine of
ListenAndServe is `listener`; `errCh` counts what is in the channel. A request is seen from the pool:
it waits for a connection (`acquire`), has a statement running, keeps the connection when in a transaction (`tx`), or does
something else (`handler`, `storage`). There is no clock: `ShutdownTimeout` and `Expire` may come at
any moment, which covers every setting of the two timeouts. A lookup in a closed GeoIP file
reads unmapped memory, so `Country` may end the process there.

**Feed.** One viewer and one scan, as pages only read: `ProfileForUser`,
`ViewerEffectivePoint` (first page only), `FeedPage`, `TagsByAdIDs`. Around it the ads of `Meeting`
(`InsertAd`, `Commit`, `Leave`) and the places of `Geo` (`Move`, `ViewerChanges`) change at any
moment, in all the ways the other modules allow as far as the list can tell.
`Position` is a row's place in the order of the query, `Beyond` the keyset condition, `IsPage` what
ORDER BY and LIMIT return, and `scan.cursor` what the client sends back: sort, position of
the last row, and the origin. Timestamps and distances pass through the JSON of the cursor
unchanged (nanoseconds for a column of microseconds, the shortest text of a float64).
`watch` is an observer: which ads were on the list all along, whose authors moved.

## 5. Runs

| run | instance | what it shows |
|---|---|---|
| `meeting_owner` | 1 author, 2 requests, 2 ads, 2 texts, clock past TTL | OneActiveAd, ContentWhole, LiveAtStart, NoResurrection, implements MeetingBoard |
| `meeting_likes` | 2 profiles, 1 ad (it ends by expiry), 2 requests, clocks 1 apart, clock past TTL and their difference | ChatIffAccepted, DecisionStands, LiveAtStart, implements MeetingBoard |
| `meeting_answered` | 1 author, 2 ads, 2 requests, fairness, no symmetry | every request is answered |
| `auth_codes` | 1 address, 2 codes, 2 requests, up to 3 counted tries with 2 allowed, a client address in Russia and one elsewhere | GoodAtStart, GuessesBounded, CodeLostForCause |
| `auth_sessions` | 2 spellings of one inbox, one maybe with an old account, 3 tokens, 2 requests | PriorRevoked, GoodAtStart, AccountPerInbox, implements SessionStore |
| `auth_limits` | 3 addresses, 1 client address, windows of different length, sends that follow each other | LimitsKept |
| `profile` | 3 photos, ceiling 1, 2 requests, all endpoints | the eight properties of the component |
| `feed` | 2 ads that tie or not, pages of 1, 2 points in a city, an author anywhere or nowhere | ShownOnce, SteadyShown, CursorAdvances |
| `geo` | 2 points, 2 places in 2 city rows, 2 requests, 2 imports of 2 dumps, clock past the window | PointFollowsMode, JumpNeedsRace, ImportConverges, the import implements Geo |
| `server` | 2 requests of up to 2 calls, 1 connection, from start to exit | ResourcesOutliveRequests, SignalStops |
| `auth_single_session` | as auth_sessions | *violation:* two overlapping logins leave two sessions |
| `auth_old_account` | an account backfilled by migration 000005 | *violation:* the right code is answered 500 |

Deadlock is checked in every passing run but `server`, where the process ends: in each of the others some request can always
begin, fail or go on. Every property of a passing run has a mutant, a faulty variant (`Mut...`) of a
definition with which the run finds it violated.

*Why the bounds are enough.* All hazards here are of pairs: a request that checks
and another that writes in between. Two slots give every interleaving of two
requests, and slots are reused, so third parties may act before, between
(in the slot the other one left) and after. Two ads let one follow another; one
would hide the unique index's part. In the feed a page of one ad makes every row the last
of its page; LIMIT for larger pages is in the proofs. Three photos are one more than what two uploads
hold, so that a row is there before them; `Churn` keeps positions below `Shift` (1000 in the
code). One connection for two requests makes each wait for the other. Older and newer dump differ in everything an upsert writes, name
a place twice, and have lines of each kind that is skipped; the choice of names is checked on
every file of up to three lines of eleven kinds. `Deadline < TTL` keeps the order of magnitude of 30 s and 24 h. `MaxTime` passes
every expiry and window once. Codes, tokens and ads are used up: an instance ends
with them, which limits the length of behaviours, not the interleavings.
`Ops` names the endpoints an instance exercises; together the passing runs of
a component exercise all of them.

*Symmetry* is used for slots and for identifiers that nothing orders, in safety
runs only.

*Fairness* (`FairSpec` of `Meeting`, run `meeting_answered`). Each request has strong
fairness of its statements and weak fairness of `Fail` once its deadline is past.
The scheduler runs every goroutine, and PostgreSQL queues the waiters of a row or
index lock, so a statement that becomes possible again and again is carried out: that is
strong and not weak, because a statement is disabled while another transaction holds its
lock. The timeout middleware cancels the context of a request past its deadline. `Start`,
`Onboard`, the clock and a `Fail` before the deadline may never happen.
`FairSpec` of `Server` (run `server`) has weak fairness of `RunStep` (the goroutine of run() goes on when it can,
and the timer of Shutdown fires), of `Expire` (the timer of the timeout middleware), of
`Handler` (a handler goes on between its calls) and of a `Fail` that has to come (pgx gives up when
the context is cancelled or the pool is closed). Nothing is expected of the database, the storage, the
clients or the signals: a statement may hang for ever, and SignalStops holds because the context
ends it.

*Weaker than a reader may expect.* Some promises of the documents hold only for
requests that do not overlap. The two violation runs are the ones the project keeps; the
same pattern is known for: a photo deleted between the count and the flag of complete leaves
fewer than two (as does a deletion at any time later); the loser of two Creates is answered 500 and not 409;
a fix between the reads of a return to AUTO and its write leaves the city at the old fix (docs/geolocation.md:50-51 has
the city nearest to the point); a deletion by address takes a code sent while the request was under way (CodeLostForCause says what is left);
a forced shutdown closes pool and GeoIP file under requests (ResourcesOutliveRequests);
one code or refresh token used by two overlapping requests works for both; tries that overlap
are counted past the fifth (bounded by GuessesBounded); two overlapping sends ignore the
cooldown (LimitsKept says what is left); uploads that overlap pass the ceiling (CeilingBounded);
a Reorder may meet the unique index because of a late upload (500, rolled back);
a lost answer to the INSERT of a photo costs its object (excepted by PhotosStored);
the feed takes the sort of the cursor where docs/meeting-list.md:112 announces 422 for another one in the request;
a crop may be set on a photo that is not the main one, and deleting the main photo leaves position 0 empty.

## 6. Proofs

For every value of the constants that meets the named assumptions
(`MeetingAssumption`, `ProfileAssumption`, `GeoAssumption`, `ImportAssumption`, `FeedAssumption`, `AuthAssumption`,
`IdentAssumption`, `RulesAssumption`, `ServerAssumption`), any number of requests included.
Where sets are counted the assumptions make them finite (the requests of `Profile`, `Auth` and `Server`, photos, addresses, ads of the feed). `SpentForGood` has the one further hypothesis
`Skew = 0`, which is also what the run of NoResurrection has: with two clocks the promise is not made.

* `MeetingProofs`: `TypeCorrect`, `OneActiveAdPerAuthor`, `ChatsFollowAcceptance`,
  `LikersAreGuests`, `MeetingImplementsBoard`.
* `MeetingAnswerProofs`: `ContentStaysWhole`, `DecisionsStand`, `LiveWhenTaken`, `SpentForGood`.
* `ProfileProofs`: `TypeCorrect`, `CreatedWithTheLastStep`, `StepsComeInOrder`,
  `OnboardingOnlyForward`, `ObjectsAccounted`, `PhotosHaveObjects`, `PhotosBounded`, `MainStaysOrIsDeleted`.
* `GeoProofs`: `TypeCorrect`, `PointIsOfTheMode`, `JumpsAreRaces`; `ImportLeavesTheDump`, `ImportStaysWithinGeo`,
  `GeoBesideTheImport`.
* `FeedProofs`: `TypeCorrect`, `NoAdTwice`, `NoAdSkipped`, `NoCircles`.
* `AuthProofs`: `TypeCorrect`, `ImplementsSessionStore`, `PriorSessionsRevoked`, `OnlyGoodOnesGetIn`,
  `CodesLostForCause`.
* `AuthRulesProofs`: `SendsAreLimited`, `GuessesAreBounded`, `CanonicalForms`, `OneAccountPerInbox`.
* `ServerProofs`: `TypeCorrect`, `DrainedBeforeClosed`.

*Meeting.* The invariants are not inductive: OneActiveAd says nothing of a Create whose
INSERT is done and whose COMMIT is not. `Inv` adds what a request holds
between two statements because of a lock: `InsertsApart` (inserts in flight are of
different authors without an active ad, and for fresh ids), `EditsHoldAd`,
`AcceptsHoldLike` (a like being accepted stays PENDING and is accepted once),
`LikesOfOthers`. `TypeInv` adds to the types which statements an endpoint goes through
and what its request carries there. The refinement needs in
addition that an insert in flight expires no later than TTL from now (`ExpiryAhead`).

*Meeting, answers.* `Said` is what a request knows of the like it is about; it stays true because a like that is there
stays and a decided one never changes (`LikesOnward`). `Fair` says of each ad a request is on its way
to use that it was in time when the request began (`InTimeAd`), or that what was overdue by then is out of
the way (`Cleared`, behind `expireStale`); it is carried over every step by `AdsOnward`: an ad keeps author and
expiry, never becomes active again, and is published with an expiry to come. For NoResurrection a request
also remembers what replies had called spent before it began (`Remembers`). With `Skew > 0` that is lost: the server's
clock may call an ad expired that the database still takes for active.

*Profile.* `Relies` says what a request that has passed the check of the step may count
on when it writes; it is kept because no step goes back (`Forward`). For the objects,
NoOrphans is inductive given the types: `HandsKept`, `RowsShrink` and `NewObject` follow one object through every
statement.

PhotosStored needs `StoredInv`: the request that still writes the row of a photo has put its object, and no other request
writes that row or removes that object (`Apart`). CeilingBounded needs the uploads past the check counted along
(`CeilingInv`): the last to pass the check has found a free place, so only the others can be in excess. MainLostByDeletion needs that a new order
is a list without repetitions that is not empty (`OrdersInv`): the photo it puts first is there, or it fails as a whole.

*Auth.* The argument has four floors, each inductive given those below. `TypeInv` adds to the types which statements
an endpoint goes through and what its request carries there (`Form`). `SessInv` says what a request
knows of the sessions (`Sess`: the rows it holds were issued, to its user, and the token it
mints is not out yet) and that rows are locked by one transaction (`Exclusive`); from it every step is a step of
`SessionStore` or a stutter (`StoreStep`), and sessions only go from none to active to revoked (`Grows`).
`PriorInv` follows what a request has to end: each of its `prior` sessions is revoked already, or is
among the rows it has found or locked, or the request has yet to look and they are still of its user
(`Prior`); no two accounts share a canonical address (`UsersOK`). `CodeInv` ties what a request does with a code to the row it read: who is past the comparison was
good at the start or the code has been replaced (`Live`), and who is about to delete has a reason or another
code before it (`Cause`); both hold because a row only changes by growing older, counting up, or being replaced by a
fresh code (`OtpGrows`). `IdentAssumption` (no address is None) keeps an account apart from no account.

*Auth, limits and lockout.* `LimitInv` rests on one fact: what was recorded before a moment never changes after it (`Past`), so a
check that a request passed at its beginning still holds of the same set when its send is recorded. `GuessInv` counts: the tries at a
code are those its row has counted plus one for each request that is about to delete the row (`Counted`), and each request that
has compared and not yet counted may add one (`TriesBounded`, over `PendingOf` and `LockersOf`).

*E-mail rules.* No change that keeps the inbox changes `canonicalEmail` (`PlainerKeepsCanon`), and each makes the address shorter or its domain the
one of Gmail (`Effort`), so a chain of them ends, at the canonical form (`PlainestIsCanon`). The inductions are over the set of the
numbers for which a claim holds (`NatSetInduction`, which takes a set and not an operator). For that the
loops of the code are written as recursive functions, `upTo[n]` for the first n characters; that such a function exists is `LoopExists`.
With it AccountPerInbox follows from what `canonical_email` may hold and from its unique index. `RulesAssumption`
also says that the Gmail domains are strings, which TLC knows and the provers do not.

*Server.* `OneError`: the channel is empty as long as the listener can still fail, so its one error finds room. `FewerHolders`:
a request that gives its connection back leaves room for another. `Order` ties the place run()
has come to with what is open there; after a drain nothing is in flight and the closed listener
lets nothing in (`NoneComesIn`).

*Geo.* PointFollowsMode is inductive given the types, because `Referable` stands before every write of a city, an
upsert keeps the row's id and a truncation takes the user's row along. `Compared`: a fix on its way has passed the guard against what it has seen, and as
the clock only goes on it passes it ever after; so a jump replaces a fix it has not seen.

*City import.* `OneRowEach` (a place has one row), `Running` (what a run has read) and `Written` (the lines written so far are in the table, each place as
its last line has it, and after a truncation nothing else is) are inductive together. What the two passes over the files compute is by
induction over the lines: `Filtered` for the kept lines and their order, `Names1` for the name, the last preferred one or else the first.
Every statement of an import is a step of `Geo` or a stutter, so the theorems about `Geo` hold beside it (`GeoBesideTheImport`).

*Feed.* ShownOnce and SteadyShown say nothing of a scan under way. `Divides` does: the cursor
has behind it every ad shown and ahead of it every steady ad that was not, except
those whose authors moved; `WillDivide` says it of the page and the cursor an answer is about to bring, and
`Pinned` that both measure with the sort and origin of the first page. A change of the
world keeps `Divides` because it leaves a row where it stands, takes it off the list, or
is a move (`WorldKeeps`); a page keeps it because LIMIT cuts an initial segment.

In the proved modules a change of several fields of a slot is written as
`[req EXCEPT ![r] = [@ EXCEPT !.a = x, !.b = y]]`: tlapm 1.4.5 does not
treat two updates of one index in a single EXCEPT correctly.

*Only model-checked:* liveness (`EveryRequestAnswered`, `SignalStops`), which is beyond the prover.
Every other property of a passing run is proved.

## 7. Not modelled

Validation of fields and encodings; access tokens (JWT) and hashing; in the feed the filters that do not
depend on place, and how an item is rendered; download and unzipping in the city
import; read-only endpoints that several properties do not need (Me, profile, cities, interests, tags);
reading of the configuration, generated documentation. Deletion of users and the
ON DELETE CASCADE rules: no endpoint deletes a user. HTTP itself: keep-alive, read and write timeouts of connections, clients that disconnect
other than as a cancelled context.
