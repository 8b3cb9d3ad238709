# pkgexec in TLA+

This directory models `pkgexec`: nine privileged helpers
(`runix-apt-{install,remove,purge,upgrade,dist-upgrade,update,hold,unhold,configure}`)
that `pkexec` runs as root, one apt operation each, and only after an audit
broker has accepted a one-time *effect receipt* for exactly the plan the helper
resolved under the apt lock. Paths below are relative to the repository
(`src/entrypoint.c` is the file `src/` of the checkout holds under that name).

## 1. The system

| part | state it keeps | operations | modelled in |
|---|---|---|---|
| entrypoint (`src/entrypoint.c`) | result fd, request, out_cid, issued, status | read uid, read and parse the request, hygiene, run the effector, emit, exit | `Pkgexec` |
| effectors (`src/apt_txn.cc`, `apt_update.cc`, `apt_hold.cc`, `apt_configure.cc`) | apt lock, resolved plan, the commit context (`entered`, `began`, `applied`) | lock, resolve, plan step, commit, ground truth, classify | `Pkgexec` |
| plan step (`src/plan.c`) | none | empty plan, policy, digest, redeem, correlation-id discipline | `PlanStep`, `Pkgexec` |
| policy (`src/policy.c`) | none | three rules, in order; the rapt-owned name pattern | `PlanStep`, `Names` |
| digest (`src/digest.c`) | none | rows, lists, sort, join, bound; the resource token; the token of an inline key | `PlanDigest`, `Names` |
| libapt mapping (`src/apt_common.cc`) | none | marks, selections, package states and sources to plan records | `CacheMap` |
| oracles (`tools/preview.cc`, `tools/plan.cc`) | none | resolve, policy, digest, show; the preview splits its digest again | `Planning` |
| redeem client (`src/redeem.c`) | none | build the request, read the reply | `PlanStep`, `Pkgexec` |
| transport (`src/transport.c`) | socket, deadline, offsets | connect, authenticate, send, receive | `Transport`, `Exchange` |
| gate (`src/effect.c`) | none | commit iff OK and the id is valid | `Pkgexec` |
| classifiers (`src/apt_status.c`) | none | four pure functions | `AptStatus` |
| child runner (`src/spawn.c`) | pipe, child, SIGPIPE disposition | spawn, feed, wait | `Spawn`, `Pkgexec` |
| hygiene and result channel (`src/harden.c`, `src/result.c`) | descriptor table, environment | dup/redirect, null stdin, close-on-exec, emit | `Descriptors` |
| request reader (`src/request.c`) | buffer, deadline | read with a cap and a deadline, grow, wipe | `RequestReader` |
| request grammar (`src/request.c`) | none | verb arity, package names, duplicates, the package bound | `Planning`, `Names` (partly) |
| audit broker, runix caller, libapt, dpkg, other frontends | receipts, locks, database | external | environment actions of `Pkgexec` |

How they interact. The caller previews a plan without a lock and opens an
*intent* at the broker, which binds a receipt to (principal uid, verb, resource,
schema, plan hash) and names it with a correlation id. The caller then runs a
helper through pkexec and writes receipt and correlation id to its stdin. The
helper takes the dpkg frontend lock (a refresh: probes the lists lock), resolves
the plan again, refuses it by policy or redeems the receipt for *its own*
digest over an AF_UNIX socket. On `redeem_ok` with the right correlation id the
gate runs the committer: it releases the inner dpkg lock under the still-held
frontend lock, runs dpkg, takes the inner lock again. Ground truth is read back
from a fresh cache, the outcome is classified, one JSON frame with
`status`, `effect_issued` and `correlation_id` goes to the caller, and the
process exits, which is what releases the locks.

What makes each part correct:

- entrypoint and effectors: an effect only under a receipt this helper spent for
  this plan (`AuthorisedEffect`), on the state the plan was resolved from
  (`PlanIsCurrent`); the frame says "not issued" only of no effect
  (`NotIssuedIsHonest`) and "ok" only of a whole one (`SuccessIsReal`) that left
  the system in order (`SuccessIsHealthy`); the helper ends and its locks come
  free unless it waits for ever for somebody it has no deadline for
  (`EveryHelperEnds`, `LocksComeFree`);
- plan step and policy: a refusal of ours leaves the receipt for another try
  (`TrustedRefusalIsUnspent`);
- locks and committers: while a helper keeps the frontend lock the database changes
  only by its own dpkg child, or by one a killed helper left behind
  (`FrontendProtectsDb`);
- transport: an answer is whole and in time, an error tells what had happened;
- child runner: zero is a child that ran, was fed and is over (`ZeroIsEarned`,
  `StartedIsTrue`, `ChildIsOver`);
- hygiene and result channel: one frame and nothing else reaches the caller, exit
  code 0 is a frame the caller's pipe took whole, and the child gets none of the
  helper's descriptors (`OnlyTheFrame`, `ZeroIsDelivered`, `ChildIsIsolated`);
- digest, mapping and oracles: what a helper redeems is what was shown
  (`ShownIsBound`), an oracle is right about a world that has not moved
  (`OraclesPredict`), and the facts the policy reads are facts about the packages
  (`PolicyIsKept`);
- request reader: what is accepted is all that was sent, in time and bounded, and
  the buffer that held the receipt is wiped (`AcceptedIsWhole`, `TooLargeIsTrue`,
  `AtMostOneLateRead`, `OnlyCopiesStay`).

What is hard here, and to test: two helpers with crossed or replayed receipts; a
crash between redeem and commit; a caller that does not read its result while the
locks are held; a dpkg child that outlives its helper and takes
the inner lock while another helper has handed it over; replies that are lost or
arrive after the deadline; two plans that encode alike, or one plan that encodes
differently when the cache is read in another order; a plan that has changed between preview, digest and
effect; every step after the redeem failing on its own; and reports that must be
honest in all of these cases. `PROJECT.json` lists each hazard at its line.

## 2. The modules

```
AptStatus  <-  PlanStep  <-  Pkgexec  <-  MCPkgexec           (TLC)
                  EffectIntent --^   ^--  Pkgexec_proofs      (TLAPS)

Names <- PlanDigest <- CacheMap --v
            |          PlanStep -> Planning <- MCPlanning         (TLC)
            v                        v
      PlanDigest_proofs <- Planning_proofs                        (TLAPS)

Exchange <- Transport      <- MCTransport      Transport_proofs
            RequestReader  <- MCRequestReader  RequestReader_proofs
            Spawn          <- MCSpawn          Spawn_proofs
            Descriptors    <- MCDescriptors    Descriptors_proofs
                             (TLC)                (TLAPS)
```

The first lines are the system of several helpers. `Planning` opens up what
`Pkgexec` calls a digest and a resolve: one oracle and one helper, on real names,
packages and strings. The others open up the parts that `Pkgexec` takes as single
steps, one helper each.

**`AptStatus`**: the closed set of statuses and the four pure classifiers.

**`PlanStep`**: policy precedence, what is checked before the receipt is spent,
how a broker reply is read, which correlation id the result carries afterwards.

**`EffectIntent`**: the abstract promise. Receipts are bound, spent, acted upon,
each at most once, in that order, by the same actor and with the bound effect.
No locks, no messages, no processes.

**`Pkgexec`**: the composition. One helper is one process of a `HelperStep`, its
program counter `pc` names the place in the code:

| label | code |
|---|---|
| start | `main` up to the effector call |
| lock, resolve | `_system->Lock()` / the lists probe; cache, resolver, mapping, policy |
| redeem, await | `pkgx_redeem` before the request is out / waiting for the reply |
| gate | `pkgx_effect_gate` |
| fetch, unlock, spawn, wait, relock | the committers: archives, `UnLockInner`, `posix_spawn` or `DoInstall`, `waitpid`, `LockInner` |
| refresh, refreshing | `update_commit` before and inside `ListUpdate` |
| settle, emit, exiting | ground truth and classification; `pkgx_result_emit`; the return of `main` |

`entered`, `began`, `applied` are the fields of the commit contexts (`issued` in
hold and configure, `execution_began` in a transaction). `outCid`, `status`,
`issued` are what the frame will say, `frame` and `exit` what it said. The broker
keeps `bound` and `redeemer`; `chan[h]` is the one-request connection.
`frontend`, `inner` and `lists` are the file locks with their owners; `child`,
`wrote`, `ranOn` the dpkg child of each helper, how much it wrote and the
database version it met when it took the lock. `dbVer`, `srcVer`, `dbBroken`,
`indexOk` are the world, and `indexBy` says who refreshed the indexes last. The
step `Emit` is the end of the write of the frame: a caller may put it off as long
as it likes, and the locks are held until it comes.

**`Exchange`** and **`Transport`**: `Pkgexec` splits one broker exchange into
`SendRedeem`, `SendFails`, `ReceiveReply`, `ReplyLost`. `Exchange` states that as
a machine of five phases, `Transport` models `pkgx_transport_tx` call by call
(connect with its retries, peer credentials, loop head, `send`/`read`, `poll`)
and implements it: only the broker's uid ever gets the request, an error before
the last byte means it is not whole, an answer needs a request that left. Sizes
are small numbers; a peer reads and writes any number of bytes at any time.

**`RequestReader`**: `pkgx_read_stdin_deadline` and the wipe in `main`. `cap` and
`n` are the program's numbers, `held` what is really in the buffer, `left` the
copies of request bytes that were freed unwiped: the buffer itself (`"block"`), a
block `realloc` moved away from (`"outgrown"`), the values jansson parsed the body
into (`"parser"`, `src/request.c` lines 267, 346 and 350). The model ends where
the request has been parsed: the request `src/redeem.c` builds from the receipt is
wiped as text (line 88), the JSON object it is printed from (lines 56 and 73) is
not, and is outside.

**`Spawn`**: `pkgx_spawn_wait_env`. `mine` and `its` say who holds which end of
the pipe; a write with no reader is EPIPE or a kill, an end of file needs that
nobody holds the write end. It stands behind `Spawn`, `SpawnFails` and `Wait` of
`Pkgexec`: `StartedIsTrue` is why `began` may be set from it, `ChildIsOver` why
`Relock` comes after the child.

**`Descriptors`**: the descriptor table and the environment from the first line
of `main` to its return, with the child's table after the file actions and exec.
`CloexecFrom` may end early: a `readdir` that fails is taken for the end of the
listing (`cut`), what was not listed is not marked, and the call returns 0. The
frame is written by the loop of `pkgx_result_emit`: `off` is what the loop counts,
`got` what the caller's pipe took, `rc` the return code, `sigpipe` and `old` the
two dispositions; a write is short, fails, or finds the caller gone.
It stands behind `NoChannel`, `RejectRequest`, `Startup` and `Emit`. Standard
input, output and error are open at the start, as a set-uid `pkexec` hands them
over. A helper started some other way with fd 2 closed would get 2 as its result
descriptor and put the caller's output back over fd 1; such a start is left out.

**`Names`**: byte strings with the order of `strcmp`, the package-name grammar of a
request and the scan `pkgx_is_rapt_owned` beside the pattern it stands for.

**`PlanDigest`**: the canonical string of a plan byte by byte: what a field may
hold (`FieldOk` with strict UTF-8), lists that refuse duplicates, rows, the sort,
the joins and the bound on the length, each of which may refuse. The hash is the
string itself: SHA-256 is taken as free of collisions. A word of the schema (a
verb, an action, a flag) is one byte outside the alphabet of the other strings, and
the hash in an inline key's token is a spelling of its bytes. `SplitOn`, `CsvArray`
and `OptionsObject` are the way back in the preview.

**`CacheMap`**: a cache is a set of packages, each once per architecture, that
libapt iterates over in an order of its own, and a record says of a package what
`pkgx_apt_map_*` says: the flags, which
version the priority is read off, the selection words, the states dpkg has pending,
the options of a source.

**`Planning`**: `Preview` and `PlanTool` resolve a request and show a plan, `Helper`
resolves its own request later and redeems. Every resolve gives the records in an
order chosen anew and, for a transaction, sets the marks anew: any that libapt may
set, an installed package upgraded, downgraded, removed or purged, the remains of a
removed one purged, a new one installed, except that `apt.upgrade` forbids removals
(`MarksFor`). `WorldChanges` changes packages or sources in between. The three programs ask policy, resource and digest in orders of
their own, which is what `OraclesPredict` is about.

Abstractions. In `Pkgexec` a digest is the version of what was resolved, so two
equal digests are equal plans; `ShownIsBound` of `Planning` is the reason. A correlation id is the receipt of its intent. A dpkg run is one locked
session that writes once, a part or all; several dpkg invocations inside one
`DoInstall` are one session. The result of a resolve is a set of policy records.
JSON is well formed or not. Ground truth that cannot be read counts as broken or
not matching, as in the code. A request `main` cannot parse is reported with the status `internal`, and
the parser's error (`schema_invalid`, `bad_json`) is only the detail beside it
(`fail_result`). Two effector guards that no request can reach
(`targets_unsupported`, `subset_unsupported`) are left out. A `DoInstall` that
fails before it has run dpkg is a `SpawnFails`.

Properties are at the end of each module, each with what it says about the code.

## 3. The runs

| run | instance | shows |
|---|---|---|
| intents | 2 helpers, 2 receipts, 2 users, transactions, all policy outcomes, no faults | `TypeOK`, `AuthorisedEffect`, `ImplementsIntent` |
| crash | transactions, kills, a second frontend, 2 receipts | `AuthorisedEffect`, `PlanIsCurrent`, `FrontendProtectsDb` |
| reports | all four families, failing system calls, broker faults, edits of the source list | `NotIssuedIsHonest`, `TrustedRefusalIsUnspent`, `SuccessIsReal`, `SuccessIsHealthy`, `PlanIsCurrent` |
| live | txn and update, no symmetry; nobody owes a helper anything | `EveryHelperEnds`, `LocksComeFree` |
| planning | 14 worlds of two packages (foreign, held, essential, required, removed but not purged, rapt's, half-installed) or two sources, 14 requests, names up to 9 bytes, canonical strings up to 44 | `ShownIsBound`, `OraclesPredict`, `PolicyIsKept` |
| transport | headers of 2 bytes, bodies of 0 to 3 with a bound of 2, a buffer of 3 | `ReplyIsWhole`, `AtMostOneLateCall`, `SocketIsClosed`, `UnsentErrorsAreTrue`, `ImplementsExchange`, `Returns` |
| reader | a first buffer of 1, a cap of 4, up to 6 bytes sent | `AcceptedIsWhole`, `TooLargeIsTrue`, `AtMostOneLateRead`, `OnlyCopiesStay`, `Returns` |
| spawn | a pipe of 2, payloads of none, 1, 2 and 4 | `ZeroIsEarned`, `StartedIsTrue`, `ChildIsOver`, `Survives`, `Returns` |
| descriptors | 7 descriptors, every set of inherited ones; a frame of 3 bytes | `ChildIsIsolated`, `OnlyTheFrame`, `ZeroIsDelivered` |

Bounds. Two helpers and two receipts are what crossing and replaying need: a
third helper adds no new relation between a helper and a receipt. The families
are split over the runs by the code they share. `MaxDbVer` and `MaxSrcVer` bound how often
*others* change the database and the source list (helpers are bounded by running
once); one change is enough to make any digest stale. In `reports` `MaxDbVer` is 0:
there the helpers themselves change the database under each other, and what
others do to it is the question of `crash`. There too others touch the source list and
the indexes only once a refresh is authorised or launched (`RefreshInPlay`): the other
families read neither, so this leaves out nothing they could notice. `Faults` switches faults per run: `"kill"` any
helper at any point, `"io"` any system call or library call of a helper may
fail, `"broker"` the broker may die, garble or refuse a good receipt. Helpers and
receipts are symmetric, except in `live`. In the byte-level runs a header of two
bytes has an inside to be cut at, a body bound of two has a length below, at and
above it, and the reader's buffer doubles twice and then meets the cap with one
byte to spare, as 4096 does with 65536. `MaxStream` and `MaxSent` let the other
side send more than will be taken.

In `planning` 44 bytes let a plan of one record through and cut some of two, so
that both sides of the bound occur; the strings hold the separators: a component
with a comma against two components, a version with a comma, a broken and a good
two-byte character, armored keys that differ only inside, one without its end. A package to be installed
and one whose remains are there have the priority "required" only as candidates. The
requests hold a target twice, the same targets in two orders, qualified names, a
rapt-owned target and wrong arities.

`CHECK_DEADLOCK` is on in these runs, where a call that has returned stutters in
`Done`, and off in the two of `Planning`: a planning ends with the helper's answer.

Fairness. In `live`: weak fairness of each helper's own steps (`OwnStep`). The
helper is straight-line code the kernel schedules, the lock wait is bounded by
`lock_timeout` and the broker exchange by a 5 s deadline. Three of its steps end
when somebody else lets them and have no deadline in the code, and of these
nothing is assumed: the fetch of the archives and the refresh, which wait for
mirrors, and the write of the frame (`src/result.c` line 105), which waits for the
caller to read. Nor is anything assumed of dpkg, the broker or other frontends. So
what the run shows is that a helper ends and its locks come free *unless* it
waits for ever for a mirror, for its dpkg child or for the caller (`Waiting`): it
never hangs on a lock, on a broker that is silent or on a child that has ended.
The exception is real: a caller that leaves its pipe full keeps the locks held.
`Faults` is empty there; a broker that never answers needs none, for the broker
has no fairness, and a fault only takes a helper sooner to its end. In `transport` and `reader`: the thread runs and time
passes; nothing is assumed of the peer, of what wakes a poll, or of a clock or
poll that fails. In `spawn`: the helper runs, and the child reads what there is
and exits once its input has ended.

Three runs are expected to find a violation. Each checks what a comment of the
repository says and what the code does not do; `PROJECT.json` quotes the lines.

- `hold_failed`: a hold whose `dpkg --set-selections` went through is reported as
  failed when the inner lock cannot be taken back (here: the child that a killed
  helper left behind has it), and the selections are changed.
- `qualified_hold`: a rapt-owned package is held when the request qualifies its
  name by the architecture, which the ownership rule does not see through.
- `moved_block`: a request that outgrew its first block, and whose read then
  fails, leaves its beginning in freed memory, if `realloc` had moved it.

Other places where the words say more than the code, noted and not run: "previous
indexes remain usable" (`src/apt_status.c` line 38) is also said of a refresh that
succeeded and left indexes that cannot be read; "resource is present once the
request parses" (`tools/preview.cc` line 34) is not so when libapt cannot be
initialised or the cache not be opened; a
trusted `no_intent` does not mean that no effect runs under the intent (the
receipt may have been spent by an earlier helper; `src/plan.c` line 32);
`dpkg_broken` is also given before dpkg runs (half-installed packages,
`src/apt_configure.cc` line 126, against `src/apt_status.h` line 26); "delivered"
in `src/spawn.h` means written to the pipe, not read (a child may exit 0 over a
small payload it never read); of the errors `src/transport.h` lists before
`peer`, "deadline" does not imply that nothing was sent; and "set close-on-exec on
every open descriptor ... Returns 0 on success, -1 on failure" (`src/harden.h` lines
27-30) is not so when `readdir` fails: `src/harden.c` line 54 takes that for the end
of the listing and returns 0 with the rest unmarked (`cut` in `Descriptors`;
`ChildIsIsolated` says what is true of the child then).

## 4. The proofs

`Pkgexec_proofs` proves, for every value of the constants:

- `Spec => []TypeOK`, from the stronger `TypeInv`: a launched helper has a request,
  a helper past the resolve has a plan;
- the inductive invariant `IInv == TypeInv /\ Safe`. `AuthorisedEffect` is not
  inductive: it needs that a helper past the gate has paid (`Admitted`), which
  needs that an `ok` on the wire stands for a spent receipt (`Answered`), which
  needs that nothing of a helper is at the broker before it sends (`Fresh`).
  `PlanIsCurrent` needs `Current` (what is pending is still the database, unless
  there is an orphan) and `Locked` (who may be inside the frontend lock).
  `TrustedRefusalIsUnspent` needs `Refused`, `NotIssuedIsHonest` needs `Issuing`;
- `Real`, inductive relative to `IInv`, for `SuccessIsReal`; and `Healthy` for
  `SuccessIsHealthy`: while the lock is held, a broken database after a healthy
  ground truth has an orphan behind it, since no other step touches it
  (`StepTouches`);
- the action property `FrontendProtectsDb` from `Locked`;
- the refinement `Spec => ImplementsIntent`: `Authorise` is `Bind`, a spending
  broker step is `Spend`, `Spawn` and `Refresh` are `Act`, all else stutters.

The assumptions are those named in `Pkgexec`: lock owners are distinct from each
other (`OwnersAssumption`), the empty correlation id is no receipt
(`CidAssumption`), verbs and resolutions are in range. Liveness is checked by TLC
only: it needs fairness and ENABLED, which the prover does not treat.

`Transport_proofs` proves `TypeOK` and the four other invariants of `Transport`,
and that it implements `Exchange`, for every header size, bound, buffer and set
of lengths. Its `IInv` adds to the type what a label means: before the peer is
known nothing moves, from then on the peer is the broker, and the receiving half
is entered with the whole frame gone (`Places`); that the part of a reply in hand
is a part that was due and has come (`Reading`); that a call under way past the
deadline was decided upon before it (`InTime`); and what each error stands for
(`Outcome`). `ReplyIsWhole` needs the first two, `UnsentErrorsAreTrue` and the
refinement need `Places`: the loop sends only while bytes are missing, so a `send`
error, or one while waiting to send, cannot come after the last byte.

`RequestReader_proofs` proves its five invariants for every first size, cap and
caller. `AcceptedIsWhole` rests on `Buffer`: a read is made only with room for a
byte, so a read of nothing is the end of file and never a full buffer; that needs
the growth to one byte *past* the cap, and it is what makes a request of exactly the
cap readable. `OnlyCopiesStay` is proved whatever `realloc` and the parser do: at
every free the bytes wiped are the bytes held (`Wiped`), so a block can only be left
by a move, and that needs a full first buffer.

`Spawn_proofs` proves its five invariants for every payload and pipe. `Forked` ties
`started` to the child, `Feeding` says that bytes are written with the signal
ignored, `Delivered` that `deliverOk` tells a whole payload once the pipe is closed.

`Descriptors_proofs` proves its four invariants for a table of any size and any
inherited descriptors. The argument is `NewIsAbove`: the standard three are open and
what is closed on exec is open, so the lowest free descriptor is above the three and
not yet closed on exec. From it the result descriptor is where it was put (`Kept`),
and the child's table follows (`ChildTable`), wherever the ends of its pipe land:
what an exec would keep above the three is something inherited (`Inherited`), and
after a listing that was not cut short there is none (`Cleaned`). `Reported` ties the
write loop to the pipe: `off` is `got` as long as the loop runs, the loop writes with
SIGPIPE ignored, and a return code of 0 after it is the whole frame.

`PlanDigest_proofs` is about the strings themselves, of any length, and plans of
any number of records:

- the scan of `policy.c` decides its pattern (`OwnedIsThePattern`), and no
  qualified name fits it (`QualifiedIsNeverOwned`, the other half of the run
  `qualified_hold`);
- the order of the sort is a strict total order, so a list has one sorted
  arrangement; from it the canonical string and the resource token do not depend
  on the order of records and targets (`DigestOfAnyOrder`, `ResourceOfAnyOrder`);
- two lists of targets with one token are the same targets (`ResourceBinds`).

The loops of the code (join, split, map) are recursive functions over `0..n`. The
library's induction theorems cannot be used, so `UpTo` of `NumberLemmas` states
induction over a *set* of numbers, which the prover gets from the well-foundedness
of `<`, and `LoopExists` that such a function exists. Splitting what was joined is
proved pass by pass: a part without the separator only grows the last piece
(`PiecesExtend`), a separator begins the next. That a field holds none is `FieldOk`,
that a row cannot be empty and that a list of one empty component is the one list
that does not split back are cases of their own; the second is why the records a
plan is made of (`PlanRecords`) have no empty component, which `SrcRecord` erases.

`Planning_proofs` proves all four invariants of `Planning`, for every set of worlds
and requests and every bound, and for strings of any bytes:

- `PreviewShowsThePlan`: what `decode_records` splits out of a canonical string are
  the records it was made of; with it `DigestBinds`: one string, one plan;
- `TypeCorrect`, `ShownBound`, `OraclesRight`, `PolicyKept`: the invariants `TypeOK`,
  `ShownIsBound`, `OraclesPredict`, `PolicyIsKept`.

None of the four is inductive: they speak of records, and what a step leaves behind
is an answer. `IInv` says what every answer came of: behind what is shown there is a
request and an outcome that some world had for it, in one of five ways (`Unread`,
`Unopened`, `Previewed`, `Unplanned`, `Planned`), and behind what has run a request
and an outcome that *this* world has for it. It is inductive because the world
changes only before the run. An outcome is typed by the lemmas on the mapping:
`MapTxnType`, `MapHoldType`, `MapConfigureType`, `MapSourcesType`. `ShownBound` is
then the binding of resource and digest; `OraclesRight` compares the three
orders of policy, resource and digest case by case, on equal verdicts
(`VerdictAlike`), digests and resources; `PolicyKept` follows a record back to its
one package (a package is in a cache once per architecture), whose flags tell whether
it is important, or required as it is installed, whatever the mark (`CriticalIs`). It
assumes nothing of which marks libapt sets. Of a hold or unhold it speaks by the
plain name only; `qualified_hold` is what lies outside.

The assumptions are `WorldsAssumption` (a cache is finite and holds a package once
per architecture, a source list is one of finite sources), `RequestsAssumption`
(the verbs the entry points pass, targets that are strings) and that bounds are
numbers. No hash collides, by the way the digest is modelled.

Only TLC checks `Returns`, `EveryHelperEnds` and `LocksComeFree`: liveness needs
fairness and ENABLED, which the prover does not treat. That the three expected
violations are violations is TLC's as well. The recursive functions over data
that the theorems do not depend on, `Utf8Valid` and the value of `CodePoint`, are
opaque to the proofs: they hold whatever a valid character is.

## 5. What is not modelled

- The text of requests, replies and frames: JSON parsing and printing, the grammars
  of the other request fields, the truncation of the detail (every detail the
  helpers give is an ASCII token or a package name, so the frame fits). A text is
  well formed or it is not.
- libapt's resolver, fetcher and dpkg, the audit broker, polkit and the caller:
  external, with the behaviour the code relies on or guards against. A resolve may
  mark any packages.
- SHA-256: two canonical strings never share a hash.
- The developer tools `tools/effect.cc` and `tools/probe.cc`, the
  build and the packaging: no behaviour of their own.
- Power loss: a kill takes one process, the file system keeps what was written.

## 6. The plan

Written, in this order: `AptStatus`, `PlanStep`, `EffectIntent`, `Pkgexec` with
its proofs, then `Transport`, `RequestReader`, `Spawn`, `Descriptors`, then
`Names`, `PlanDigest`, `CacheMap`, `Planning`, the proofs of the four components,
and those of `PlanDigest` and `Planning`. Every invariant and action property a run
checks is now a theorem.

Next, in order of weight:

1. Composition: a helper whose exchange is `Transport` and whose child is `Spawn`,
   shown to implement the steps `Pkgexec` takes for them, as `Exchange` does for
   one exchange.
2. The grammars of receipt, principal and correlation id of `src/request.c`, beside
   the checks `src/redeem.c` and `src/effect.c` repeat of them.
3. `SignedByToken` and `Hex`: that two armored keys never get one token.
