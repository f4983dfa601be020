# NexusChat: a verification project in TLA+

NexusChat is a chat server (FastAPI, Redis, PostgreSQL) with a browser client.
Any number of server instances run behind Nginx. This directory holds models of
the parts of the program where its own logic lives, TLC runs that check them on
small instances, and TLAPS proofs of their invariants for all values of the
constants. Every definition is translated from the source; `PROJECT.json` maps
it to the lines it stands for.

## 1. Inventory

| Component | State | Operations | Interacts with |
|---|---|---|---|
| Connection manager (`messaging/connection_manager.py`) | `_connections`, `_room_connections`, `_lock`; per connection: rooms, send queue, send task | `connect`, `disconnect`, `join_room`, `leave_room`, `broadcast_to_room`, `send_to_user`, `_process_send_queue`, `_force_disconnect` | driven by sessions and by the broker's callbacks |
| WebSocket session (`api/websocket/chat.py`) | where the coroutine is suspended; the connection it was given | accept, receive loop, handlers, `finally` cleanup, heartbeat | manager, rate limiter, broker, presence, database |
| Rate limiter (`core/rate_limiter.py`) | a sorted set per user in Redis | `check_rate_limit` | Redis; every session before each event |
| Redis broker (`messaging/redis_broker.py`) | `_callbacks`, `_pubsub`, `_reconnect_delay`, listener task; the dead letter list | `connect`, `subscribe`, `_listen`, `_reconnect`, `disconnect`, `publish`, `publish_dead_letter` | Redis; sessions; calls `broadcast_to_room` through callbacks |
| Message service (`services/message_service.py`) | the `messages` table | `save_message`, `get_room_messages` | database |
| Browser client (`client/app.js`) | tokens, socket, reconnect timer, current room, room list, cursors | log-in, log-out, token refresh, `connectWebSocket`, `switchRoom`, `createRoom`, `joinRoom`, `leaveCurrentRoom`, `loadMessages` | HTTP API, WebSocket |
| Presence (`services/presence_service.py`) | a time-stamped set per room | `set_online`, `set_offline`, `get_online_users` | Redis; sessions |
| Typing (`services/typing_service.py`) | keys with a TTL | `set_typing`, `clear_typing` | Redis; never read back |
| Rooms, membership (`services/room_service.py`) | `rooms`, `room_members` | `create_room`, `join_room`, `leave_room`, `is_member` | database |
| Accounts (`services/auth_service.py`, `core/security.py`, `api/deps.py`) | `users`; signed tokens | `register`, `login`, `refresh_token` | database |
| Everything else | - | life cycle, settings, health, schemas, migrations, Kafka stub, deployment | - |

What is hard here:

* **One event loop, many awaits.** An instance is one asyncio loop. State read
  before an await is used after it; the manager's lock is held across awaits on
  client sockets, and `_force_disconnect` runs both under the lock (eviction)
  and without it (overflow).
* **Identity by user id.** The manager's maps are keyed by user, a user's old
  and new connection overlap, and late clean-ups act on whichever is registered.
* **Several instances.** They share Redis and PostgreSQL; clocks differ, replies
  get lost, transactions commit late, processes stop between two steps.
* **A client that reconnects.** Timers, late close events, answers to requests
  and clicks interleave in any order.

What makes each component correct: the manager's two maps agree with each other
and with the sessions, and no session waits for ever; the limiter grants no more
than its limit and refuses nobody without cause; the broker never loses a room
silently and always gets back to Redis; a broadcast message is stored, under one
id per key; a walk through the history whose answers come in turn neither repeats nor
omits; the client has
one connection and hears the room it shows; accounts, rooms and memberships
change as if requests were served one at a time; a list of online users is recent
and nobody is taken off it without a cause. The hazards, line by line, are in
`PROJECT.json`.

## 2. Modules

| Module | Models | Proofs |
|---|---|---|
| `ConnectionManager` | one instance: manager and sessions | `ConnectionManagerProofs` |
| `Hub` | the abstract specification of `ConnectionManager`: one step per operation, without lock, sockets and tasks | (in `ConnectionManagerProofs`) |
| `RateLimiter` | one key, several instances | `RateLimiterProofs` |
| `RedisBroker` | the subscribing half of the broker in one instance | `RedisBrokerProofs` |
| `MessageDelivery` | `_handle_message`: save, commit, publish, dead letter | `MessageDeliveryProofs` |
| `RoomLog` | the abstract specification of `MessageDelivery`: a room's stored messages and what its members are shown | (in `MessageDeliveryProofs`) |
| `History` | `get_room_messages` and the browser client opening rooms and loading older pages | `HistoryProofs` |
| `RestApi` | register, log-in, token refresh, and create, join and leave of rooms, as concurrent transactions | `RestApiProofs` |
| `Directory` | the abstract specification of `RestApi`: one step per request | (in `RestApiProofs`) |
| `Presence` | the online set of a room and the sessions that write it, on several instances | `PresenceProofs` |
| `Client` | the browser client | `ClientProofs` |

`MC*` modules hold what TLC's instances need. Operators whose comment begins with
*Faulty variant* are plausible bugs: substituted for the definition that follows
them, they must make TLC report the property named in `PROJECT.json`. They take
no part in the specifications.

### How state and actions correspond to the code

**ConnectionManager.** A connection is an accepted WebSocket with the session
that serves it. `pc` is the await the session is suspended at; an action is the
code between two awaits that can suspend. `broadcast_to_room` and `send_to_user`
contain none and are atomic (`Broadcast`, `SendToUser`). `connect` is
`Accept`, then `ConnectReplace` (old socket already closed: `_force_disconnect`
does not suspend), or `ConnectEvict`, `EvictClose`, `EvictFinish` with the lock
held throughout. `disconnect` is `Disconnect`/`DisconnectDone`; the `finally`
block of the session is `CleanupRooms` followed by it, or `CleanupAbort` when
`set_offline` raises. The overflow task is `OverflowSend`, `OverflowClose`,
`OverflowFinish`, without the lock, in one of `Slots` per connection. A send queue
is its length. `PeerGone` is the only external action. A client's peer may be
gone long before the server notices. A room whose user set is empty and a room
without an entry are the same: no operation tells them apart. The heartbeat
task is left out: it changes nothing (it stops at a failed send and does not
close the socket).

**Hub.** What an instance promises its users: connections enter once, a newer one
takes its user's place in one step and starts without rooms, one that is out hears
nothing, and a broadcast reaches all that have joined the room as far as their queues
have space. The mapping (`Outside == INSTANCE Hub WITH ...`) reads `_connections` and
the queues as they are; `Entered` are the connections whose send task has been
created, and the rooms of a connection count while it is registered (`Joined`).
`Connect`, `ConnectReplace` and `EvictFinish` are `Enter`; every `Drop` is `Exit`,
including that of a late overflow task which pops a newer connection; joins,
leaves and replies by a session whose connection has been replaced act on the one
that is in. `Hub` allows a broadcast to reach more connections than have joined:
section 5 says why it must.

**RateLimiter.** `Begin` reads the instance's clock, `Execute` is the MULTI/EXEC
pipeline, `ReplyLost` and `RequestLost` are a failing `execute()`, which chat.py
treats as a refusal. The member is the text of the timestamp, so the sorted set is
a set of timestamps. `log` is a history variable.

**RedisBroker.** `channels` and `link` belong to redis-py's `PubSub` (5.x), whose
behaviour is modelled from how the code uses it: `subscribe` connects if need be
and then records the channel, `listen` reads as long as there are channels and
raises when the connection breaks. `listen` on a `PubSub` without channels returns
without suspending: the listener then spins for ever and the whole process with
it. Dictionaries that grow during iteration raise (`ResubscribeGrown`).

**MessageDelivery.** One action per answer of the database or of Redis. A publish
can succeed, fail, or be carried out and have its reply lost (`PublishLost`).
`InsertConflict` is the unique constraint on the key. `Crash` stops a session at
any point. There is one room: that a key is looked up without its room
(`message_service.py:42`) does not show in the model, see section 5. `feed` is what
subscribers receive. The field `by` of an event is the
session it came in on, which handles one event after the other.

**RoomLog.** `rows` and `feed` seen by the members of a room: a message is stored
under a new key (`Store`: a COMMIT, even one whose reply is lost), and a stored message
is shown for an event with its key, not before anything older of the same sender
(`Show`: a PUBLISH that takes effect). All else is hidden.

**History.** `Store` is the commit of a message, with any timestamp, as its INSERT
was some time before on some instance's clock. `Newest` is `ORDER BY created_at DESC
LIMIT`, with ties in any order. A request of `loadMessages` is sent (`switchRoom`,
`LoadMore`), its query runs (`Query`) and its answer is applied (`Receive`) in three
steps, or it fails (`CallFails`); any number of them may be under way, of several
rooms. As in the code there is one message list and one button for all rooms, a
cursor per room that survives a visit, and `Receive` compares nothing with the state
by then. `page` and `earlier` are the list: the page rendered last and what is below
it. `intact`, `base` and the field `asked` are history variables: `intact` is set by
a first page for the open room and reset when the room is switched or closed or an
answer is applied for a room that is not open or a cursor that is not current;
`base` is what was stored before every query whose answer is in the list.

**RestApi.** A writing request is one transaction of `get_db_session`; `pc` is the
statement whose answer it awaits, so that SELECTs, INSERTs, DELETEs and COMMITs are
steps of their own and other requests run in between. The two INSERTs of
`create_room` (`room_service.py:34`, `:43`) are one `Insert`: neither is visible
outside its transaction, and the second, for a room nobody else knows, waits for
nobody. The number of a request stands
for the ids it gives to its rows. A SELECT sees what is committed (READ COMMITTED).
`Insert` waits while another transaction holds the unique key (`KeyLocked`), then
succeeds or ends in an `IntegrityError` (`InsertConflict`); `Delete` is by primary
key, as the ORM deletes the object it has read, and waits for another DELETE of that
row. The tables change at `Commit`; `Rollback` is an error or a stopped process at
any point. A token is its type and its user; it may expire between the check and its
use. `gone` is a history variable. The routes' further response fields and the
listings are left out: they only read.

**Directory.** The same tables without transactions. The refinement mapping in
`RestApi` (`Dir == INSTANCE Directory WITH ...`) forgets the ids of membership rows;
a `Commit` is the abstract step, everything else a stutter. A leave that finds its row
already gone maps to a `LeaveRoom` of a user who is not a member, or to a stutter.

**Presence.** One room; `presence` is its sorted set, `connections` the
manager's `_connections` of each instance, `rooms` the sessions whose own `conn.rooms`
has the room. The difference between the last two matters: `join_room` writes to the
connection that is registered, the cleanup reads the session's own. `pc` is the
Redis command a session awaits. `set_online` reads the clock and then awaits ZADD
(`JoinRoom`, `ZAdd`); `get_online_users` reads the clock, prunes, reads the range and
the names (`GetOnlineUsers`, `Prune`, `Range`, `SendList`). `Crash` stops an instance.
`last` (the last `set_online` per user), `calls` and `broken` (users one of whose
sessions was evicted, dropped, lost or failed to say goodbye) are history variables.
`Cleanup` joins `set_offline` to the manager's `disconnect`, which chat.py separates by
a publish and the lock (`chat.py:222`-`234`): what can come in between, a newer
connection of the user, has evicted the session, which puts the user in `broken`.
The eviction and the overflow are single steps here; their own interleavings are the
subject of `ConnectionManager`.

**Client.** JavaScript runs to the next await. `socket` gives each WebSocket's
`readyState` and the kind of code its `onclose` will report; `close()` without a
code is reported as 1005. `joined` is what the server session behind the socket
has been asked for. The server may answer, refuse and close as it likes; answers
may come in any order.

## 3. Runs

| Run | Properties | Bounds, and why they are enough |
|---|---|---|
| `cm_overflow` | `TypeOK`, `EvictionIsExclusive`, `RegisteredRoomsIndexed`, `RegisteredIsServing`, `RegisteredIsDrained`, `AloneIsRegistered`, `HolderCanGoOn`, `NoOverwrite`, `ManagerIsHub` (the refinement) | two connections of one user, one room, queue of 1, one overflow task each: eviction, late clean-up and overflow overlap. Users share only the lock, which two connections contend for; larger instances are covered by the proofs |
| `cm_live` | `DeadSessionEnds`, `BusySessionProceeds` | the same without overflow tasks |
| `cm_close_cause` | `CloseHasCause`: **violated** | |
| `rl_window` | `WindowLimit`, `DenialIsEarned` | two checks whose clocks are 2 s apart, limit 2, window 6, delay 1, 9 s, 3 pipelines: one more than the limit, and time for entries and the key to expire |
| `rb_live` | `QuietMeansComplete`, `BrokerInv`, `Reconnects` | three rooms and two sessions, so that a room is joined while two others are being re-subscribed; delays 1, 2, 4 |
| `rb_spin` | `NeverSpins`: **violated** | |
| `md_ends` | `AnnouncedIsStored`, `OneIdPerKey`, `BoundedCopies`, `NewestLettersKept`, `TypeOK`, `SenderOrder`, `EveryAnswerCounts`, `RoomIsLog` (the refinement), `EventsEnd` | two sessions, two events (both may come in on one session), one key (or none), 3 attempts as in the code, a dead letter queue of 1 so that it overflows |
| `api_tables` | `UniqueKeys`, `CreatorIsAdmin`, `OnlySeenRowsLeave`, `ServedOneAtATime` (the refinement) | two requests at once and five in all, two names, two addresses; five are what it takes to register, create, leave, join again and leave late. An INSERT that waits for the DELETE of a third request needs three at once: that case is left to the proofs. Requests, names and addresses are symmetric |
| `pr_list` | `ListIsRecent`, `OnlineHasCause`, `RemovedForCause` | an old and a new session of one user on one instance, an onlooker on another whose clock is ahead by 1; timeout 1, times 0 to 3 (one more than timeout and skew), two joins or leaves in all, as many as a late ZADD and a list need. More calls are left to the proofs. The two sessions of one user are symmetric |
| `cl_client` | `OneLiveSocket`, `HearsCurrentRoom`, `FailureIsRetried` | one room (entering it while it is current, leaving and switching included), two sockets, two API calls under way |
| `cl_reconnect` | `AutoReconnect`: **violated** | |
| `hi_walk` | `WalkInOrder`, `WalkComplete` | two rooms, two requests under way, pages of 1, three messages, three timestamps: three pages, ties at a page's end, double clicks, answers left over from an earlier visit or another room. Larger pages are left to the proofs. Rooms and requests are symmetric |

All runs but `hi_walk` switch off the deadlock check: sessions end, bounds are used up, and a
client may be left alone.

### Fairness

* `ConnectionManager`: weak fairness of every step of a session that waits for
  the server's own work (the loop runs ready tasks, a write to a socket or to
  Redis is answered or fails), and of the overflow tasks. Strong fairness of
  noticing a closed socket: the session may be handling buffered events when the
  peer goes, and there are finitely many of those. Nothing is assumed of peers.
* `RedisBroker`: weak fairness of the listener's steps. Redis going down and up
  and the link's losses are unrestricted; `Reconnects` speaks of behaviours in
  which Redis stays up from some point on.
* `MessageDelivery`: weak fairness of the steps that wait for an answer: each
  call returns or raises.
* `Client`: weak fairness of the timer and of close events, both the browser's.
  Nothing is assumed of the user, the network or the server.

## 4. What is proved

Each proof module shows an inductive invariant and derives the properties from
it, for every value of the constants under the named assumptions (the sentinel
values are distinct from the real ones, sizes are positive, offsets are within
the skew).

* **ConnectionManager** (`IndInv`). The consistency of the maps is not inductive
  by itself: one needs who may hold the lock (`LockHolder`), and what a session at
  each await may rely on (`SessionInv`): a connection that is not registered yet
  has no rooms, and the victim of an eviction was registered before. From it
  `TypeOK`, `RegisteredRoomsIndexed`, `RegisteredIsServing`,
  `RegisteredIsDrained`, `EvictionIsExclusive` and the action property
  `NoOverwrite`. `HolderCanGoOn` adds that a session that has started has a socket
  (`SocketInv`), so that the victim of an eviction has one to write to.
  `AloneIsRegistered` needs to know who has been through `connect` (`EnteredInv`):
  whoever can pop an entry has entered, and if that is the connection itself, the
  step ends its serving or finds its socket not open. The refinement of `Hub`
  (`ManagerImplementsHub`) goes action by action: `EnteredInv` makes an entering
  connection new, `SessionInv` its rooms empty, `RegisteredIsServing` tells whose
  connection a reply or a join concerns, and `RegisteredRoomsIndexed` is what keeps a
  broadcast from missing one that has joined.
* **RateLimiter** (`WindowInv`). Every request that is recent enough is still in the
  sorted set, and nothing else is; a stamp is within skew and delay of the time its
  pipeline ran. From it `WindowLimit`, by counting timestamps, and
  `DenialIsEarned`.
* **RedisBroker** (`BrokerInv`). What the re-subscription loop has done so far,
  and that the delay is above its initial value while a reconnect is incomplete.
  From it `QuietMeansComplete`.
* **MessageDelivery** (`DeliveryInv`). What a session knows of the table at each
  await, with one row per key. From it `TypeOK`, `AnnouncedIsStored` and
  `OneIdPerKey`. `BoundedCopies` needs more: events in hand differ (`OwnEvents`), and
  the copies of a session's event are at most its attempts so far (`CopyCount`).
  `SenderOrder` follows from `SenderInv`: the event in hand is the newest that the
  subscribers may have of its session. With both, a COMMIT is a `Store` of `RoomLog`
  (the session is alone with its key) and a PUBLISH a `Show`
  (`DeliveryImplementsLog`). `EveryAnswerCounts` is the variant of `EventsEnd`: `Rank`
  bounds the answers a session still awaits, each step lowers it for one session and
  leaves the others alone.
  `NewestLettersKept` is inductive given the types; its proof rests on what LPUSH
  and LTRIM do to a prefix (`PushedPrefix`, `TrimmedPrefix`).
* **RestApi** (`ApiInv`). Unique keys are not inductive by themselves: a row that is
  inserted and not committed must have its key to itself (`PendingInv`), which holds
  because an INSERT waits; ids of requests under way must be new (`FreshInv`), and
  what each stage has found must stay true (`StageInv`, `TableInv`): accounts and
  rooms are never deleted, and a membership that a leave has seen stays in
  `members` or in `gone`. From it `UniqueKeys`, `CreatorIsAdmin`, the action property
  `OnlySeenRowsLeave`, and the step simulation that gives
  `RestApiImplementsDirectory`. That deleting one row is the abstract `LeaveRoom`
  uses `UniqueKeys`.
* **Presence** (`PresenceInv`). An entry is not newer than the last `set_online` for
  its user, although ZADDs overtake each other (`ClockInv`); a running session of a
  user outside `broken` is the registered one, so that its joins are recorded at
  itself (`RegisteredInv`). From it `ListIsRecent`, `OnlineHasCause` and the action
  property `RemovedForCause`, for every timeout and every difference of the clocks.
* **Client** (the invariant of `ClientInvariance`). A live socket is `state.ws`
  and what was joined belongs to it. From it `OneLiveSocket` and
  `HearsCurrentRoom`.
* **History** (`WalkInv`). Every answer on the way is right about the messages its
  query saw (`AnswersOK`), and while the list is intact the cursor bounds what was
  seen from below and what is missing from above (`CursorInv`). The second needs the
  first, as an answer is applied to a list that has changed since it was asked for.
  From them `WalkInOrder` and `WalkComplete`, for every page size and any number of
  rooms and of requests under way.

Only model-checked: the liveness properties (`DeadSessionEnds`,
`BusySessionProceeds`, `Reconnects`, `EventsEnd`, `FailureIsRetried`), as the prover
does no fairness reasoning. The parts of them that are safety are proved:
`EveryAnswerCounts` for `EventsEnd`, and for the sessions' waiting `HolderCanGoOn`.
What TLC adds is that the steps that are left do happen.

## 5. Where code and documents disagree

Shown by runs:

* `cm_close_cause`: the cleanup of an evicted session calls `disconnect(user_id)`
  and closes the user's **newer** connection.
* `rb_spin`: `_reconnect` does not subscribe `system:dummy` again, so without rooms
  the listener busy-loops, which the dummy channel was to prevent.
* `cl_reconnect`: the client does not reconnect after a close with code 1000, the
  code the server uses for overflow and eviction. With `cm_close_cause` this
  means that a client that reconnects quickly can end up without a connection.

Part of the models, without a run of their own:

* A repeated idempotency key is stored once but broadcast again
  (`chat.py:380`), where the repository's README says that keys "prevent duplicates". (The
  bundled client makes a new key for every message; other clients of the API may
  repeat one, which is what the key is for.) Keys are looked up without room, sender or
  content (`message_service.py:42`): one repeated for another room is broadcast there
  under the id of the first room's message and never stored there.
* The cleanup of an evicted session takes the user off the online list although his
  newer session has joined (`presence_service.py:44`); and as `heartbeat` is never
  called, a user who stays connected is taken off when the timeout has passed since
  his join.
* A session that joins after its eviction never calls `set_offline`
  (`chat.py:293`): the user is shown until the timeout.
* Two requests that register one name, or join one room, at once: the second
  gets an `IntegrityError`, a 500, instead of the `ConflictError` that
  `auth_service.py:34` promises; so does a registration whose name and address belong
  to two accounts (`MultipleResultsFound`). The tables stay consistent.
* A late overflow task pops the entry of a newer connection
  (`connection_manager.py:234`), which then runs unregistered. `AloneIsRegistered`
  says that an older connection is needed for this. The rooms of the connection that
  was popped stay in `_room_connections`, so the user's next connection is sent the
  broadcasts of rooms it has not joined.
* A raising `set_offline` (`chat.py:222`) leaves a dead connection registered.
* A room joined during `_reconnect` aborts the re-subscription of the others
  (`redis_broker.py:213`); nothing is lost only while the delay is at its initial
  value, hence the form of `QuietMeansComplete`.
* Two INSERTs of one key at once end one session with an `IntegrityError`
  (`message_service.py:57`).
* A dead letter is lost when Redis is down, which is when it is needed.
* Requests with equal timestamps count once (`rate_limiter.py:53`), and skewed
  clocks shorten the guaranteed window: `WindowLimit` says exactly by how much.
* Of two messages with one `created_at` at the end of a page the second is
  never shown (`message_service.py:107`): the exception in `WalkComplete`.
* The client applies every answer of `loadMessages` to the list as it is by then
  (`app.js:523`-`532`), which is why `WalkInOrder` and `WalkComplete` hold only while
  the list is `intact`. "Load older messages" clicked twice before the first answer
  renders one page twice. A room opened again while an older page is on its way: when
  that answer comes after the new first page, it puts the cursor where the earlier
  visit was, and the pages in between are skipped. An answer for a room that is no
  longer open fills the list of the one that is. A first page that comes late removes
  the messages that events have appended since its query (`app.js:528`; these events
  are not in the model). Within an older page the messages stand in reverse, as each
  is put on top of the one before (`app.js:532`, `:649`).
* The heartbeat stops at a failed send and cleans nothing up (`chat.py:113`); any
  exception of the rate limiter is reported as "rate limited" (`chat.py:149`);
  `Retry-After` is always 1 (`rate_limiter.py:61`).
* A refresh that is answered after a log-out stores new tokens (`app.js:171`); a
  message typed while the socket is not open is dropped (`app.js:299`).
* After a log-out the client keeps reconnecting (`app.js:234`); a room kept after
  `leave_room` was sent is not heard (`deaf` in `Client`).

## 6. Not modelled

Typing keys are never read back: `set_typing` and `clear_typing` write keys that
expire, and the events that go with them are broadcasts like any other. The Kafka
broker is a stub. Start-up and shut-down are wiring around the broker's `connect` and
`disconnect`. Hashing and signing, SQLAlchemy's pool, HTTP routing, rendering, schemas,
migrations and deployment files have no state of the program's own, or are libraries.
The listings of rooms and members and the health check only read. `unsubscribe`,
`save_system_message`, `heartbeat`, `is_online` and `remove_user_from_all_rooms` of the
presence service, `get_typing_users`, `get_user_by_id` and `get_ws_user` have no callers.
The client's panel of online users is not modelled; a list that is sent after an offline
event overrides it there.

## 7. Plan

1. Done: the modules of section 2. The order was that of importance: the manager
   and its sessions first, as every message passes through them; then limiter,
   broker, delivery, history and client; then the HTTP API with its abstract
   specification, and presence.
2. Done: the abstract specifications `Hub` and `RoomLog`, shown to be implemented by
   `ConnectionManager` and `MessageDelivery`.
3. `ChatSystem`: a composition of two instances from these, as `ConnectionManager` and
   `MessageDelivery` are too large to be composed themselves: `RoomLog`'s `Show` feeds a
   broadcast of each `Hub` through the broker's subscriptions, to be shown to reach the
   connections that have joined, a bounded number of times each and in the order of
   the sender.
4. The order of broadcasts of different senders against `created_at`:
   `MessageDelivery` with the timestamps of `History`.
