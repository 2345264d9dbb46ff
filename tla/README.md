# Notara in TLA+

Notara is a self-hosted workspace of pages, blocks and databases. A Bun server
(Effect, one SQLite file per workspace plus a platform database) serves a React
client over Effect RPC, a REST API, and two server-sent-event channels; an
Electron shell and a command-line client sit on top. This directory holds
specifications of the parts whose correctness rests on the order in which things
happen, the configurations that check them with TLC, and proofs of the main
invariants with TLAPS.

Paths below are relative to `packages/server/src` unless they start with `app/`
(`packages/app/src`) or `shared/` (`packages/shared/src`).

## The system

| Component | State | Operations | Works with |
|---|---|---|---|
| Page tree and trash (`handlers/pages.ts`, trash half of `handlers/databases.ts`, `trash-sweeper.ts`) | `pages`: parent_id, is_deleted, deleted_at, trashed_with | create, move, delete, restore, purge, daily sweep | everything hangs off a page: blocks, databases, tuples, shares |
| Databases and records (`handlers/databases.ts`) | `databases`, `database_records` (with the backing page's id), fields, values, views | create, delete, restore, purge, open record as page, default view | page tree (host page, backing page) |
| Access control (`acl.ts`, `policy.ts`, `policies.ts`, `principal.ts`, `membership.ts`, `handlers/permissions.ts`) | `acl_tuples`, `acl_revisions`, workspace members | effective relation of a subject on a page, bulk filter for lists, revisioned writes of a page's tuples | page tree (nearest bearer walk), workspaces (owner) |
| Blocks (`handlers/blocks.ts`, block RPCs of `rpc-handlers.ts`) | `blocks`: page, index, type, content | create with shift, update, delete, reorder, backlinks | presence (block locks, broadcasts), access control |
| Presence and locks (`presence/*`, `sse-channel.ts`, `app/lib/presenceConnection.ts`, `app/stores/presenceStore.ts`) | in-memory map of users per page, their focus, lock times, subscribers | heartbeat, leave, sweep, lockHolder, subscribe, broadcast | block RPCs, client connection |
| Client editor state (`app/stores/blockStore.ts`, `app/stores/historyStore.ts`, `app/stores/*`) | optimistic copies, in-flight creations, undo and redo stacks, selection | create / edit / delete / reorder, undo, redo | block RPCs, presence |
| Public sharing (`handlers/page-shares.ts`, `handlers/public-page.ts`) | `page_shares`: token, page, publisher | enable, disable, resolve, redact, attachment access | page tree, blocks, databases |
| Attachments (`handlers/attachments.ts`, `handlers/upload.ts`) | `attachments` rows, files on disk | upload (file, row, block), resolve for a reader | blocks, sharing |
| Workspaces (`handlers/workspaces.ts`, `membership.ts`, `demo.ts`, `db.ts`, `workspace-context.ts`) | platform database: workspaces, members, invitations, demo expiry; cached SQLite layers | create, join, invite, remove, demo start and purge | all per-workspace state |
| Backup and restore (`handlers/backup.ts`, `handlers/restore.ts`, `backup/store.ts`, `backup-scheduler.ts`) | archives in a store, schedule | trigger, prune, restore | the SQLite files |
| Import and export (`import/*`, `export/page.ts`) | id ledger, archives | Notion import in one transaction, page export | pages, blocks, databases |
| Keys and REST (`handlers/api-keys.ts`, `api-v1/*`) | `api_keys` | create, revoke, authenticate, scope check, CRUD operations | every handler above |
| Views and filters (`app/stores/databaseStore.ts`, `app/components/DatabaseView.tsx`, `app/components/db/ViewSwitcher.tsx`, `app/components/blocks/view-reference-block.tsx`, `app/lib/filterEngine.ts`) | a tab's copies of columns, rows and views; filters, sorts, the chosen view and its snapshot | edit cells, change columns, filter, sort, choose and save views, show a view on another page | database handlers, view stream |
| View configuration stream (`view-config-stream.ts`) | subscribers by view | publish a changed view | views, the block that shows one |
| Pure functions (`app/lib/formula.ts`, `app/lib/aggregate.ts`, `shared/schema.ts`) | none | evaluate formulas, summarise columns | databases |

How they interact: every request goes through the permission walk of access
control and then to its handler; handlers share the workspace's SQLite file and
nothing else. A block write also asks presence for the block's lock holder and
broadcasts on the page's stream. The sweeps (trash, presence, demos, backups) are
intervals of the same process. The client keeps copies of all of it and is told
of changes only through the page's stream and the view stream.

### What is hard

A handler is a fiber that yields at every SQL statement. Only
`writePagePermissions`, `createBlock`, `reorderBlocks` and the Notion import open
a transaction; every other handler can be interleaved with others between its
statements. Foreign keys are off, so deletions cascade only as far as a handler
takes them.

| Component | Hard behaviour | What makes it correct |
|---|---|---|
| Page tree and trash | delete, restore, move and purge in any order; a tree that is walked level by level while it changes; a daily sweep | `parent_id` never forms a ring and never dangles; every trashed page is in the trash's list or belongs to an entry that is; a restore brings back what its deletion took; the sweep empties the trash |
| Databases and records | rows and their pages have separate flags and separate entries in the trash; a hand-written cascade over four columns; a column's type changes under tabs that still have the old one | no row without its database, no database without its page, one page per row; a cell holds what its column's type can hold |
| Views and filters | tasks of several calls that overlap, loads that land after the user has gone on, a stream that is down now and then | a late answer changes no choice; rows rank as the sorts are listed; whoever shows a view comes to show it as saved |
| Access control | two separately written walks; inheritance through a tree that moves | they agree; a write acts only where the walk meets it |
| Sharing dialog | several dialogs, revisions, members leaving between check and write | no dialog overwrites entries it did not show; the author owns the page when the write lands |
| Presence and locks | requests that overtake each other, silent departures, lapsing, a restart | no ghosts, no stale locks on a screen, a lock is not handed over while it is renewed |
| Blocks and editor | three copies of a text, requests that overtake each other, refusals taken back on a page that has moved on, undo | the screen ends as the server has it; splits, merges, saves and answers lose no letter (nor repeat one); the undo stack leads back |
| Files, backup, demos | files and databases changed one after the other, with no transaction around them, by a process that may stop | a stop loses nothing that cannot be put back; a workspace keeps its owner, a row its file; demos go in the end |
| Import | the same export again, over pages users have moved, trashed and rewritten | one copy of each thing, in a tree, and nothing else touched |

## Modules

| Module | Models | State and actions |
|---|---|---|
| `PageTree` | the handlers of the page table, each one step | `stored`, `parent`, `trashed`, `trashedWith`, `deletedAt` are the columns; `unused` the ids not drawn yet; `carried` remembers what a deletion took (history only). `CreatePage` ... `PurgeExpired` are the handlers, `RetentionPasses` the clock |
| `PageTreeSteps` | the same handlers statement by statement | `h[f]` is fiber f's program counter and locals; `base` the table before the request being served. `Stop` ends the process between two statements. EXTENDS `PageTree` and implements it, stops apart |
| `RecordPages` | databases, records, backing pages and the cascade | `db`, `row` (trash flags and age), `host`, `home`, `pageOf` the foreign keys; `madeFor` remembers whom a page was made for. EXTENDS `PageTree` |
| `Import` | reading Notion exports, between them users at work | `ledger`, `dbLedger`, `rowLedger` are the kinds of `import_ledger`, `claimed` the keys of the last run; an export is a tree of files. `Import(e)` is a whole run, one transaction. EXTENDS `RecordPages` |
| `Tables` | cells, column types, row order; filters and sorts as operators | `type`, `cell`, `born`, `pos` are the columns of three tables; a cell is its words and whether the text is a JSON list. `loose` is history |
| `Views` | tabs on a database, saved views, the block that shows one | `tab` is a tab's store, `out` its tasks (the calls a click still has to make, and the answer to the first), `saved` the views, `ref` the block: what it holds, says and asks for. EXTENDS `Tables` |
| `Access` | the permission walks over the tree | `role` the members, `tuples` the entries of each page. EXTENDS `PageTree`: its `PageRequest` is the tree's handlers behind their permission checks |
| `Permissions` | sharing dialogs | `rev` the revisions, `dialog` each user's dialog. EXTENDS `Access`; the tree stands still |
| `Presence` | one page's presence service, its clients and the network between | `entry` and `order` are the service's Map, `stream` the frames on their way, `view` the client's store, `inflight` the requests |
| `Blocks` | the handlers of one page's blocks | `table`, the rows by id |
| `Editor` | the author of that page: editors on screen, store, undo stack, requests in any order | `store`, `shown`, `saved`, `timers`, `caret` and `past`, `future`, `applying` are the client's; `flight` the requests sent, `held` those that wait for a creation. EXTENDS `Blocks` |
| `Instance` | the installation: data directory, archives, uploads, demos, restore, stops | `data` is the directory, `archives` the store, `job[f]` what each job awaits, `critical` a statement sequence only a stop can cut, `server` up, closing or down |
| `MC...` | instances for TLC | constants only |
| `..._proofs` | theorems | see below |

`PageTree` has two next-state relations. `Next` lets a client ask for what its
screen shows (the sidebar, the list of the trash); `AnyNext` lets it send any id
it has ever seen, as a stale tab or the REST API can. `RecordPages` and `Import`
build on the second. A property is stated under the weaker assumption it survives.

A few definitions differ from the code in form, not in effect. The walks over the
tree are given as least sets (`Below`, `Met`) where the code loops; `PageTreeSteps`
has the loops and is checked to compute the same. Timestamps are "none",
"recent" or "expired". Presence keeps ages where the code keeps times. Ids are never drawn
twice, as ULIDs are not. In `Editor` React's effects run in the step that changes
the store. Mod-Enter at the end of a block is `InsertBlockAfter`, anywhere else `ModEnter`, whose two
halves go to the store while the editor keeps the whole. In `Views` they are a step of their own (`StartLoad`): a load of the block is its listing of
the views, then its fields and rows; the check of the page and what the rows are is left out. In `Import` every CSV file carries Notion's id, and ids are drawn in
one order.

What may overlap differs by module, as it does in the code. In `PageTreeSteps`
fibers yield at every statement and the process may stop there. In `Instance` the process is one thread: the archive
is built and the directory replaced without an await, so only a stop cuts them.
In `Editor` and `Views` handlers run to completion and the requests around them
overtake each other. `Import` is one transaction per run.

Definitions that stand next to a handler under a name of their own (`MoveUnchecked`,
`PurgeRowOnly`, `CommitAnyway`, `LoadDbViewsAgain`, ...) are the same handler with a
plausible mistake. No specification uses them; they show that the properties
notice it.

## Runs

| Run | Question | Instance |
|---|---|---|
| `page_tree` | Do the handlers keep the tree and the trash in order? | 3 pages |
| `page_tree_steps` | Do the handlers' loops and statements do what the one-step handlers say, do they end, and does the sweep empty the trash wherever the process stops? | 3 pages, one request at a time, 2 stops, `FairStepsSpec` |
| `page_tree_moves` | (violated) Does the tree survive two moves at a time? | 3 pages, 2 fibers |
| `record_pages` | Does the hand-written cascade leave orphans, or take what it should not? | 3 pages, 1 database, 2 records |
| `access` | Do the two walks agree, do writes act locally, while the tree moves? | 3 pages, owner and member |
| `permissions` | Can a dialog overwrite what it did not show, or write as a former owner? | 1 page, 3 users, 2 writes |
| `permissions_torn` | (violated) Does a revision name the entries read with it? | the same, entries and revision read apart |
| `presence` | Do screens show ghosts or stale locks, are locks handed over, are the departed forgotten? | 2 users, a tab each, 1 block, 2 requests in flight |
| `editor` | Do splits, merges, moves, saves, answers and refusals lose text, does the screen end as the server has it, does the undo stack lead back? | 1 or 2 blocks at the start, 4 gestures and refusals less those (Mod-Enter inside a block counts twice), 4 block ids |
| `instance` | What do stops, restores, pruning and the demo purge leave behind? | 2 workspaces, 1 anonymous user, 1 upload, 2 jobs, 6 events, retention of 1 archive |
| `import` | Does importing again make second copies, break the tree, touch what is not its own? | 3 imports of 4 related exports, 3 requests, 4 pages, 2 databases, 2 records |
| `views` | Do cells keep their column's form, do rows rank as the sorts say, does a late answer change a choice, does the block come to show its view as saved, and nothing older? | 2 columns, 3 rows; two tabs with 2 edits, or one with 3 clicks on views, or with one of both and a failure; with the block, 2 clicks, or one and a failure |

Why these sizes. Three pages are the least in which a page has a parent and a
child, a subtree can be trashed in two parts, and a ring can pass through the
trash; the theorems cover every number. Two records let one row's page hang below
another's. Two dialogs racing and a third member leaving are the sharing
dialog's interesting cases, and two writes are what one lost update needs.
Presence needs somebody who watches and somebody who comes and goes; two requests
in flight are what it takes for a leave to be overtaken, one step past each of
two TTLs (1 and 2 clock steps, in the order of the code's 10 s and 30 s) is what
lapsing needs, and only one tab's stream gets through, the other user acting
blind, which is the harder case for the locks. In the editor two blocks are what
a merge needs, and four steps hold: type, split, a refusal and an undo. What its marks and `Tied` leave out
was found on longer behaviours as well (random walks of three blocks and six steps); the theorems are
about any. In
`Instance` six events hold an upload, two archives, a restore, a stop and the
clock; two jobs hold a restore and whatever runs during its awaits. The four exports
of `Import` are one workspace as it changes (a page moved, a text emptied, a table
renamed, a row that becomes a folder); three runs let a second undo what a first did and
a third meet the result. In `Views` a stale write needs two tabs and two edits; a choice lost
to a late load needs a load and two clicks; two loads of the block are what one may overtake the other with,
and the view it shows is saved or deleted once between them.

Bounds: `MaxStops` (of the process, in `PageTreeSteps`), `MaxLocks` (pages that bear entries at a time), `Writes` (which entries may be
written), `MaxWrites` (revisions per page), `MaxInFlight`, `MaxStream`, `MaxIndex`,
`MaxOpening`, `MaxEvents` (what users, the clock and failures do), `KeepLast`, `MaxImports`,
`MaxRequests`, `Budgets` (clicks and failures in `Views`), `MaxOut` (tasks of a tab),
`MaxLoads` (loads the block has out at a time; the effect of a render waits for one to end); ids are bounded by their sets. Deadlock is not checked: when
every id is used up and everything purged, or all tabs are closed, there may be nothing left to do.

Fairness. No user, tab or dialog is fair anywhere. Fair are the clock
(`ClockMoves`, `TimePasses`), the intervals (`SweepStart`, `Sweep`, the demo purge:
`setInterval` goes on whatever else happens), the runtime that resumes a fiber whose statement
is done (`Statement`) or whose await has come back, a server started again after a stop
(`Boot`), frames on an open stream, and requests on the wire, which arrive or
fail. `Sweep` is strongly fair because only the bound on the streams disables it,
`SweepStart` and `ClockMoves` because the model has them wait for a request in flight, and
`PurgeDemo` because the stops and restores that disable it for a while do not end its interval. In
`Views` a request may be lost instead, but no more often than `Budgets` says, and an effect runs after the render that asks
for it (`StartLoad`).

Each module has one type invariant. Those with a proof are proved and not run;
the others (`EditorTypeOK`, `ImportTypeOK`) document the state.

## Proofs

Everything below holds for every value of the constants; nothing is assumed but
the named ASSUMEs of the modules (`NoPage` is no page, the founder is a user, the
lock TTL is shorter than the presence TTL, ...).

* `PageTree_proofs`. Types; `NoDanglingParent` is inductive with the types.
  `TreeStaysATree` needs it: a set of pages that is a ring after a move contains
  the moved page, and following parents from the target inside the set
  contradicts the descendant check. `TrashAccounted` is not inductive: a swept-up
  page must still hang, through pages swept up by the same deletion, below the one
  that carries it, which is `HangsTogether`. `RestoreUndoesDelete` needs
  `UndoInv` besides: what a listed page carried away is exactly what is stamped with it.
  `CarrierInTrash` holds for stale ids too, from `CarrierInv`. `PurgeTakesTheSubtree`
  holds for them because what a purge or the sweep removes is closed under children.
  Of the handlers statement by statement, `StepsSpec => ImplementsPageTree` for requests one at a time.
  The invariant (`SerialInv`) says what the request in flight has made of the table it found. A deletion's walk: the
  frontier is all of what was found whose children have not been looked for, so that what is
  found is closed when it runs out; on a ring it does not run out, so a walk that ended
  shows that there was none (no theorem about the tree is needed, which matters since a stop may leave pages
  without a parent). A purge: with what is on the stack, the rows gone hold the roots and every
  child of a row gone, and nothing outside the roots' subtrees; with the stack empty they
  are the subtrees, the least such set. That the stack is a sequence at all needs finitely many rows, which is
  proved of every reachable table. `StepsTypeOK` holds for overlapping requests, too.
* `Access_proofs`. `AccessSpec => Spec`: behind the checks the handlers are still
  the tree's handlers, so the tree's theorems carry over. `ListAndCheckAgree` rests
  on two lemmas: at most one page decides (`OneDecides`), and from a page the sidebar
  shows the two walks climb through the same pages (`VisibleMet`). It is
  limited to those pages since the list's walk goes by the rows in the list.
  `WritesAreLocal` follows from `WalkUnmoved`.
  Of the dialogs, `DialogInv` says what a dialog whose revision is current
  knows: its entries are current, and if it is saving, its author owns the page.
  `NoLostUpdate` and `OwnerWhenWritten` are both read off it. The invariant is about
  dialogs that read entries and revision together; `permissions_torn` shows
  what the code's two reads lose.
* `Presence_proofs`. `ShownIsRecorded` is inductive with the types of the frames.
  It speaks of the newest frame of each stream, which a delivery does not change
  and a new connection sets to the truth. `LockStaysPut` rests on `OrderTypeOK`: the order of the Map is
  a total order on those on the page, and a step takes users out of it, puts one at its end, or leaves it. The Map is
  kept as that order, who came before whom; the same as a sequence would need induction over it.
* `Editor_proofs`. Of the table alone, `BlocksSpec => []IndexesDistinct`: blocks of a page never claim one
  place, for calls served one after the other and orders that name the whole page
  (`WholePage`, what the editor sends of what it shows). The lemma `RoomIsMade` is the shift: it keeps places
  apart and leaves the one asked for free.
  Of the editor, `NothingHidden`. It says nothing while requests are out, so the invariant (`EditorInv`, its core
  `Accounted`) has to: a block that is in the table, or that a creation on its way will put there, is on the
  screen, or its deletion is out and puts it back when refused, or it is the one that the undo in progress
  brings back. That needs two more: an id is created by one request and not yet stored while that
  is unserved (`CreationsApart`), so a refused creation takes nothing off the screen that is stored; and the
  requests of undos are out one at a time (`OneUndo`), so `applying` names the block a listing must have.
  Gestures put requests on the wire or hold them back, answers release them, and the network reorders
  them; none of it matters to the invariant, which is about the family of requests up to the places they are at
  (`Same`, `SoundAnywhere`). Each kind of step is then a lemma about one request beside the others
  (`Sends`, `ServesDeletion`, `Settles`, ...). The two lemmas on requests are theorems, too
  (`NoIdIsCreatedTwice`, `UndosAreOneAtATime`).
  `SavingKeepsTheText` needs to know which answers cannot come. Some would change the screen: that of a creation or
  a deletion that failed, that of an update whose row is put back. `CalmInv`, inductive on top of `EditorInv`, says that
  while nothing is refused and no listing goes astray a creation and a deletion are not
  refused, and an update only after its block left the screen. Hence what it says of the wire: a block is deleted by one request, sent when
  it left the screen (`Undisturbed`), and after its creation was answered (`InTurn`: the use of the promises that
  `afterCreate` waits for), and the block an undo brings back is one nobody has written to. A save that
  fires rewrites a row in place, and the sort looks at indexes alone (`SameOrder`).
* `EditorSaved_proofs`, on top of these two invariants. `ScreenIsSaved` speaks of a quiet page, so its two invariants speak of the requests on the way, for as long as no mark
  is set, `uncut` among them. `Text`: what an editor shows is what the last update to its block carries, held ones
  after those on the wire; with no update under way, it is in the table or in the creation on its way (`Agreed`);
  otherwise the block's timer is pending and the editor differs from what it last saved. The mark `returned` is
  needed exactly there. `Matched`, of the order: let each creation on its way make its room in the table's indexes, in the order of the
  ids, which is the order they were sent and will be served in (`Stages`, `CreatedInOrder`); the store's rows are at the indexes that result, and
  of two at one index the earlier is the lower rowid (`Placed`: a deletion closes no gap, and stored indexes can
  collide). That is given up while a move or an undone deletion is on its way, whose answer brings all rows; such an
  answer, if no later one follows it, is in the table's order (`ListsMatch`), since what was sent before it was served before
  it. Two sorts, the client's by index and position and the server's by index and rowid, then
  rank every block alike (`SameRank`, `PlacedInOrder`).
  `RestructuringKeepsTheText` compares what the page reads before and after a gesture. A merge
  takes the text from the store and the user sees the editors, so the invariant (`LegibleInv`) is that, while nothing was refused,
  no listing went astray and no Mod-Enter divided a block, the editors show the store, and what is
  on the wire or on the undo stack is nothing but text. That the store has every block once
  holds whatever Mod-Enter left in an editor (`UniqueInv`), and `LeadsInv` rests on that alone. `CalmInv` excludes the answers
  that would change rows. A block created at the index after another's comes right behind it in the order, unless a third
  shares that index (hence `Tied`), and dropping a row leaves the others in their order. The rest is about the
  concatenation: the page reads the same when a text is cut in two neighbours or two neighbours are joined (`SplitReadsTheSame`). `ListsFlatten`
  proves what lists laid end to end are, along the list, by least counterexample as for the views below.
  `PastLeadsBack` speaks of a quiet page too. Its invariant, `LeadsInv`, is about the stack's entries together with those that
  requests under way will put there (`Deeds`), so that an answer, which turns one of the latter into one of the former, changes no deed. They
  account for every block: one that the page was not loaded with was made by a deed, one that is missing was taken
  by one (`Everyone`). While the stack holds no move, the first blocks stand as they did, with room for one that was taken, and a move under way
  has that order in `prev` (`Unshuffled`); once it holds one, its first move has. Of the undo in progress `Awaited` says what its request will
  have done. Once a deletion is followed by anything, or an undo meets a gesture (`Lost`), nothing is claimed, and it stays so until the page is
  one that `PastLeadsBack` does not speak of. Then the stack is unwound entry by entry, by a downward
  induction in the form of a greatest counterexample (`StackUnwinds`, `StackBacked`): the store that entries k and
  later leave, taken back, has what the entries before k account for (`Backed`). Before the first entry these are the blocks 1 to `opening`, and their indexes ascend (`BackedToTheFirst`).
* `Import_proofs`. All four properties of `record_pages`. What a purge takes is the least
  set closed under the cascade (`GoneClosed`), so nothing it leaves hangs off anything it took
  (`PurgeKeeps`). `NoGhostPage` needs `OneBackingPage`, by which the page made for a row is the one
  the row names and so is found, and that needs `FreshIsUnmarked`. For `PurgeSparesVisible` the
  least set is compared with two others the cascade cannot leave: the pages not shown, and these with the pages below
  lost rows' pages.
  Of the import, `LedgerInv`: no two keys share an id, ids not drawn yet are nobody's, and a stored
  page made for a key is the one the ledger has for it. A run's ids are the ledger's and fresh ones, no two alike
  (`IdsApart`; that there are enough of them to draw is `SmallerFits`), and it writes to these only (`RunsWrite`).
  Nothing about the shape of an export is used but that it is finite. `ImportShows` and
  the tree need that folders do not nest in a ring, a walk up a recursive function, and stay with TLC.
* `Instance_proofs`. The five safety properties of `instance`. `OwnersExist` and `RowsHaveFiles` are inductive only over
  every copy there is: the directory, the archives, what a job has fetched and holds, the
  uploads under way (`Placed`, `Uploading`, `Complete`), whose ids no copy has yet (`Fresh`). The other three are about which archives are left when. `Keys` says how archives
  are numbered and listed: a key is given out once, what a listing finds to prune never includes a restore's
  snapshot without the older archive it restores, and never the newest archive.
  `Kept` says that what a restore overwrites outlasts it: there is an archive that holds it and that
  nothing prunes until `KeepLast` newer ones are there. A listing to prune was
  made earlier, so `CoveredBy` speaks of the listings jobs hold as well as of the store.
* `Views_proofs`. `MultiHoldsLists` is not inductive: a relation that becomes a multi-select brings its cells along as they
  are, so `ListsHoldLists` says it of both. It needs that a database starts so (`FirstAssumption`) and nothing about what tabs send.
  `ViewsTypeOK` says what the tables, the tabs, their calls with the answers to them, and the block hold. `ChoiceIsKept` needs
  of it which parts a tab has. `ShownIsTheQuery` needs that the rows a tab holds are a list and its query is one users set or saved;
  the rest is about the operators. Each is a fold. `PassesAreDefined` and `KeepingIsDefined` prove that the
  recursive functions under the folds exist, by least counterexamples (`ClimbsUp`, `ClimbsDown`, from the library's theorem on
  least elements, which takes no operator). One pass of `Array.sort` permutes the rows, lighter ones first and rows of one weight
  as they stood (`PassIsStable`); the passes from the last sort to sort m leave the rows as the sorts from m on have
  them (`Ranged`), and filters leave rows in the listing's order (`FiltersDraw`).

Checked by TLC only: `ImportShows` and the tree after an import; the liveness properties (`RequestsEnd`, `NothingTrashedForGood`, `DepartedForgotten`, `DemosReclaimed`, `ReferenceCatchesUp`,
`EverythingSettles`), which are beyond the prover, as is ENABLED.

## Where the code and its words differ

Two runs are about it.

* `page_tree_moves`: `movePage` checks and writes in separate statements; two moves
  close a ring.
* `permissions_torn`: entries and revision are read in separate statements.

The rest was met while modelling; the models have it, and the properties are
stated so as to say what is left, each in its comment.

Pages, rows and access.
* `restorePage` brings a page back whatever its parent is; a page restored under a
  trashed parent is live, drawn by no sidebar and in no list of the trash.
* Purges are said to run "inside a transaction" (`handlers/databases.ts:696`); nobody opens one. A stop
  between the row and its children leaves these behind: those in the trash are under no entry of it and go with a later sweep,
  but a live one, restored under the purged page before, keeps a parent that is gone. A restore cut off
  before its second statement leaves what was swept up to the sweep, under no entry of the trash.
* The trash lists a row and its page apart; restoring the page alone leaves it on
  the sidebar while its row waits for the sweep, which takes both.
* REST's `createPage` (`api-v1/operations.ts:150`) does not check the parent, as the RPC does.

Backups.
* An archive taken of a directory that a cut-off restore left torn is as torn, and restoring it brings that back.
* Restores overlap when the second is asked for while the first fetches. Of two, what the first brought in may be in no archive
  once the second is cut off: its snapshot was taken before the first replaced the directory. `TornIsRecoverable` is about what
  was there at the snapshot.

Presence.
* A lapsed lock is left out of a frame and its renewal sends none; the service then
  refuses a peer's saves for a block the peer's screen shows as free
  (`presence/PresenceService.ts:134`).
* A heartbeat on the wire can arrive after the leave and put a user back on the page until
  the sweep. A blur and a focus can arrive the other way round (`app/lib/presenceConnection.ts:268`).
* When two users have the caret in one block, the holder is whoever came to the page
  first, while each client locks the block because of the other.

Blocks and editor.
* `savedContentRef` is said to be what the server is known to hold (`app/components/BlockEditor.tsx:133`). A split, and a
  list that is left, write the block and do not touch it (`:958`, `components/BlockNavigationExtension.ts:115`). Press Enter before
  the last letter, type that letter again and wait: the editor reads what was last saved, nothing is sent, and the server keeps the
  shorter text. `ScreenIsSaved` is claimed of pages where no edit brought a block back to its `saved` (the mark `returned`).
* Mod-Enter inside a block (`app/components/BlockNavigationExtension.ts:192`) sends the first half as the block's text
  and the second as a new block's, and leaves the editor as it is. Enter cuts it down first (`:244`), since the editor has
  the focus when its row changes, and the effect that follows the store passes it over (`app/components/BlockEditor.tsx:357`). So the
  screen goes on showing the whole text above the second half, with nothing under way and no failure; a save still pending, or the next letter typed there, sends the whole, and the
  second half is in the page twice. Before that a Backspace in the new block puts it right again. `e2e/editor-enter.spec.ts:79` tests Enter for just that, and no test
  Mod-Enter. The model has it (`ModEnter`); `ScreenIsSaved` and `RestructuringKeepsTheText` are
  claimed of pages where it was not used (the mark `uncut`) and fail without that condition. `NothingHidden`,
  `PastLeadsBack` and `SavingKeepsTheText` hold with it.
* `setLocalContent` levels the store's type with the content, so that the save that
  follows sees no change and the type column is never written.
* A refused creation whose block was deleted meanwhile leaves the block on the screen; an undo of a deletion
  whose listing fails leaves an unseen copy and its entry on the stack.
* A failed update puts the whole old row back, index and type included
  (`app/stores/blockStore.ts:186`); updates are served in the order they arrive.
* The answer to a reorder replaces the whole store (`:243`), against the comment at `:64`.
* A merge is an update and a deletion that succeed or fail apart.
* A deletion closes no gap in the indexes (`handlers/blocks.ts:118`), and its undo creates the block again at the index
  it had (`app/stores/historyStore.ts:43`), where the server makes room. Of four blocks delete the third, then the first,
  and undo twice: the third comes back before the second. The same with an insertion instead, undone before the deletion is. So `PastLeadsBack`
  is claimed of stacks whose deletion, if any, was the last thing done, undone since or not.
* An entry is recorded with the place its block had at the gesture. Move a block, undo it, and delete a block before the answer: the deletion goes
  on the stack with an index from before the undo, or, when the undo is answered last, not at all (`app/stores/historyStore.ts:43`). The mark `tangled` stands for such pages.
* Entries are recorded when answers arrive (`app/stores/blockStore.ts:126`), not when the gestures are made; the stack may hold them in another order.
* The answer to a reorder, taken while a creation is out, undoes the room the store made for it: the next
  block is then created at an index that is another place on the server.
* A reorder of a stale list leaves two blocks with one index; so does an upload while a
  block is created (`handlers/upload.ts:74`). Enter in the upper of the two puts the new block at the next index, behind
  both, so the second half of the split text reads behind the other block: drag a block, press Enter before the drag is
  saved, let the creation be saved first, and press Enter again. `RestructuringKeepsTheText` is claimed of stores in which
  no two blocks share an index (`Tied`).

Import.
* The purge of an imported page leaves its key in the ledger; the next import updates
  nothing and hangs pages and blocks off the missing row.
* A re-import revives a page that was swept up with others; those stay in the trash, under
  no entry of it.
* A table is keyed by its path, which changes when a page above it is renamed: it comes
  twice, although `import/notion.ts:1134` calls the key stable.
* A row opened as a page and then imported with a text gets a second page. A table
  referred to from below a row hangs off no page (`:1093`). Rows of one title are one row.

Databases and views.
* A type change and the write of a cell overlap by statements: the bare text of a stale write
  is what the new type keeps. A bare value in a relation column stays bare when
  the column becomes a multi-select, although `handlers/databases.ts:67` has it that none can be.
* Changes of type are called lossless (`:45`): a text read as a number and then as a list
  becomes an empty list, a text read as a checkbox the word "false", a list its first entry.
* Blanks come first in a descending sort (`shared/field-types.ts:81` has them last in both
  directions); a tag that is a number sorts as a blank; an empty list does not pass "is empty".
* Two first writes of a cell leave two rows (`:319`), two changes of the default view two
  defaults (`:627`). Adding and removing options write whole arrays from stale copies.
* A new row can be on screen twice: its creation is answered after a listing that has it
  (`app/stores/databaseStore.ts:262`). Overlapping loads leave the older rows. After a
  reorder new rows come first.
* Saving a view and choosing another before the answer leaves the first one's snapshot with the
  second; deleting a view takes a choice made meanwhile away, since the click remembers what was chosen.
  The default view is taken up on later loads too, where nothing was chosen.
* The block that shows a view parses its content at every render (`app/components/blocks/view-reference-block.tsx:25`), so
  that its effects run again after each: every load renders, and every render starts a load. It reloads without end, its view
  giving way to "Loading…" each time (`:279`), and its stream is closed and opened as often. So the screen does not
  settle. What `ReferenceCatchesUp` claims is that it comes back to the view as saved again and again, and
  in the end shows no other and no failure in between. That rests on the reloading: it fails of a block whose renders start no load
  (`RendersOnly`), which would have only its stream to go by.

## Plan

Done: the modules above. What a next step would take up, in this order:

1. `PageTreeSteps` with several requests at a time: what survives of the trash's
   properties; `RecordPages` with two-step opening of a record; `Tables` with two-step writes.
2. `Sharing`: links that carry their publisher's access, on top of `Access`.
3. A second author in `Editor`: frames of the page's stream folded into the store.

## Not modelled

Rendering, text conversion (markdown, HTML, CSV, formulas' syntax), aggregates, the
authentication library, mail, logging, row mapping and start-up have no protocol
of their own. The REST API and the command line reach the same
handlers through the same checks. Of the screens only what moves state across calls is
in `Editor`, `Presence`, `Permissions` and `Views`; menus, drag previews, board and calendar
layouts are not. Public links and API keys are left for `Sharing`. `PROJECT.json` lists every component with
its status and the hazards no property covers yet.
