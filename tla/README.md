# RailKeeper2: a TLA+ model

RailKeeper2 keeps an inventory of model railway vehicles. One Go process (`backend/`)
has a SQLite database and an uploads directory; a React client (`frontend/`) runs in the
browsers of its users. This directory models both sides: how concurrent requests change
the tables, files and caches of the process, and how the pages of the client keep up with
them while answers come late, in another order or not at all.

## The system

### The backend

| Component | State | Operations | Talks to |
|---|---|---|---|
| Master data (`application/master_data.go`, `infrastructure/master_data_seed.go`) | tables `master_data_entries`, `master_data_relations`; the lists cached in memory | list, create, update, delete, import, export, warm the cache, migrate and seed at start | backup (replaces the tables), the router's import and restore handlers |
| Exhibition lists (`application/exhibition.go`, `api/exhibition.go`) | tables `exhibition_lists`, `exhibition_entries`; audit log | create, rename, lock, delete a list; create, change, delete entries | audit log, backup |
| Accounts (`application/setup.go`, `auth.go`, `api/users.go`, `api/sessions.go`) | users, roles, sessions, password reset requests, audit log | first setup, login, logout, user management, password change and reset, session review | rate limits, mailer |
| Rate limits (`application/rate_limits.go`, in-memory fallback in `api/router.go`) | attempts per scope and key | allow | every public account handler |
| Vehicles and inventory numbers (`application/vehicles.go`, `inventory_numbers.go`) | vehicles; schemes: prefix, next number, padding; history of numbers | create, update, delete, edit a scheme, draw a number | images, article search |
| Vehicle images and files (`application/vehicles.go`, upload and delete handlers of `api/router.go`) | image, attachment, CV file and maintenance rows; files under the data directory | upload, delete, replace with the vehicle, make primary | vehicles, maintenance, backup |
| CV values, functions, external mappings (`application/vehicles.go`) | CV values with history, function keys, mappings to ECoS and article data | upsert, update, delete | vehicles, ECoS |
| Backup (`application/backup.go`, handlers in `api/router.go`) | all inventory tables and the uploads directory | export, validate, restore | every other component's tables |
| Migrations (`infrastructure/sqlite.go`) | `schema_migrations` | apply in order at start | database |
| ESU LokProgrammer files (`api/esux.go`), ECoS (`application/ecos.go`), article search (`application/article_search.go`), mailer | none of their own | parse, ask, send | vehicles, CV values, accounts |

Everything goes through one `sql.DB` with one open connection
(`infrastructure/sqlite.go:37`). A statement outside a transaction, and a whole
transaction, is therefore one atomic step; between two statements of a handler any
other request can run. That is the interleaving of the backend modules.

### The client

| Component (`frontend/src/`) | State | Operations | Asks the backend for |
|---|---|---|---|
| Session and navigation (`app/App.tsx`, `app/Shell.tsx`, `features/auth`, `features/setup`, `shared/api.ts`) | page and view of a tab, its CSRF token; the cookie all tabs share | start, setup, login, logout, follow a link, load the page anew | accounts |
| Vehicle dialog and list (`features/vehicles/VehiclesView.tsx`, its tabs) | a copy of the vehicles; the form with images and parts; the job that disables the buttons | open, edit, save, upload, mark, delete | vehicles, images |
| CV tab (`VehiclesView.tsx`, `cvImport.ts`) | a copy of the values, the preview of a file, the form | edit, preview, import a file or from the ECoS | CV values |
| Import and export (`features/importExport/`) | rows with field mapping, status and selection; the loop that stores them | load, map, correct, select, store; write and read delimited text | vehicles, mappings, CV values, functions |
| Exhibition page (`features/exhibition/ExhibitionView.tsx`) | lists, selected list, entries shown, four dialogs | select, edit, lock, view, print | exhibition lists |
| Settings page (`features/settings/`) | master data by type, number schemes, a backup file and its validation, forms of users, SMTP, password, printers | edit, import, validate, restore | master data, backup, accounts |

A page asks, goes on, and takes an answer into whatever state it is in when the answer
comes: a handler after an `await` sees the props and state of the click that started it
and writes into the page of now. That is the interleaving of the client modules. Every
request ends: an answer, an error, or the timeout of `shared/api.ts:769`.

### What is hard

Forty behaviours that are hard to test are listed with their lines under `hazards`
in `PROJECT.json`. They come in seven kinds:

- **read, then write in a later statement**: locks of exhibition lists, reset links,
  inventory numbers, primary and linked images;
- **copies older than the tables**: the master data cache, open vehicle forms, the rows of
  an import, a password verified before it is changed;
- **answers out of turn**: the entries of a list that is no longer selected, a refresh of a
  dialog that shows another vehicle by now, the validation of another file;
- **loops of requests that fail half-way**: imports of vehicles and of CV values, uploads;
- **rows and files, which no transaction covers together**: uploads, deletes, backup;
- **failures and restarts between two steps**: seeding, restores, audit entries;
- **the single connection**, which one open transaction takes from everybody.

What makes each part correct:

| Part | Properties |
|---|---|
| Master data | a stale cached list has a known cause and a write ends it; a start undoes no edit but what a new migration rewrites, and fails only over foreign documents |
| Exhibition lists | a locked list settles, and so does what a deleted one leaves; only lock requests move a lock; the audited lock is the real one when requests take turns and no audit entry is cut off |
| Accounts | an admin always remains; a deleted user gets nothing more; a changed password ends the old sessions; a reset link works once when requests take turns |
| Inventory numbers | every vehicle has one number, no number twice, an issued number is new: the book of `NumberBook`; the history is a chain that ends with the current number when updates take turns |
| Vehicle images | the file of a row is on disk and belongs to that row alone; a row keeps its file through saves of forms that do not know it; one primary image and protected links when requests take turns |
| Backup | a restore that reports success brings back exactly the backup when requests take turns; a transaction always gives the connection back |
| Session | a tab changes things in the name of the user it shows; an address leads back to the view |
| Vehicle dialog | it shows one vehicle and saves no image away but those beyond the limit; it settles on what is stored |
| CV tab | an import overwrites only what its preview said; importing again changes nothing |
| Import | a row marked as saved is stored; an update keeps what the page knows of the vehicle; what is written is read again |
| Exhibition page | entries appear and are printed under their list and as they were saved; addresses are not used twice |
| Settings | the table is that of the server; a save overwrites what was shown; only a load of the SMTP settings drops the draft of a user who waits |

## The modules

| Module | Models | Its state in the code |
|---|---|---|
| `MasterData` | `application/master_data.go`, `infrastructure/master_data_seed.go`, the migrations of `infrastructure/sqlite.go` as far as master data go, the restore handler of `api/router.go` | `entries`, `relations`: the two tables; `version`: migrations applied; `phase`: the process is down, up or failed to start; `cache`: `MasterDataService.cache`; `foreign`: history, the tables come from a document the program has not made; `late`: history, lists stored after a write they do not show; `writes`: bound |
| `ExhibitionLists` | `application/exhibition.go`, `api/exhibition.go` | `lists`, `entries`: the tables; `audited`: the latest lock event in `audit_logs` |
| `Accounts` | `application/setup.go`, `auth.go`, `api/users.go`, `api/sessions.go`, the `requireAny` and CSRF wrappers | `users`, `grants`, `sessions`, `resets`: the tables; `sessions[s].pw`: the password its holder proved |
| `InventoryNumbers` | `application/inventory_numbers.go`, the numbers in `application/vehicles.go` | `schemes`, `vehicles`, `history`: the tables; `drawn`: history, numbers that draws gave out |
| `NumberBook` | what inventory numbers promise: the abstract specification that `InventoryNumbers` implements | `book`, `struck`, `issued` |
| `VehicleGallery` | images and maintenance entries in `application/vehicles.go`, the upload, delete and download handlers of `api/router.go`, the vehicle form as far as its images go | `vehicles`, `images`, `maintenance`: the tables; `files`: the uploads directory; `forms`: open vehicle forms |
| `Backup` | `application/backup.go`, the attachment handlers | `vehicles`, `attachments`: two tables for all sixteen; `files`; `backup`: the last export; `conn`: who holds the connection |
| `VehicleEditor` | the vehicle dialog and list, with the answers of `application/vehicles.go` | `fleet`: the server's vehicles; `list`, `modal`: the copies shown; `job`: `saving`; `answers`: requests under way |
| `CVTransfer` | the CV tab, the preview and both imports of CV values, the server's checks of a value | `stored`: the table; `copy`, `preview`, `editing`: the tab; `saving`: the loop; `refreshes` |
| `VehicleImport` | `ImportExportView.tsx`, matching, mapping and merging of `importExportHelpers.tsx`, the requests of the loop | `server`: the table; `vehicles`, `rows`, `file`, `columns`: the view; `list`, `job`: questions and loop under way |
| `DelimitedText` | `parseDelimited`, `escapeCSV`, `vehiclesToCSV`, character by character | the local variables of the parser |
| `ClientSession` | start, setup, login, logout, views and addresses, the token of a tab | `tabs`; `cookie`, `start`: what the tabs of a browser share; `owner`, `live`: sessions; `asked`: answers under way |
| `ExhibitionClient` | `ExhibitionView.tsx` | `stored`: the server's lists; `view`, `dialogs`: the page; `awaited`: answers under way |
| `SettingsData` | master data, import, backup and restore of `SettingsView.tsx` | `entries`: the server's; `table`, `form`, `backup`: the page; `calls` |
| `SettingsGeneral` | number schemes and use of the storage of `SettingsView.tsx` | `schemes`, `role`: the server's; `rows`, `typed`: the table, which is its own form; `waiting`: loads under way; `coming` |
| `SettingsForms` | users, SMTP, password, printers of `SettingsView.tsx` | `accounts`, `alive`: the server's; `shown`, `userForm`, `drafts`, `busy`, `printer`; `replies` |

In the backend modules `req` says where each request is and what it has read so far, and
`spent` which ids and file names were given out: `randomID` and the time stamps in file
names promise that none comes again. One action stands for one statement outside a
transaction, or for one whole transaction with every check and write in it; its guard
repeats the early returns of the code, an error return is an action of its own
(`Abandon`, `SaveFails`, `RefuseUpload`, `RowFails`). `Restart` ends the process at any
point: requests are forgotten, an open transaction is rolled back, tables and files
stay; `MasterData` has the stop and the start apart (`Stop`, `Migrate`, `Start`,
`StartFails`). In `Backup` alone the connection is a variable; elsewhere a step that waits
for the connection is a step that has not happened yet. A restore that meets a refused row
leaves its transaction open until the context of its request ends (`backup.go:180`, the
error is shadowed, so that the deferred rollback does not run). Two more operations have
that shape and return without a rollback: `DeleteUser` for an unknown user
(`auth.go:528-530`) and `UpdateCVValue` for a value that is gone (`vehicles.go:1532`). What
`Backup` shows of the connection is the argument for them, too.

In the client modules the server handles a request in one step and its answer stays in a
set or sequence until it is taken in or lost; the fine steps of the server are in the
backend modules. An action is a handler of the page up to its `await`, or what it does
with an answer.

**Composition.** The components of the backend touch each other at few points, which the
modules carry themselves: the restore as a write behind the cache in `MasterData`, the
vehicle delete and the maintenance entries in `VehicleGallery`, attachments and the delete of
vehicles in `Backup`. The client modules carry the server as their page sees it. A
link of the navigation loads the client anew (`app/Shell.tsx:150`), so the states of two pages
never meet: `MCVehiclePages` and `MCClient` put the pages side by side, one page in a
behaviour.

**References.** The migrations declare references between tables, most of them
`ON DELETE CASCADE`, but they are not enforced: the DSN asks for it with `?_foreign_keys=on`
(`infrastructure/sqlite.go:27`), which is the spelling of the driver `mattn/go-sqlite3`,
and the program links `modernc.org/sqlite`, which spells it `_pragma=foreign_keys(1)` and
ignores the other. So nothing cascades and no insert is refused over a missing row, in any
module: the entries of a deleted list stay, and so do the roles, sessions and reset links
of a deleted user and the images, maintenance entries and attachments of a deleted vehicle.

## What is checked

`tlc -workers 2 -config <cfg> <module>` repeats a run; the longest takes under four minutes.

| Run | Question | Answer |
|---|---|---|
| `master_data` | When may a cached list differ from its table, what does a start change? | `StaleCacheHasCause`, `StartFailsOnlyOnForeignDocuments`, `OnlyWritesChangeRows` hold |
| `master_data_restore` | Are the cached lists those of the restored tables after the warm-up? | no: `RestoreRefreshesCache` is violated |
| `exhibition_lists` | What do lock, deletion and audit guarantee without transactions? | `OnlyOvertakenWritesAfterLock`, `OnlyOvertakenWritesAfterDelete`, `LockChangedBySetLocked` hold; `AuditMatchesLock` as long as requests take turns |
| `accounts` | What survives concurrent user management, logins and resets? | `AdminRemains`, `DeletedUsersStayOut`, `NoSessionSurvivesPasswordChange` hold; `ResetLinkWorksOnceInTurn` as long as requests take turns |
| `inventory_numbers` | Are numbers unique, new when drawn, and their history right? | `NumbersUnique` and the refinement `KeepsTheBook` hold; `HistoryFollowsInTurn` as long as updates take turns |
| `vehicle_gallery` | Do rows and files stay together, is there one primary image? | `RowFilesExist`, `FilesNotShared`, `ImagesKeepTheirFiles` hold; `OnePrimaryInTurn`, `LinkedImagesStayInTurn` as long as requests take turns |
| `vehicle_gallery_links` | Do links of images lead to an entry? | no: `LinksValid` is violated |
| `backup` | Does a successful restore bring back the backup, does every transaction give the connection back? | `ConnectionReturns` (liveness) holds; `RestoreBringsBackInTurn`, also after attempts that stopped or failed, as long as requests take turns |
| `vehicle_pages` | Do the vehicle dialog, the CV tab and the import show and store what they should? | `TypesOK`, `DialogShowsItsVehicle`, `SavesKeepImages`, `LoopKnowsWhatItStores`, `UpdatesKeepKnown`, `SavedRowsAreStored`, `ImportsAsShown`, `ImportedAgainIsSame`, `ReadsWhatWasWritten` and `PagesSettle` (liveness) hold, most of them for a user who waits |
| `vehicle_import_update` | Does an update by an import row leave every field it does not bring? | no: `UpdatesKeepFields` is violated |
| `vehicle_editor_mark` | Does the exhibition mark leave the images? | no: `MarksKeepImages` is violated |
| `client` | Do session, exhibition page and settings show and store what they should? | `SessionTypes`, `ReloadShowsSame`, `ActsAsShown`, `EntriesBelong`, `AddressesUnique`, `TableShowsStored`, `OverwritesWhatWasShown`, `FormsKeepUp` and `PagesSettle` (liveness) hold, most of them for a user who waits |

**Properties that hold in turn.** Some behaviour is right only while requests do not
overlap, because the code reads in one place and writes in a later one. History variables
say when that has happened, and no action looks at them; the properties are claimed until
then and range over failures, stale forms and long sequences of requests all the same.

- Backend: `overlapped` becomes true for good when two requests have been under way at once.
  `missed` in `MCExhibitionLists` holds the lists whose last change of the lock was cut off before
  its audit entry, by a stop or a failing statement. The same runs check the unconditional
  properties on every interleaving.
- Client: `hurried`, `unaware`, `disturbed` in `MCVehiclePages` and `hasty`, `failed`, `rash`,
  `eager`, `impatient` in the modules of `MCClient` say that the user went on while an answer was on its
  way, that a request failed, or that someone else changed the data; `mixed`, that a tab
  took the token of a session of another user. Each is defined next to the properties
  that need it, with the line of the code that goes wrong without it. For liveness only
  "list equals table" and "tab equals table" are claimed under such a condition: that
  loops end and buttons come back is claimed of every behaviour, but for what the effects of the
  settings ask for without end (see below).

**Bounds.** Two requests are enough for every hazard of the backend, each of which is a step
of one request between two steps of another; the theorems cover any number. Two ids of a
kind let a row be mistaken for another one, or a second row appear while the first is
being handled; ids are never reused, so a run ends when they are used up, and so do the
counted steps of the users of the client, which is why most configurations do not check
for deadlock. `master_data` and `exhibition_lists`, in which the process can always be
restarted, do. Per run:

- `master_data`: a seeded and a free entry, a seeded relation, two labels and one that stands
  for metadata that are no JSON; two migrations, one that inserts a row and one that sets a
  label or rewrites its old form (as `0026`, `0031`, `0032`); an import the program could have
  exported, one with an entry and one with a relation under a foreign id, one the database
  refuses, and two backups, one with unreadable metadata; `MaxWrites = 2` commits, so that a
  read has a write before and one after it.
- `exhibition_lists`: two lists, two entries; a sort order of -20, or none, reaches both
  branches of the next one. 3.5 million states.
- `accounts`: two users, sessions, reset links and passwords; roles `{Admin}` and `{Messe}`,
  the two sides of every role check. 3.4 million states, as what is left of deleted users stays.
- `inventory_numbers`: two vehicles, schemes edited to just below a change of length, back
  to used numbers and out of use; `MaxNumber = 11` ends the counting, `MaxAttempts = 2`
  (500 in the code) is reached. The last number that fits is a bound of the model: the code
  counts in 64 bits.
- `vehicle_gallery`: one vehicle, two images, two files, one form, `MaxImages = 2` (12 in the
  code), so that one uploaded and one downloaded image compete. 3.8 million states.
- `backup`: one vehicle, one attachment, two files, two requests and restarts: data made
  after the export are there to be replaced, and both requests may restore. 1.8 million states.
- `vehicle_pages`: in the dialog two vehicles, of which one has two images, one of them of a
  maintenance entry, one more of the user's and one a shop suggests, `MaxImages = 2` (12 in
  the code), so that one upload passes the limit; a field the list of vehicles holds and
  one it does not (`details`); four edits or requests begun (open, change, save, and one
  more under way); in the import five fields, one for
  each way a field can go (`Listed`: in the list; `color`: copied, but not in it; `storage`: not
  copied), a file of two lines, one that updates and one that
  makes a vehicle, two columns that stand for one field, an ECoS with one locomotive and
  two edits; of CV values one that is stored, two files with numbers and values at and
  beyond their limits and profiles that differ in case, two probes of the ECoS, three
  edits; of tables two rows of cells of up to three characters, of all that have a meaning. 1.7
  million states.
- `client`: two tabs, two users with different roles, two logins, five steps (`MaxSessions`,
  `MaxSteps`); two exhibition lists with up to two entries, three steps (`MaxTurns`), so that
  two answers overtake each other around a change; two types of master data with an entry
  each, two backup files of which one is compatible, six steps (`MaxDataTurns`: validate,
  choose, confirm and restore around an open form); two accounts, five steps (`MaxFormTurns`);
  two number schemes that count to `MaxNext = 4`, four steps (`MaxGeneralTurns`: type in two rows,
  save one, and one more). 1.5 million states.

**Symmetry** is used for sets whose elements the modules only compare for equality, and only
in the backend's runs of invariants, action properties and the refinement, none of which
has a liveness part.

**Fairness** is assumed where the code justifies it, and only weakly:

- `backup`: of `Continue(r)`, the next step of a request that is being served. The Go
  scheduler runs a goroutine that can run, `database/sql` hands the connection to those
  waiting for it, and `Continue` includes the failure of the step, so fairness promises
  an end of the request, not a success. New requests, `Begin(r)`, need not come.
  `ConnectionReturns` needs the context of a finished request to be cancelled, which
  `net/http` does: `EndRequest`.
- `vehicle_pages`: of each loop of requests (`Saving`, `Loop`, `CVSaving`), whose next
  step follows from the answer before it, and of answers (`AnswersCome`). `client`: of
  answers (`PageAnswered`). An answer may be lost or an error: the timeout of
  `shared/api.ts:769` ends every request, so that fairness promises an end, not a success.
  Users need do nothing.

## What the runs found

Four statements of the repository do not hold:

1. **A restore does not refresh the cache** (`backend/internal/api/router.go:2083`): `WarmCache`
   finds the old lists still cached and keeps them. `StaleCacheHasCause` names restores as
   one of the causes.
2. **Links of images outlive their maintenance entry** (`application/vehicles.go:1246`); such an
   image can no longer be deleted, and forms that hold the link are refused.
3. **An update by an import row empties fields** (`importExport/importExportHelpers.tsx:593`):
   `vehicleToRequest` leaves out ten fields, which the server then writes as blank, and the
   vehicle it copies is a row of the list, which lacks some thirty more (`vehicles.go:23-30`).
   `UpdatesKeepKnown` says what does hold: of the fields a file may bring, those the page knows
   as the server has them are kept.
4. **The exhibition mark deletes images** (`vehicles/VehiclesView.tsx:1505`): the list sends the
   vehicle without its images, and the server deletes those it was not sent. The fields of
   the form that the list lacks become blank with it.

`PROJECT.json` quotes the line each of them contradicts. Further behaviour that no line
promises otherwise, or that properties name as their condition:

- the lock of an exhibition list is read in a statement before the write
  (`exhibition.go:225`), so that entries may still change just after it was set;
  `OnlyOvertakenWritesAfterLock` says which;
- first setup counts the users outside its transaction (`setup.go:51`): two at once both succeed;
- references are not enforced (see above): a deleted user is still served under the sessions it has,
  until they expire or an administrator revokes them; `DeletedUsersStayOut` bounds what it can
  still get. Entries of a deleted list and files of a deleted vehicle stay for good;
- uploads of images are not limited, but a save of the form keeps twelve (`vehicles.go:2082`) and
  deletes those behind them; `SavesKeepImages` names them as its exception;
- the audit entry of a lock change is lost when the read or the insert that belong to it fail
  (`exhibition.go:175`, `api/exhibition.go:146`); the change itself stays;
- leaving the tab of the accounts and coming back loads the SMTP settings over what was typed there
  (`SettingsView.tsx:285`); `FormsKeepUp` names it as its exception;
- the answer of a logout clears the cookie the browser has by then, also that of a login in
  another tab meanwhile (`App.tsx:179`);
- an export reads each table with a statement of its own (`backup.go:117`), so that a backup made
  while data change may hold rows whose vehicle or file it lacks;
- the settings page asks without end for what is refused: an effect asks for the use of the storage
  as long as it is not there (`SettingsView.tsx:275`), which only an administrator may read
  (`routes.go:110`), so that an editor on the data tab sends one request after the other; number schemes
  (`:257`) likewise once the session has ended. `PagesSettle` names both as its exceptions;
- a number scheme is saved with the counter as it was loaded (`SettingsView.tsx:741`), before
  vehicles that were made since;
- the pages of the client take late answers into the wrong place: the comments of
  `DialogShowsItsVehicle`, `EntriesBelong`, `OverwritesWhatWasShown` and `FormsKeepUp` name the lines.

## What is proved

The theorems hold for every value of the constants that meets the named assumptions
(`...Assumption`, `ConstantsFit`) of the modules. `tlapm <module>` checks them. `VehiclePagesProofs`
takes about a quarter of an hour, `ClientProofs` four minutes, each other module less than one.

| Module | Theorems | Inductive invariant |
|---|---|---|
| `MasterDataProofs` | `TypeCorrect`, `StaleCache`, `OwnDataStart`, `EditsSurviveStarts` | each property with `TypeOK`, which says of a request that lists that a list is left to obtain; `EmptyUntilUp` for the cache; for the start, `OwnInvariant`: unless a foreign document was stored, a row is under its own id and its metadata can be read |
| `ExhibitionListsProofs` | `TypeCorrect`, `LockedListSettles`, `DeletedListSettles`, `LockIsSetLocked`, `AuditIsKept` | `LockRespected`: a request that waits to write an entry of a locked or deleted list was overtaken (`early`); for the audit log, what the one request at work has read is still so |
| `AccountsProofs` | `TypeCorrect`, `AnAdminRemains`, `DeletedUsersGetNothing`, `PasswordChangeEndsSessions`, `ResetLinksWorkOnce` | `IInv` of `Accounts`; for reset links, a link that a request at work has read is not used up |
| `InventoryNumbersProofs` | `TypeCorrect`, `NumbersAreUnique`, `BookKept`, `NoneDrawnTwice`, `HistoryIsKept` | `TypeOK` and `NumbersUnique`; for the history, the vehicle that the one request at work has read is still stored so |
| `VehicleGalleryProofs` | `TypeCorrect`, `FilesExist`, `FilesAreDistinct`, `FilesStayWithRows`, `OneImageIsPrimary`, `LinkedImagesStay` | `IInv` of `VehicleGallery`; in turn, what the one request at work has read of the gallery still holds |
| `BackupProofs` | `TypeCorrect`, `RestoreIsExact` | `OneAtATime` and `Progress`: what the one request under way has restored so far is that part of the backup |
| `ClientProofs` | `SessionTypeCorrect`, `TokensFit`, `ChangesActAsShown`, `SessionTypesAreKept`, `ReloadShowsTheSame`, `EntriesAppearInTheirList`, `AddressesStayUnique`, `TablesShowWhatIsStored`, `OverwritesOnlyTheShown`, `OnlyLoadsTakeWhatIsTyped` | one per page: `IInv` (the token a tab has belongs to the user it shows), `SessionPage`, `ExhibitionPage`, `DataPage`, `GeneralPage`, `FormsPage` |
| `VehiclePagesProofs` | `LoopStoresWhatFits`, `UpdatesKeepTheRest`, `SavedMeansStored`, `OneVehicleIsShown`, `SavesLoseNoImage`, `ImportedAgainAddsNothing`, `LoopsOverwriteWhatWasShown`, `WrittenIsReadAgain`, `PagesKeepTypes` | `ImportPage`: rows that may be stored are complete or know their vehicle, the row under way has brought its fields, and the view's copy of every other vehicle is what the server has, or nothing in fields the list lacks; `DialogPage`, `CVPage`, `ReadingPage`: see below |

Each proof has the same shape: the initial states satisfy the invariant; one lemma for each
action shows that the action preserves it, most of them by a lemma about the kind of
step (`OnlyRequestMoves`, `RowsChange`, `FileGoes`); the theorem combines them in one
temporal step.

- **Accounts.** `AdminRemains` alone is not inductive: a request must not act before there is a
  user (`NothingBeforeSetup`), and what rows and requests name must have existed
  (`RowsNameSpentUsers`), so that a new id meets no old grants: those of deleted users stay. The count of other admins
  is in the transaction that takes the role away; that is why no interleaving gets past it.
- **Vehicle images.** Every file that matters belongs to one row or to one request that may
  still give it to a row (`RowsOwnFiles`, `RequestsOwnFiles`); a file that is being removed
  belongs to nobody, and its name never comes again (`RemovalsAreFree`), so that the
  removal needs no lock although it runs after the row has gone; what a delete has read of
  an image stays true of its row (`ReadsAreCurrent`).
- **Exhibition lists.** `LockedListSettles` and `DeletedListSettles` are action properties that need to
  know of each waiting request whether the lock or the deletion overtook it; `LockRespected` says that
  of all of them.
- **Master data.** A list in the cache differs from its table only from the moment a write
  commits until that request drops the cache, or if the list is in `late`. `OwnDataStart` holds as
  every write of the program puts a row under its own key or under an id that no seed row has
  (`GivenIds`: the migrations), which is what the assumptions on `Seed` and `Migrations` say.
- **Inventory numbers.** `BookKept` is a refinement: every initial state and step of
  `InventoryNumbers` maps to one of `NumberBook`, or to a stutter. A draw is `Issue`, because the
  scheme is left behind every number it printed since it was last edited; a typed number is `Enter`.
- **Backup.** A restore commits its tables, clears the uploads and writes the files in separate
  steps. `RestoreIsExact` is the run's property: while nobody else is at work, `Progress` says
  after each of the steps which of the three is as in the backup. `Requests` has to be
  finite, because the history counts the requests under way.
- **Session.** `ActsAsShown` needs that the token of a tab, and every answer on its way to
  it, fits the user shown, and that the server refuses a token of another session.
- **In turn.** Some properties hold only while no two requests are at work at once; the MC modules
  have a history variable `overlapped` that says when two were. As long as it is not set,
  at most one request is at work (`OneAtATime`), so that nobody else changes what it has read before
  it writes: the invariants relate what a request has read to what is stored. `Requests` has to
  be finite there, because the history counts the requests at work.
- **Pages of the client.** A behavior has one page, and a property names in its condition what a
  user has to do for it to hold (`hasty`, `rash`, `impatient`, `eager`): a calm user waits until nothing
  is under way. The invariants say that what a page shows differs from what the server has only
  where an answer that is still to come will bring it, and that such an answer carries
  what the server has. `TableShowsStored`, `OverwritesWhatWasShown` and `FormsKeepUp` speak of
  several pages and join their invariants. An exhibition list has room for an entry (`MaxEntries`
  is at least 1).
- **Import.** The loop runs on the rows and vehicles of its click. Its requests name one row at a
  time, the first that is left, so that a row marked as saved is the one whose data the server
  took; what a row with a locomotive has brought by its first request is kept (`saved`) until
  the mapping and the CV values are stored. That the first row left, and the last of several
  columns, exist is proved from the well-foundedness of the natural numbers (`LeastNumber`).
- **Dialog.** `DialogPage` has three layers, each under more of the history. The types
  (`DialogTypes`) always hold, and with them that of the images shown one is primary. While the
  user waits (`Calm`), a save, a loop and a refresh under way are for the vehicle that is open, and
  an image that is shown, sent or answered is in no other vehicle. With every request in
  turn as well (`InStep`), what is shown once nothing is under way, what a save sends, and what an
  opening and the last of several refreshes have been answered cover the images that are stored;
  earlier refreshes may be old, which is why the list of answers must be shown in its order. `Without` is
  written as a recursive function, so that `LeastNumber` gives what it keeps
  (`WithoutKeeps`). Assumed is that the first vehicle has stored images of which one is
  primary, as every save leaves it.
- **CV values.** `CVPage` says of the types and, as long as nothing has `disturbed` the values (another
  user or a list of the ECoS that came in between, a loop that stopped, an answer out of turn), how four things
  hang together: the table, the tab's copy, the preview or list that is shown, and the loop that
  stores. The last refresh brings what is stored (`Follows`; earlier ones may be old). While a preview is
  stored, what is left of its rows is the end of `Chosen`, and a stored value differs from the
  copy only where a row that is done has the same key (`ByPreview`). While values
  of an ECoS are stored, the rows still show what they showed, as each number comes once and a row
  that is done touches no other number (`ByEcos`). What was imported last stays stored, under different keys
  (`KeptInputs`). So the same file, looked at again, meets each of its values. Assumed is that an
  ECoS tells a number once (`ecos.go:597` collects them in a map).
- **Delimited text.** `ReadingPage` follows the parser through a text of any length. `LaidOut`
  says where in the text each cell lies, from what the writer does (`EscapedCell`,
  `JoinedParts`). Within a cell the parser is in one of four phases (`InPlain`, `AtQuotes`, `InQuotes`,
  `AtCellEnd`), and each has read the part of the value that precedes it; at the end of a cell it is about to
  go on to the next cell, the next line or the end. The rows it has collected are `WithValues` of
  the lines before. The separator is `;` because the header has one and no comma
  (`SemicolonDetected`). Assumed is that a line has a cell and that cells consist of `Characters`:
  the quote, the line end, both separators and one letter for all others.
- **Data computed by a loop.** `Chosen` and `WithValues` are recursive functions on the length of a
  sequence; their values at each length are defined one from the other, and where a fact about all
  lengths is needed, `LeastNumber` gives the first length that lacks it.

Only model-checked is liveness (`ConnectionReturns`, `PagesSettle`), as TLAPS proves nothing
about fairness and `ENABLED`. Every other property that a run shows to hold is a theorem.

## What is left out

- Wording, layout and validation of text fields; names and addresses of users (a duplicate is
  a failed statement); password hashes (the password itself); tokens (the row's id).
- The order of images in `VehicleGallery`: where the code takes the first, the model takes any.
  Images given when a vehicle is created go through the same code as those of a saved form.
- In `Backup`: checksums, columns, the other fourteen tables.
- **Rate limits** need a clock; times elsewhere are nondeterministic (sessions and reset links
  may expire at any moment).
- **Migrations**: what they do to master data is in `MasterData`, one after the other with stops in
  between; the tables and columns they make are not.
- **SMTP settings and mailer, ESU files, ECoS client, article search**: input and output without
  state of their own. What the client does with their answers is modelled.
- The history of CV values (`application/vehicles.go:1497`), and attachments' links.
- In the client: filters, sorting, QR labels, spreadsheets, reports, conversions of single
  fields, version checks, the order of the navigation, the overview page, translations. `i18n/*.ts` and most of `shared/api.ts` are texts and
  types.

## Plan

The order follows what is hard to test. Done: the backend's six components; the client's
pages; the book of numbers as abstract specification; eight modules of proofs. Left:

1. `RateLimits`: one transaction per call, with a clock. At most `limit` calls are admitted in
   any window; a call with a shorter window forgets the attempts of others.
2. Histories of CV values, function keys and links of attachments in the backend.
3. The migrations of the other tables, as far as they change rows.
4. A restore beside uploads, in `VehicleGallery`.
