SPECIFICATION StoresSpec
CONSTANTS
  None = None
  StoreParts = {"repository", "users", "seed", "directory", "parsing", "files", "objects", "buckets", "thumbnails"}
  DocIds = {a, b}
  Members = {m}
  Callers = {c1, c2}
  PoolMax = 2
  PageLimit = 1
  MaxStoreOps = 5
  StoreUsers = {u1, u2}
  Apps = {app}
  Threads = {t1}
  Files = {f1}
  StoredEvents = {e1, e2}
  MaxUserOps = 5
  Templates = {a, b, c}
  Unparseable = {c}
  Demos = {}
  IncludeDemos = TRUE
  Durable = {b}
  SeedLimit = 3
  Seeders = {s1}
  Registrars = {o1}
  MaxSeeds = 3
  MaxReleases = 2
  MaxSeedEdits = 1
  Processes = {i1}
  Requests = {j1, j2}
  Owners = {ann, root}
  PlatformUser = platform
  PlatformAdmin = root
  Slugs = {x}
  Backend = "firestore"
  SkillTtl = 1
  MaxSkillTicks = 1
  MaxSkillWrites = 1
  MaxUnits = 4
  FileLimit = 4
  PdfPageLimit = 3
  BlockLimit = 3
  RowsPerTable = 2
  FileUsers = {u1}
  FileIds = {d1, d2}
  Library = {g1}
  FileRequests = {r1, r2}
  MaxFileOps = 3
  ObjectOwners = {u1}
  Dirs = {a}
  Names = {n1, n2}
  Writers = {w1, w2}
  Readers = {q1}
  Chunks = 2
  MaxPuts = 3
  MaxGets = 3
  BucketUsers = {u1, u2}
  BucketAdmins = {u1}
  BucketIds = {b1}
  FolderIds = {f1}
  BucketRequests = {r1, r2}
  Corpora = {k1, k2}
  MaxBucketOps = 4
  MaxTtl = 2
  ThumbDocs = {d1, d2}
  ThumbObjects = {o1}
  Pdfs = {d1, d2}
  Images = {o1}
  Damaged = {d2}
  Huge = {}
  Views = {v1, v2}
  Parsers = {p1}
  MaxRenders = 1
  CacheMax = 1
INVARIANTS RowsKept SeedConverges CatalogueSound BytesWhole
PROPERTY ContractKept
CHECK_DEADLOCK FALSE
