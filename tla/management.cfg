SPECIFICATION Spec
CONSTANTS
  h1 = h1
  h2 = h2
  h3 = h3
  anthropic = anthropic
  compatible = compatible
  cloud = cloud
  local = local
  claude = claude
  llama = llama
  embed = embed
  fast = fast
  Handlers = {h1, h2, h3}
  Providers = {cloud, local}
  Models = {claude, llama, embed}
  Names = {fast}
  ProviderOf <- Under
  Types = {anthropic, compatible}
  NeedsKey = {anthropic}
  KindsOf <- ServedBy
  Shipped <- InRelease
  Keys = {1, 2}
  Kinds = {"chat", "embedding"}
  Absent = Absent
  Operations <- Asked
  FirstStores <- Stores
SYMMETRY Interchangeable
INVARIANT TypeOK StaleOnlyWhenSwapsCross LiveIsClosed StoreIsComplete
PROPERTY CredentialLeftAlone
CHECK_DEADLOCK FALSE
