SPECIFICATION VLiveSpec
CONSTANTS
  Wanted = {"tradingLib", "oracleLib", "permitLib", "main", "rToken", "facadeRead", "rsrAsset",
            "deployer", "facadeWriteLib", "facadeWrite",
            "COMP", "DAI", "static aDAI", "aDAI", "EURT",
            "facadeWrite of RToken", "RToken", "governance"}
  Chains = {"fork", "live"}
  MaxMishaps = 2
INVARIANTS
  TypeOK
  Coherent
PROPERTIES
  Completes
  VerifiedInTheEnd
CHECK_DEADLOCK FALSE
