SPECIFICATION ArbiterSpec
CONSTANTS
    alice = alice
    bob = bob
    vault1 = vault1
    configPda = configPda
    ref1 = ref1
    NoEscrow = NoEscrow
    Nobody = Nobody
    ConfigAccount = configPda
    Accounts <- MCAccounts
    Refs <- MCRefs
    Vault <- MCVault
    Endowment <- MCEndowment
    Rent = 1
    ConfigRent = 1
    Amounts = {0, 1, 2}
    Horizon = 2
INVARIANTS
    Solvent
PROPERTIES
    WalletsByTerms
    KeepsPromise
CHECK_DEADLOCK FALSE
