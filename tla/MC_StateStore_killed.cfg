SPECIFICATION Spec
CONSTANTS
    p1 = p1
    p2 = p2
    dev = dev
    prod = prod
    n1 = n1
    n2 = n2
    fromDev = fromDev
    fromProd = fromProd
    Unset = Unset
    Procs <- MCProcs
    Envs <- MCEnvs
    Names <- MCNames
    Stored <- MCStored
    Overlap = FALSE
INVARIANT AlwaysLoadable
